----------------------------- MODULE ServerProofs -----------------------------
(***************************************************************************)
(* The server: what a round of its collector leaves behind, for every set  *)
(* of gateways and any number of rounds; what a client that goes through   *)
(* the pages of a list is given, for every table, size of pages and number *)
(* of changes; that no part is missed while the service starts; and who is *)
(* let in.                                                                 *)
(***************************************************************************)
EXTENDS Server, FiniteSetTheorems, TLAPS

(***************************************************************************)
(* AtMostOneLeft is about rounds that have ended.  While one is under way, *)
(* the answers that were not taken are the turns that are left, and one    *)
(* more when the timeout was taken.                                        *)
(***************************************************************************)
One(condition) == IF condition THEN 1 ELSE 0

RoundsToCome ==
    \A k \in Rounds :
        k > round \/ (k = round /\ phase \in {"participants", "gateways"}) =>
            out[k] = {} /\ k \notin timedOut

RoundUnderWay ==
    phase = "collect" =>
        /\ Cardinality(out[round]) = turns + One(round \in timedOut)
        /\ timeout <=> round \notin timedOut

CollectorInv == CollectorTypeOK /\ RoundsToCome /\ RoundUnderWay /\ AtMostOneLeft

-----------------------------------------------------------------------------

\* Sets of gateways are finite, with or without one that is taken out.
LEMMA GatewaySets ==
    ASSUME NEW G \in SUBSET Gateways
    PROVE  /\ IsFiniteSet(G) /\ Cardinality(G) \in Nat
           /\ \A g \in G : Cardinality(G \ {g}) = Cardinality(G) - 1
<1>1. IsFiniteSet(G)
  BY FS_Subset, CollectorConstantsOK
<1>. QED
  BY <1>1, FS_CardinalityType, FS_RemoveElement

LEMMA CollectorInitInv == CollectorInit => CollectorInv
<1>. SUFFICES ASSUME CollectorInit PROVE CollectorInv
  OBVIOUS
<1>. running \in BOOLEAN /\ tick \in BOOLEAN /\ timeout \in BOOLEAN
  BY Zenon DEF CollectorInit
<1>1. CollectorTypeOK
  BY CollectorConstantsOK DEF CollectorInit, CollectorTypeOK, Rounds
<1>2. RoundsToCome
  BY DEF CollectorInit, RoundsToCome
<1>3. RoundUnderWay /\ AtMostOneLeft
  BY CollectorConstantsOK DEF CollectorInit, RoundUnderWay, AtMostOneLeft, Rounds
<1>. QED
  BY <1>1, <1>2, <1>3 DEF CollectorInv

-----------------------------------------------------------------------------
(* Types *)

LEMMA CollectorTypeOKStep ==
    ASSUME CollectorTypeOK, RoundsToCome, [CollectorNext]_collectorVars
    PROVE  CollectorTypeOK'
<1>. USE CollectorConstantsOK DEF CollectorTypeOK, Rounds
<1>1. CASE Start \/ Tick \/ TakeTick \/ CollectRoomParticipants \/ GatewaysQueryFails
  <2>1. running' \in BOOLEAN /\ tick' \in BOOLEAN /\ timeout' \in BOOLEAN
    BY <1>1, Zenon DEF Start, Tick, TakeTick, CollectRoomParticipants, GatewaysQueryFails
  <2>2. CASE Start
    BY <2>1, <2>2 DEF Start
  <2>3. CASE Tick
    BY <2>1, <2>3 DEF Tick
  <2>4. CASE TakeTick
    <3>1. round' \in 0..MaxRounds /\ round' \in Rounds
      BY <2>4 DEF TakeTick
    <3>. QED
      BY <2>1, <2>4, <3>1 DEF TakeTick
  <2>5. CASE CollectRoomParticipants \/ GatewaysQueryFails
    BY <2>1, <2>5 DEF CollectRoomParticipants, GatewaysQueryFails
  <2>. QED
    BY <1>1, <2>2, <2>3, <2>4, <2>5
<1>2. CASE AskGateways
  <2>1. PICK found \in SUBSET Gateways :
            out' = [out EXCEPT ![round] = found] /\ turns' = Cardinality(found)
    BY <1>2 DEF AskGateways
  <2>2. turns' \in Nat
    BY <2>1, GatewaySets
  <2>3. round \in Rounds /\ out[round] = {}
    BY <1>2 DEF AskGateways, RoundsToCome
  <2>4. \A k \in Rounds : sent'[k] \subseteq out'[k]
    BY <1>2, <2>1, <2>3 DEF AskGateways
  <2>. QED
    BY <1>2, <2>1, <2>2, <2>4 DEF AskGateways
<1>3. ASSUME NEW g \in Gateways, Answer(g) PROVE CollectorTypeOK'
  BY <1>3 DEF Answer
<1>4. CASE TakeAnswer
  BY <1>4 DEF TakeAnswer
<1>5. CASE TakeTimeout
  <2>1. running' \in BOOLEAN /\ tick' \in BOOLEAN /\ timeout' \in BOOLEAN
    BY <1>5, Zenon DEF TakeTimeout
  <2>2. timedOut' \in SUBSET Rounds /\ turns' \in Nat
    BY <1>5 DEF TakeTimeout
  <2>. QED
    BY <1>5, <2>1, <2>2 DEF TakeTimeout
<1>6. CASE EndRound
  BY <1>6 DEF EndRound
<1>7. CASE UNCHANGED collectorVars
  BY <1>7 DEF collectorVars
<1>. QED
  BY <1>1, <1>2, <1>3, <1>4, <1>5, <1>6, <1>7 DEF CollectorNext

-----------------------------------------------------------------------------
(* What a round leaves behind *)

LEMMA CollectorInvStep ==
    ASSUME CollectorInv, [CollectorNext]_collectorVars
    PROVE  CollectorInv'
<1>1. CollectorTypeOK /\ RoundsToCome /\ RoundUnderWay /\ AtMostOneLeft
  BY DEF CollectorInv
<1>2. CollectorTypeOK'
  BY <1>1, CollectorTypeOKStep
<1>. SUFFICES RoundsToCome' /\ RoundUnderWay' /\ AtMostOneLeft'
  BY <1>2 DEF CollectorInv
<1>. USE CollectorConstantsOK, <1>1, <1>2 DEF Rounds, One
<1>3. CASE Start \/ Tick
  BY <1>3 DEF Start, Tick, RoundsToCome, RoundUnderWay, AtMostOneLeft
<1>4. CASE TakeTick
  <2>. USE <1>4 DEF TakeTick, CollectorTypeOK
  <2>1. RoundsToCome'
    BY DEF RoundsToCome
  <2>2. AtMostOneLeft'
    BY DEF AtMostOneLeft
  <2>. QED
    BY <2>1, <2>2 DEF RoundUnderWay
<1>5. CASE CollectRoomParticipants
  BY <1>5 DEF CollectRoomParticipants, RoundsToCome, RoundUnderWay, AtMostOneLeft
<1>6. CASE GatewaysQueryFails
  <2>. USE <1>6 DEF GatewaysQueryFails, CollectorTypeOK
  <2>1. RoundsToCome' /\ RoundUnderWay'
    BY DEF RoundsToCome, RoundUnderWay
  <2>2. out[round] = {} /\ round \notin timedOut
    BY DEF RoundsToCome
  <2>3. Cardinality({}) = 0
    BY FS_EmptySet
  <2>. QED
    BY <2>1, <2>2, <2>3 DEF AtMostOneLeft
<1>7. CASE AskGateways
  <2>. USE <1>7 DEF AskGateways, CollectorTypeOK
  <2>1. PICK found \in SUBSET Gateways :
            out' = [out EXCEPT ![round] = found] /\ turns' = Cardinality(found)
    OBVIOUS
  <2>2. round \in Rounds /\ round \notin timedOut
    BY DEF RoundsToCome
  <2>3. RoundsToCome'
    BY <2>1 DEF RoundsToCome
  <2>4. RoundUnderWay'
    BY <2>1, <2>2, GatewaySets DEF RoundUnderWay
  <2>5. AtMostOneLeft'
    BY <2>1 DEF AtMostOneLeft
  <2>. QED
    BY <2>3, <2>4, <2>5
<1>8. ASSUME NEW g \in Gateways, Answer(g)
      PROVE  RoundsToCome' /\ RoundUnderWay' /\ AtMostOneLeft'
  BY <1>8 DEF Answer, RoundsToCome, RoundUnderWay, AtMostOneLeft
<1>9. CASE TakeAnswer
  <2>. USE <1>9 DEF TakeAnswer, CollectorTypeOK
  <2>1. PICK g \in sent[round] : out' = [out EXCEPT ![round] = @ \ {g}]
    OBVIOUS
  <2>2. out[round] \in SUBSET Gateways /\ g \in out[round]
    BY <2>1
  <2>3. Cardinality(out'[round]) = Cardinality(out[round]) - 1
    BY <2>1, <2>2, GatewaySets
  <2>4. RoundsToCome'
    BY <2>1 DEF RoundsToCome
  <2>5. RoundUnderWay'
    BY <2>3 DEF RoundUnderWay
  <2>6. AtMostOneLeft'
    BY <2>1 DEF AtMostOneLeft
  <2>. QED
    BY <2>4, <2>5, <2>6
<1>10. CASE TakeTimeout
  <2>. USE <1>10 DEF TakeTimeout, CollectorTypeOK
  <2>1. RoundsToCome'
    BY DEF RoundsToCome
  <2>2. RoundUnderWay'
    BY DEF RoundUnderWay
  <2>3. AtMostOneLeft'
    BY DEF AtMostOneLeft
  <2>. QED
    BY <2>1, <2>2, <2>3
<1>11. CASE EndRound
  <2>. USE <1>11 DEF EndRound, CollectorTypeOK
  <2>1. RoundsToCome' /\ RoundUnderWay'
    BY DEF RoundsToCome, RoundUnderWay
  <2>2. AtMostOneLeft'
    BY DEF AtMostOneLeft, RoundUnderWay
  <2>. QED
    BY <2>1, <2>2
<1>12. CASE UNCHANGED collectorVars
  BY <1>12 DEF collectorVars, RoundsToCome, RoundUnderWay, AtMostOneLeft
<1>. QED
  BY <1>3, <1>4, <1>5, <1>6, <1>7, <1>8, <1>9, <1>10, <1>11, <1>12 DEF CollectorNext

-----------------------------------------------------------------------------
(* The server runs the collector as it is by itself *)

LEMMA ServerInitCollector == ServerInit => CollectorInit
BY Zenon DEF ServerInit

LEMMA ServerStepCollector == [ServerNext]_serverVars => [CollectorNext]_collectorVars
<1>. SUFFICES ASSUME [ServerNext]_serverVars PROVE CollectorNext \/ UNCHANGED collectorVars
  OBVIOUS
<1>1. CASE initInstrumentation
  BY <1>1 DEF initInstrumentation, CollectorNext
<1>2. CASE Collect
  BY <1>2 DEF Collect
<1>3. CASE Fatal
  BY <1>3 DEF Fatal, Exit
<1>4. CASE TokensTick
  BY <1>4 DEF TokensTick, Panic, serverVars
<1>5. CASE HandleServiceProtocol
  BY <1>5 DEF HandleServiceProtocol, Panic, serverVars
<1>6. CASE initCache \/ initSessionManagement \/ initGatewayTokensMonitoring
             \/ initRoomsStatistics \/ initServiceProtocolHandler \/ initMQTT \/ ListenAndServe
  BY <1>6 DEF initCache, initSessionManagement, initGatewayTokensMonitoring,
              initRoomsStatistics, initServiceProtocolHandler, initMQTT, ListenAndServe
<1>7. CASE Subscribe \/ ConnectionLost \/ Reconnect
  BY <1>7 DEF Subscribe, ConnectionLost, Reconnect
<1>8. CASE ServeHTTP \/ ServePages
  BY <1>8 DEF ServeHTTP, ServePages
<1>9. CASE UNCHANGED serverVars
  BY <1>9 DEF serverVars
<1>. QED
  BY <1>1, <1>2, <1>3, <1>4, <1>5, <1>6, <1>7, <1>8, <1>9 DEF ServerNext

\* The server implements the collector: whatever the rest of the process does,
\* its loop goes on as if it were alone (initInstrumentation starts it).
THEOREM ServerImplementsCollector == ServerSpec => CollectorSpec
BY ServerInitCollector, ServerStepCollector, PTL DEF ServerSpec, CollectorSpec

\* A round that has ended leaves one goroutine behind if its timeout was taken,
\* and none otherwise, with any number of gateways and rounds.
THEOREM AtMostOneLeftAlways == ServerSpec => []AtMostOneLeft
<1>1. CollectorInv => AtMostOneLeft
  BY DEF CollectorInv
<1>. QED
  BY <1>1, CollectorInitInv, CollectorInvStep, ServerImplementsCollector, PTL DEF CollectorSpec

\* A round never waits for gateways alone that may never answer, if there is no
\* more than one of those: the timeout takes the turn of that one, whichever of
\* the others come before it and after it (collectGatewaySessions).
SomeoneToWaitFor ==
    phase = "collect" /\ turns > 0 /\ Cardinality(Silent) <= 1 =>
        timeout \/ \E g \in out[round] : g \notin Silent

\* With one silent gateway at most, no round waits for it alone: there are more
\* answers to come than turns, unless the timeout is still to come.
THEOREM SomeoneToWaitForAlways == ServerSpec => []SomeoneToWaitFor
<1>1. ASSUME CollectorInv, phase = "collect", turns > 0, Cardinality(Silent) <= 1, ~timeout
      PROVE  \E g \in out[round] : g \notin Silent
  <2>. USE CollectorConstantsOK
  <2>1. /\ out[round] \in SUBSET Gateways /\ turns \in Nat /\ round \in Rounds
        /\ Cardinality(out[round]) = turns + 1
    BY <1>1 DEF CollectorInv, CollectorTypeOK, RoundUnderWay, One
  <2>2. IsFiniteSet(Silent) /\ Cardinality(Silent) \in Nat
    BY GatewaySets
  <2>3. ~ (out[round] \subseteq Silent)
    <3>. SUFFICES ASSUME out[round] \subseteq Silent PROVE FALSE
      OBVIOUS
    <3>1. Cardinality(out[round]) <= Cardinality(Silent)
      BY <2>2, FS_Subset
    <3>. QED
      BY <1>1, <2>1, <2>2, <3>1
  <2>. QED
    BY <2>3
<1>2. CollectorInv => SomeoneToWaitFor
  BY <1>1, Zenon DEF SomeoneToWaitFor
<1>. QED
  BY <1>2, CollectorInitInv, CollectorInvStep, ServerImplementsCollector, PTL DEF CollectorSpec

\* Gauges only take answers of the round that is under way.
THEOREM FreshGaugesAlways == ServerSpec => FreshGauges
<1>1. ASSUME CollectorInv, [CollectorNext]_collectorVars
      PROVE  [\A g \in Gateways : gauge'[g] \in {gauge[g], 0, round}]_collectorVars
  <2>1. CollectorTypeOK
    BY <1>1 DEF CollectorInv
  <2>2. CASE AskGateways
    BY <2>2 DEF AskGateways
  <2>3. CASE TakeAnswer
    BY <2>1, <2>3 DEF TakeAnswer, CollectorTypeOK
  <2>4. ASSUME NEW g \in Gateways, Answer(g)
        PROVE  \A h \in Gateways : gauge'[h] \in {gauge[h], 0, round}
    BY <2>4 DEF Answer
  <2>5. CASE Start \/ Tick \/ TakeTick \/ CollectRoomParticipants \/ GatewaysQueryFails
               \/ TakeTimeout \/ EndRound
    BY <2>5 DEF Start, Tick, TakeTick, CollectRoomParticipants, GatewaysQueryFails,
                TakeTimeout, EndRound
  <2>6. CASE UNCHANGED collectorVars
    BY <2>6
  <2>. QED
    BY <1>1, <2>2, <2>3, <2>4, <2>5, <2>6 DEF CollectorNext
<1>. QED
  BY <1>1, CollectorInitInv, CollectorInvStep, ServerImplementsCollector, PTL
  DEF CollectorSpec, FreshGauges

-----------------------------------------------------------------------------
(* Ranks                                                                    *)

(***************************************************************************)
(* A page is said by ranks: the rows with as many in front of them as the  *)
(* pages before it hold.  Ranks of a set of rows have no gaps, and none    *)
(* gets smaller when rows come in.  The last two lemmas on sets of numbers *)
(* stand in for induction.                                                 *)
(***************************************************************************)
InFront(rows, descending, i) == {j \in rows : IF descending THEN j > i ELSE j < i}

RankIn(rows, descending, i) == Cardinality(InFront(rows, descending, i))

LEMMA Least ==
    ASSUME NEW S \in SUBSET Nat, S # {}
    PROVE  \E n \in S : \A m \in S : n <= m
<1>1. PICK n \in S : \A m \in S : <<m, n>> \notin OpToRel(<, Nat)
  <2>. HIDE DEF OpToRel
  <2>. QED
    BY NatLessThanWellFounded, WFMin
<1>2. \A m \in S : ~ (m < n)
  BY <1>1 DEF OpToRel
<1>. QED
  BY <1>2

LEMMA Greatest ==
    ASSUME NEW S \in SUBSET Nat, S # {}, NEW bound \in Nat, \A m \in S : m <= bound
    PROVE  \E n \in S : \A m \in S : m <= n
<1>. DEFINE T == {t \in Nat : bound - t \in S}
<1>1. \A m \in S : bound - m \in Nat /\ bound - (bound - m) = m
  OBVIOUS
<1>2. \A m \in S : bound - m \in T
  BY <1>1
<1>3. PICK t \in T : \A u \in T : t <= u
  <2>1. T \in SUBSET Nat /\ T # {}
    BY <1>2
  <2>. HIDE DEF T
  <2>. QED
    BY <2>1, Least
<1>4. ASSUME NEW m \in S PROVE m <= bound - t
  <2>1. t <= bound - m
    BY <1>2, <1>3
  <2>. QED
    BY <1>1, <2>1
<1>5. bound - t \in S
  OBVIOUS
<1>. QED
  BY <1>4, <1>5

LEMMA RowsFinite ==
    ASSUME NEW rows \in SUBSET (1..MaxRows)
    PROVE  /\ IsFiniteSet(rows) /\ Cardinality(rows) \in Nat
           /\ rows \in SUBSET Nat /\ \A i \in rows : i <= MaxRows
<1>1. MaxRows \in Nat /\ 1 \in Int /\ MaxRows \in Int
  BY PagesConstantsOK
<1>2. IsFiniteSet(1..MaxRows)
  BY <1>1, FS_Interval
<1>3. IsFiniteSet(rows)
  BY <1>2, FS_Subset
<1>. QED
  BY <1>1, <1>3, FS_CardinalityType

\* As many are in front of a row as are in the list with it, at most.
LEMMA RankBound ==
    ASSUME NEW rows \in SUBSET (1..MaxRows), NEW descending, NEW i \in rows
    PROVE  /\ InFront(rows, descending, i) \in SUBSET (1..MaxRows)
           /\ RankIn(rows, descending, i) \in Nat
           /\ RankIn(rows, descending, i) < Cardinality(rows)
<1>. DEFINE front == InFront(rows, descending, i)
<1>1. front \in SUBSET (rows \ {i}) /\ front \in SUBSET (1..MaxRows)
  <2>1. rows \in SUBSET Nat
    BY RowsFinite
  <2>2. ASSUME NEW j \in front PROVE j \in rows /\ j # i
    BY <2>1 DEF InFront
  <2>. QED
    BY <2>2
<1>2. IsFiniteSet(rows) /\ Cardinality(rows) \in Nat /\ Cardinality(front) \in Nat
  BY <1>1, RowsFinite
<1>3. IsFiniteSet(rows \ {i}) /\ Cardinality(rows \ {i}) = Cardinality(rows) - 1
  BY <1>2, FS_RemoveElement
<1>4. Cardinality(front) <= Cardinality(rows) - 1
  BY <1>1, <1>3, FS_Subset
<1>. QED
  BY <1>1, <1>2, <1>4 DEF RankIn

\* Rows that come in put others further back, and none further to the front.
LEMMA RankGrows ==
    ASSUME NEW more \in SUBSET (1..MaxRows), NEW rows \in SUBSET more, NEW descending, NEW i
    PROVE  RankIn(rows, descending, i) <= RankIn(more, descending, i)
<1>1. /\ InFront(rows, descending, i) \in SUBSET InFront(more, descending, i)
      /\ InFront(more, descending, i) \in SUBSET (1..MaxRows)
  BY DEF InFront
<1>2. IsFiniteSet(InFront(more, descending, i))
  BY <1>1, RowsFinite
<1>. QED
  BY <1>1, <1>2, FS_Subset DEF RankIn

\* The row in front of one has a rank that is smaller by one.
LEMMA RowBefore ==
    ASSUME NEW rows \in SUBSET (1..MaxRows), NEW descending, NEW i \in rows,
           InFront(rows, descending, i) # {}
    PROVE  \E p \in rows :
              RankIn(rows, descending, p) = RankIn(rows, descending, i) - 1
<1>. DEFINE front == InFront(rows, descending, i)
<1>1. front \in SUBSET (1..MaxRows) /\ front \in SUBSET rows
  BY DEF InFront
<1>2. /\ IsFiniteSet(front) /\ front \in SUBSET Nat
      /\ \A j \in front : j <= MaxRows
      /\ front # {}
  BY <1>1, RowsFinite
<1>3. \E p \in front : \A j \in front : IF descending THEN p <= j ELSE j <= p
  <2>. HIDE DEF front
  <2>1. CASE descending
    BY <1>2, <2>1, Least
  <2>2. CASE ~descending
    BY <1>2, <2>2, Greatest, PagesConstantsOK
  <2>. QED
    BY <2>1, <2>2
<1>4. PICK p \in front : \A j \in front : IF descending THEN p <= j ELSE j <= p
  BY <1>3
<1>5. p \in rows /\ p \in Nat /\ i \in Nat /\ rows \in SUBSET Nat
  BY <1>1, RowsFinite
<1>6. InFront(rows, descending, p) = front \ {p}
  <2>1. ASSUME NEW j \in rows
        PROVE  j \in InFront(rows, descending, p) <=> j \in front /\ j # p
    BY <1>4, <1>5 DEF InFront
  <2>2. InFront(rows, descending, p) \in SUBSET rows
    BY DEF InFront
  <2>. HIDE DEF front
  <2>. QED
    BY <1>1, <2>1, <2>2
<1>7. Cardinality(front \ {p}) = Cardinality(front) - 1
  <2>. HIDE DEF front
  <2>. QED
    BY <1>2, FS_RemoveElement
<1>. QED
  BY <1>5, <1>6, <1>7 DEF RankIn

\* If a row is behind a page, there are rows on the page.
LEMMA NoGap ==
    ASSUME NEW rows \in SUBSET (1..MaxRows), NEW descending,
           NEW first \in Nat, NEW size \in Nat \ {0},
           NEW i \in rows, RankIn(rows, descending, i) >= first + size
    PROVE  \E p \in rows : RankIn(rows, descending, p) \in first..(first + size - 1)
<1>. DEFINE rank(j) == RankIn(rows, descending, j)
            behind == {j \in rows : rank(j) >= first + size}
            ranks == {n \in Nat : \E j \in behind : rank(j) = n}
<1>1. \A j \in rows : rank(j) \in Nat
  BY RankBound
<1>2. ranks \in SUBSET Nat /\ ranks # {}
  BY <1>1
<1>3. PICK n \in ranks : \A m \in ranks : n <= m
  <2>. HIDE DEF ranks
  <2>. QED
    BY <1>2, Least
<1>4. PICK j \in behind : rank(j) = n
  BY <1>3
<1>5. InFront(rows, descending, j) # {}
  <2>. SUFFICES ASSUME InFront(rows, descending, j) = {} PROVE FALSE
    OBVIOUS
  <2>1. rank(j) = 0
    BY FS_EmptySet DEF RankIn
  <2>. QED
    BY <1>4, <2>1
<1>6. PICK p \in rows : rank(p) = rank(j) - 1
  BY <1>4, <1>5, RowBefore
<1>7. rank(p) \notin ranks
  BY <1>1, <1>3, <1>4, <1>6
<1>8. rank(p) < first + size
  BY <1>1, <1>7
<1>9. rank(p) >= first
  BY <1>1, <1>4, <1>6
<1>. QED
  BY <1>1, <1>8, <1>9

-----------------------------------------------------------------------------
(* Pages *)

TableRow == [disabled : BOOLEAN, removed : BOOLEAN, suits : BOOLEAN]

PagedRequest ==
    [page_no : Nat \ {0}, page_size : Nat \ {0}, descending : BOOLEAN, filter : Filters]

\* The client is going through the pages, or has been through them all.
GoesThrough == paging \in {"count", "data", "ended"}

PagesTypeOK ==
    /\ table \in Seq(TableRow) /\ Len(table) <= MaxRows
    /\ paging \in {"idle", "refused", "count", "data", "ended", "failed"}
    /\ before \in SUBSET (1..MaxRows)
    /\ listed \in [1..MaxRows -> Nat]
    /\ lost \in BOOLEAN /\ came \in BOOLEAN
    /\ GoesThrough => asked \in PagedRequest
    /\ paging = "idle" => ~lost /\ ~came /\ listed = [i \in 1..MaxRows |-> 0]

(***************************************************************************)
(* PagedThrough is about the end.  On the way there, what the client began *)
(* with is still in the list, and what it was given of it are the ranks in *)
(* front of the next page; rows that come in only push others behind it.   *)
(***************************************************************************)
Given ==
    GoesThrough /\ ~lost =>
        /\ before \subseteq Found(table, asked)
        /\ \A i \in before : Rank(table, asked, i) < Offset(asked) => listed[i] > 0

GivenOnce ==
    GoesThrough /\ ~lost /\ ~came =>
        /\ Found(table, asked) = before
        /\ \A i \in 1..MaxRows :
              listed[i] = IF i \in before /\ Rank(table, asked, i) < Offset(asked) THEN 1 ELSE 0

AllBehind ==
    paging = "ended" /\ ~lost => \A i \in before : Rank(table, asked, i) < Offset(asked)

PagesInv == PagesTypeOK /\ Given /\ GivenOnce /\ AllBehind

LEMMA FoundRows ==
    ASSUME NEW rows \in Seq(TableRow), Len(rows) <= MaxRows, NEW request
    PROVE  Found(rows, request) \in SUBSET (1..MaxRows)
<1>1. Len(rows) \in Nat /\ DOMAIN rows = 1..Len(rows) /\ MaxRows \in Nat
  BY PagesConstantsOK
<1>2. 1..Len(rows) \in SUBSET (1..MaxRows)
  BY <1>1
<1>. QED
  BY <1>1, <1>2 DEF Found

LEMMA RankIsRankIn ==
    ASSUME NEW rows, NEW request, NEW i
    PROVE  Rank(rows, request, i) = RankIn(Found(rows, request), request.descending, i)
BY DEF Rank, RankIn, InFront

\* Ranks of the rows of a list are numbers below its length.
LEMMA RanksFound ==
    ASSUME NEW rows \in Seq(TableRow), Len(rows) <= MaxRows, NEW request
    PROVE  /\ Cardinality(Found(rows, request)) \in Nat
           /\ \A i \in Found(rows, request) :
                 /\ Rank(rows, request, i) \in Nat
                 /\ Rank(rows, request, i) < Cardinality(Found(rows, request))
BY FoundRows, RowsFinite, RankBound, RankIsRankIn

\* A page is as long as every other, and begins where the one before it ends.
LEMMA Offsets ==
    ASSUME NEW request \in PagedRequest
    PROVE  /\ Limit(request) \in Nat \ {0}
           /\ Offset(request) \in Nat
           /\ request.page_no = 1 => Offset(request) = 0
<1>1. Limit(request) \in Nat \ {0}
  BY PagesConstantsOK DEF Limit, PagedRequest
<1>2. request.page_no - 1 \in Nat
  BY DEF PagedRequest
<1>3. \A m, n \in Nat : m * n \in Nat /\ 0 * n = 0
  OBVIOUS
<1>. QED
  BY <1>1, <1>2, <1>3 DEF Offset

LEMMA NextPageOffset ==
    ASSUME NEW request \in PagedRequest, NEW next,
           next = [request EXCEPT !.page_no = @ + 1]
    PROVE  /\ next \in PagedRequest
           /\ Offset(next) = Offset(request) + Limit(request)
           /\ \A rows : Found(rows, next) = Found(rows, request)
           /\ \A rows, i : Rank(rows, next, i) = Rank(rows, request, i)
<1>1. /\ next \in PagedRequest
      /\ next.page_no = request.page_no + 1 /\ next.page_size = request.page_size
      /\ next.filter = request.filter /\ next.descending = request.descending
  BY DEF PagedRequest
<1>2. Limit(next) = Limit(request) /\ Limit(request) \in Nat
  BY <1>1, Offsets DEF Limit
<1>3. \A m \in Nat \ {0}, n \in Nat : (m + 1 - 1) * n = (m - 1) * n + n
  OBVIOUS
<1>4. Offset(next) = Offset(request) + Limit(request)
  BY <1>1, <1>2, <1>3 DEF Offset, PagedRequest
<1>5. \A rows : Found(rows, next) = Found(rows, request)
  BY <1>1 DEF Found
<1>. QED
  BY <1>1, <1>4, <1>5 DEF Rank

\* An empty page is behind the last row.
LEMMA EmptyPage ==
    ASSUME NEW rows \in Seq(TableRow), Len(rows) <= MaxRows,
           NEW request \in PagedRequest, Page(rows, request) = {},
           NEW i \in Found(rows, request)
    PROVE  Rank(rows, request, i) < Offset(request)
<1>. DEFINE first == Offset(request)
            size == Limit(request)
            rank(j) == Rank(rows, request, j)
<1>1. first \in Nat /\ size \in Nat \ {0} /\ rank(i) \in Nat
  BY Offsets, RanksFound
<1>2. \A j \in Found(rows, request) : rank(j) \notin first..(first + size - 1)
  BY DEF Page
<1>3. ~ (rank(i) >= first + size)
  <2>. SUFFICES ASSUME rank(i) >= first + size PROVE FALSE
    OBVIOUS
  <2>1. Found(rows, request) \in SUBSET (1..MaxRows)
    BY FoundRows
  <2>2. RankIn(Found(rows, request), request.descending, i) >= first + size
    BY RankIsRankIn
  <2>3. \E j \in Found(rows, request) :
           RankIn(Found(rows, request), request.descending, j) \in first..(first + size - 1)
    <3>. HIDE DEF first, size
    <3>. QED
      BY <1>1, <2>1, <2>2, NoGap
  <2>. QED
    BY <1>2, <2>3, RankIsRankIn
<1>4. rank(i) \notin first..(first + size - 1)
  BY <1>2
<1>. HIDE DEF first, size, rank
<1>5. rank(i) < first
  BY <1>1, <1>3, <1>4
<1>. QED
  BY <1>5 DEF first, rank

LEMMA PagesInitInv == PagesInit => PagesInv
<1>. SUFFICES ASSUME PagesInit PROVE PagesInv
  OBVIOUS
<1>1. PICK n \in 0..MaxRows : table = [i \in 1..n |-> NewRow]
  BY DEF PagesInit
<1>2. table \in Seq(TableRow) /\ Len(table) = n
  BY <1>1 DEF NewRow, TableRow
<1>3. Len(table) <= MaxRows
  BY <1>1, <1>2, PagesConstantsOK
<1>. QED
  BY <1>2, <1>3 DEF PagesInit, PagesInv, PagesTypeOK, GoesThrough, Given, GivenOnce, AllBehind

LEMMA FirstPageInv ==
    ASSUME PagesInv, FirstPage PROVE PagesInv'
<1>. USE DEF FirstPage, PagesInv, PagesTypeOK, GoesThrough
<1>1. PICK request \in ListRequest :
         /\ asked' = request
         /\ IF ListParamsOK(request) /\ RoomsRequestOK(request)
            THEN paging' = "count" /\ before' = Found(table, request)
            ELSE paging' = "refused" /\ UNCHANGED before
  OBVIOUS
<1>2. CASE paging' = "refused"
  BY <1>1, <1>2 DEF Given, GivenOnce, AllBehind
<1>3. CASE paging' = "count"
  <2>1. request \in PagedRequest /\ request.page_no = 1
    BY <1>1, <1>3, PagesConstantsOK DEF ListParamsOK, ListRequest, PagedRequest
  <2>2. Offset(request) = 0
    BY <2>1, Offsets
  <2>3. before' = Found(table, request) /\ before' \in SUBSET (1..MaxRows)
    BY <1>1, <1>3, FoundRows
  <2>4. \A i \in before' : ~ (Rank(table, request, i) < Offset(request))
    BY <2>2, <2>3, RanksFound
  <2>5. PagesTypeOK'
    BY <1>1, <1>3, <2>1, <2>3
  <2>6. Given' /\ GivenOnce' /\ AllBehind'
    BY <1>1, <1>3, <2>3, <2>4 DEF Given, GivenOnce, AllBehind
  <2>. QED
    BY <2>5, <2>6
<1>. QED
  BY <1>1, <1>2, <1>3

LEMMA CountRowsInv ==
    ASSUME PagesInv, CountRows PROVE PagesInv'
<1>. USE DEF CountRows, PagesInv
<1>1. PagesTypeOK'
  BY DEF PagesTypeOK, GoesThrough
<1>2. Given' /\ GivenOnce'
  BY DEF Given, GivenOnce, GoesThrough
<1>3. ASSUME paging' = "ended", ~lost, NEW i \in before
      PROVE  Rank(table, asked, i) < Offset(asked)
  <2>1. asked \in PagedRequest /\ i \in Found(table, asked)
    BY <1>3 DEF PagesTypeOK, GoesThrough, Given
  <2>2. /\ Rank(table, asked, i) \in Nat /\ Cardinality(Found(table, asked)) \in Nat
        /\ Rank(table, asked, i) < Cardinality(Found(table, asked))
    BY <2>1, RanksFound DEF PagesTypeOK
  <2>3. Offset(asked) \in Nat /\ Offset(asked) >= Cardinality(Found(table, asked))
    BY <1>3, <2>1, Offsets
  <2>. QED
    BY <2>2, <2>3
<1>. QED
  BY <1>1, <1>2, <1>3 DEF AllBehind

LEMMA LoadRowsInv ==
    ASSUME PagesInv, LoadRows PROVE PagesInv'
<1>. DEFINE page == Page(table, asked)
            first == Offset(asked)
            size == Limit(asked)
            rank(i) == Rank(table, asked, i)
            found == Found(table, asked)
<1>1. PagesTypeOK /\ GoesThrough /\ asked \in PagedRequest
  BY DEF PagesInv, PagesTypeOK, LoadRows, GoesThrough
<1>2. /\ listed' = [i \in 1..MaxRows |-> IF i \in page THEN listed[i] + 1 ELSE listed[i]]
      /\ paging' = IF page = {} THEN "ended" ELSE "count"
      /\ table' = table /\ before' = before /\ lost' = lost /\ came' = came
  BY DEF LoadRows
<1>3. /\ asked' \in PagedRequest /\ Offset(asked') = first + size
      /\ Found(table, asked') = found
      /\ \A i : Rank(table, asked', i) = rank(i)
  BY <1>1, NextPageOffset DEF LoadRows
<1>4. first \in Nat /\ size \in Nat \ {0}
  BY <1>1, Offsets
<1>5. /\ found \in SUBSET (1..MaxRows)
      /\ \A i \in found : rank(i) \in Nat
  BY <1>1, FoundRows, RanksFound DEF PagesTypeOK
<1>6. \A i : i \in page <=> i \in found /\ rank(i) \in first..(first + size - 1)
  BY DEF Page
<1>7. PagesTypeOK'
  <2>1. listed' \in [1..MaxRows -> Nat]
    BY <1>1, <1>2 DEF PagesTypeOK
  <2>. QED
    BY <1>1, <1>2, <1>3, <2>1 DEF PagesTypeOK, GoesThrough
<1>8. listed \in [1..MaxRows -> Nat]
  BY <1>1 DEF PagesTypeOK
<1>9. Given'
  <2>1. ASSUME ~lost, NEW i \in before, rank(i) < first + size
        PROVE  listed'[i] > 0
    <3>1. /\ i \in found /\ i \in 1..MaxRows /\ rank(i) \in Nat
          /\ rank(i) < first => listed[i] > 0
      BY <1>1, <1>5, <2>1 DEF PagesInv, Given
    <3>. HIDE DEF page, first, size, rank, found
    <3>. QED
      BY <1>2, <1>4, <1>6, <1>8, <2>1, <3>1
  <2>2. ~lost => before \subseteq found
    BY <1>1 DEF PagesInv, Given
  <2>. QED
    BY <1>2, <1>3, <2>1, <2>2 DEF Given
<1>10. GivenOnce'
  <2>1. ASSUME ~lost, ~came
        PROVE  /\ found = before
               /\ \A i \in 1..MaxRows :
                     listed[i] = IF i \in before /\ rank(i) < first THEN 1 ELSE 0
    BY <1>1, <2>1 DEF PagesInv, GivenOnce
  <2>2. ASSUME ~lost, ~came, NEW i \in 1..MaxRows
        PROVE  listed'[i] = IF i \in before /\ rank(i) < first + size THEN 1 ELSE 0
    <3>. HIDE DEF page, first, size, rank, found
    <3>. QED
      BY <1>2, <1>4, <1>5, <1>6, <2>1, <2>2
  <2>. QED
    BY <1>2, <1>3, <2>1, <2>2 DEF GivenOnce
<1>11. AllBehind'
  <2>1. ASSUME paging' = "ended", ~lost, NEW i \in before
        PROVE  rank(i) < first + size
    <3>1. page = {} /\ i \in found
      BY <1>1, <1>2, <2>1 DEF PagesInv, Given
    <3>2. rank(i) < first
      BY <1>1, <3>1, EmptyPage DEF PagesTypeOK
    <3>3. rank(i) \in Nat
      BY <1>5, <3>1
    <3>. HIDE DEF rank, first, size
    <3>. QED
      BY <1>4, <3>2, <3>3
  <2>. QED
    BY <1>2, <1>3, <2>1 DEF AllBehind
<1>. QED
  BY <1>7, <1>9, <1>10, <1>11 DEF PagesInv

LEMMA ChangeInv ==
    ASSUME PagesInv, NEW rows \in Seq(TableRow), Len(rows) <= MaxRows, Change(rows)
    PROVE  PagesInv'
<1>1. PagesTypeOK /\ paging # "ended"
  BY DEF PagesInv, Change
<1>2. /\ table' = rows /\ paging' = paging /\ asked' = asked
      /\ before' = before /\ listed' = listed
  BY DEF Change
<1>3. lost' \in BOOLEAN /\ came' \in BOOLEAN
  <2>1. lost \in BOOLEAN /\ came \in BOOLEAN
    BY <1>1 DEF PagesTypeOK
  <2>. QED
    BY <2>1, Zenon DEF Change
<1>4. PagesTypeOK'
  <2>1. paging = "idle" => ~lost' /\ ~came'
    BY <1>1 DEF PagesTypeOK, Change
  <2>. QED
    BY <1>1, <1>2, <1>3, <2>1 DEF PagesTypeOK, GoesThrough
<1>5. CASE ~GoesThrough
  BY <1>2, <1>4, <1>5 DEF PagesInv, Given, GivenOnce, AllBehind, GoesThrough
<1>6. CASE GoesThrough
  <2>. DEFINE then == Found(table, asked)
              now == Found(rows, asked)
  <2>1. /\ ~lost' => ~lost /\ then \in SUBSET now
        /\ ~came' => ~came /\ now \in SUBSET then
    BY <1>1, <1>6 DEF Change, GoesThrough
  <2>2. now \in SUBSET (1..MaxRows) /\ Offset(asked) \in Nat
    BY <1>1, <1>6, FoundRows, Offsets DEF PagesTypeOK
  <2>3. \A i \in then : Rank(table, asked, i) \in Nat
    BY <1>1, RanksFound DEF PagesTypeOK
  <2>4. \A i \in now : Rank(rows, asked, i) \in Nat
    BY RanksFound
  <2>5. ASSUME then \in SUBSET now, NEW i
        PROVE  Rank(table, asked, i) <= Rank(rows, asked, i)
    BY <2>2, <2>5, RankGrows, RankIsRankIn
  <2>6. Given'
    <3>. SUFFICES ASSUME ~lost'
                  PROVE  /\ before \subseteq now
                         /\ \A i \in before :
                               Rank(rows, asked, i) < Offset(asked) => listed[i] > 0
      BY <1>2 DEF Given
    <3>1. /\ before \subseteq then
          /\ \A i \in before : Rank(table, asked, i) < Offset(asked) => listed[i] > 0
      BY <1>6, <2>1 DEF PagesInv, Given
    <3>2. ASSUME NEW i \in before, Rank(rows, asked, i) < Offset(asked)
          PROVE  listed[i] > 0
      <4>1. i \in then /\ i \in now
        BY <2>1, <3>1
      <4>2. Rank(table, asked, i) <= Rank(rows, asked, i)
        BY <2>1, <2>5
      <4>3. Rank(table, asked, i) < Offset(asked)
        BY <2>2, <2>3, <2>4, <3>2, <4>1, <4>2
      <4>. QED
        BY <3>1, <4>3
    <3>. QED
      BY <2>1, <3>1, <3>2
  <2>7. GivenOnce'
    <3>. SUFFICES ASSUME ~lost', ~came'
                  PROVE  /\ now = before
                         /\ \A i \in 1..MaxRows :
                               listed[i] = IF i \in before /\ Rank(rows, asked, i) < Offset(asked)
                                           THEN 1 ELSE 0
      BY <1>2 DEF GivenOnce
    <3>1. now = then
      BY <2>1
    <3>2. \A i : Rank(rows, asked, i) = Rank(table, asked, i)
      BY <3>1, RankIsRankIn
    <3>. QED
      BY <1>6, <2>1, <3>1, <3>2 DEF PagesInv, GivenOnce
  <2>8. AllBehind'
    BY <1>1, <1>2 DEF AllBehind
  <2>. QED
    BY <1>4, <2>6, <2>7, <2>8 DEF PagesInv
<1>. QED
  BY <1>5, <1>6

\* Rows are created at the end, and changed where they are.
LEMMA ChangesOfRows ==
    ASSUME PagesInv, CreateRow \/ ChangeRow
    PROVE  \E rows \in Seq(TableRow) : Len(rows) <= MaxRows /\ Change(rows)
<1>1. table \in Seq(TableRow) /\ Len(table) <= MaxRows /\ Len(table) \in Nat /\ MaxRows \in Nat
  BY PagesConstantsOK DEF PagesInv, PagesTypeOK
<1>2. CASE CreateRow
  <2>. DEFINE rows == Append(table, NewRow)
  <2>1. NewRow \in TableRow
    BY DEF NewRow, TableRow
  <2>2. rows \in Seq(TableRow) /\ Len(rows) = Len(table) + 1 /\ Len(table) < MaxRows
    BY <1>1, <1>2, <2>1 DEF CreateRow
  <2>3. Len(rows) <= MaxRows /\ Change(rows)
    BY <1>1, <1>2, <2>2 DEF CreateRow
  <2>. HIDE DEF rows
  <2>. QED
    BY <2>2, <2>3
<1>3. CASE ChangeRow
  <2>1. PICK i \in DOMAIN table :
           \/ Change([table EXCEPT ![i].disabled = ~@])
           \/ Change([table EXCEPT ![i].removed = ~@])
           \/ Change([table EXCEPT ![i].suits = ~@])
    BY <1>3, Zenon DEF ChangeRow
  <2>2. table[i] \in TableRow /\ i \in 1..Len(table)
    BY <1>1
  <2>3. ASSUME NEW row \in TableRow
        PROVE  [table EXCEPT ![i] = row] \in Seq(TableRow) /\ Len([table EXCEPT ![i] = row]) = Len(table)
    BY <1>1, <2>2
  <2>4. /\ [table[i] EXCEPT !.disabled = ~@] \in TableRow
        /\ [table[i] EXCEPT !.removed = ~@] \in TableRow
        /\ [table[i] EXCEPT !.suits = ~@] \in TableRow
    BY <2>2 DEF TableRow
  <2>5. PICK row \in TableRow : Change([table EXCEPT ![i] = row])
    BY <2>1, <2>4
  <2>. QED
    BY <1>1, <2>3, <2>5
<1>. QED
  BY <1>2, <1>3

LEMMA PagesInvStep ==
    ASSUME PagesInv, [PagesNext]_pageVars PROVE PagesInv'
<1>1. CASE ListFails
  BY <1>1 DEF ListFails, PagesInv, PagesTypeOK, GoesThrough, Given, GivenOnce, AllBehind
<1>2. CASE CreateRow \/ ChangeRow
  BY <1>2, ChangesOfRows, ChangeInv
<1>3. CASE UNCHANGED pageVars
  BY <1>3 DEF pageVars, PagesInv, PagesTypeOK, GoesThrough, Given, GivenOnce, AllBehind
<1>. QED
  BY <1>1, <1>2, <1>3, FirstPageInv, CountRowsInv, LoadRowsInv DEF PagesNext

LEMMA PagesInvSays == PagesInv => PagedThrough
<1>. SUFFICES ASSUME PagesInv, paging = "ended", ~lost
              PROVE  /\ \A i \in before : listed[i] > 0
                     /\ ~came => \A i \in 1..MaxRows : listed[i] = IF i \in before THEN 1 ELSE 0
  BY DEF PagedThrough
<1>1. Given /\ GivenOnce /\ GoesThrough /\ \A i \in before : Rank(table, asked, i) < Offset(asked)
  BY DEF PagesInv, AllBehind, GoesThrough
<1>. QED
  BY <1>1 DEF Given, GivenOnce

-----------------------------------------------------------------------------
(* The server changes and lists tables as Pages says *)

LEMMA ServerStepPages == [ServerNext]_serverVars => [PagesNext]_pageVars
<1>. SUFFICES ASSUME [ServerNext]_serverVars PROVE PagesNext \/ UNCHANGED pageVars
  OBVIOUS
<1>1. CASE ServePages
  BY <1>1 DEF ServePages
<1>2. CASE Collect
  BY <1>2 DEF Collect, appVars
<1>3. CASE Fatal
  BY <1>3 DEF Fatal, Exit
<1>4. CASE TokensTick
  BY <1>4 DEF TokensTick, Panic, serverVars, appVars
<1>5. CASE HandleServiceProtocol
  BY <1>5 DEF HandleServiceProtocol, Panic, serverVars, appVars
<1>6. CASE initCache \/ initSessionManagement \/ initGatewayTokensMonitoring
             \/ initRoomsStatistics \/ initServiceProtocolHandler \/ initMQTT
             \/ initInstrumentation \/ ListenAndServe
  BY <1>6 DEF initCache, initSessionManagement, initGatewayTokensMonitoring,
              initRoomsStatistics, initServiceProtocolHandler, initMQTT,
              initInstrumentation, ListenAndServe
<1>7. CASE Subscribe \/ ConnectionLost \/ Reconnect
  BY <1>7 DEF Subscribe, ConnectionLost, Reconnect
<1>8. CASE ServeHTTP
  BY <1>8 DEF ServeHTTP
<1>9. CASE UNCHANGED serverVars
  BY <1>9 DEF serverVars, appVars
<1>. QED
  BY <1>1, <1>2, <1>3, <1>4, <1>5, <1>6, <1>7, <1>8, <1>9 DEF ServerNext

\* The server implements the pages: nothing else it does moves a row or the
\* client that asks for them (AdminListRooms and its like only read).
THEOREM ServerImplementsPages == ServerSpec => PagesSpec
<1>1. ServerInit => PagesInit
  BY Zenon DEF ServerInit
<1>. QED
  BY <1>1, ServerStepPages, PTL DEF ServerSpec, PagesSpec

\* A client that has gone through the pages was given all it began with, with
\* any size of pages, any number of rows and any number of changes.
THEOREM PagedThroughAlways == ServerSpec => []PagedThrough
BY PagesInitInv, PagesInvStep, PagesInvSays, ServerImplementsPages, PTL DEF PagesSpec

-----------------------------------------------------------------------------
(* Starting *)

\* The parts that are there after n steps.
Booted(n) == {BootOrder[i] : i \in 1..n}

(***************************************************************************)
(* That nothing is missed rests on the order: whatever is there, all that  *)
(* comes before it is there too; the handler was made when there were a    *)
(* cache and statistics; and messages come after the listener was started. *)
(***************************************************************************)
InOrder == \E n \in 0..8 : ready = Booted(n) /\ (process = "starting" => n < 8)

StartInv ==
    /\ InOrder
    /\ "handler" \in ready => {"cache", "statistics"} \subseteq handed
    /\ handed \in SUBSET Parts
    /\ conn # "off" => "mqtt" \in ready
    /\ subscribed # "no" => conn = "up"
    /\ NothingMissing

LEMMA BootOrderIs ==
    /\ DOMAIN BootOrder = 1..8
    /\ BootOrder[1] = "cache" /\ BootOrder[2] = "sessions" /\ BootOrder[3] = "tokens"
    /\ BootOrder[4] = "statistics" /\ BootOrder[5] = "handler" /\ BootOrder[6] = "mqtt"
    /\ BootOrder[7] = "instrumentation" /\ BootOrder[8] = "listen"
    /\ \A i, j \in 1..8 : BootOrder[i] = BootOrder[j] => i = j
<1>1. \A i \in 1..8 : i = 1 \/ i = 2 \/ i = 3 \/ i = 4 \/ i = 5 \/ i = 6 \/ i = 7 \/ i = 8
  OBVIOUS
<1>2. /\ DOMAIN BootOrder = 1..8
      /\ BootOrder[1] = "cache" /\ BootOrder[2] = "sessions" /\ BootOrder[3] = "tokens"
      /\ BootOrder[4] = "statistics" /\ BootOrder[5] = "handler" /\ BootOrder[6] = "mqtt"
      /\ BootOrder[7] = "instrumentation" /\ BootOrder[8] = "listen"
  BY DEF BootOrder
<1>. QED
  BY <1>1, <1>2

LEMMA BootedSize ==
    ASSUME NEW n \in 0..8
    PROVE  Cardinality(Booted(n)) = n /\ Booted(n) \in SUBSET Parts
<1>. DEFINE f == [i \in 1..n |-> BootOrder[i]]
<1>1. \A i \in 1..n : i \in 1..8
  OBVIOUS
<1>2. f \in Bijection(1..n, Booted(n))
  <2>1. f \in Injection(1..n, Booted(n))
    BY <1>1, BootOrderIs DEF Injection, IsInjective, Booted
  <2>2. f \in Surjection(1..n, Booted(n))
    BY DEF Surjection, Booted
  <2>. QED
    BY <2>1, <2>2 DEF Bijection
<1>3. ExistsBijection(1..n, Booted(n))
  BY <1>2 DEF ExistsBijection
<1>4. Cardinality(Booted(n)) = n
  BY <1>3, FS_CountingElements
<1>. QED
  BY <1>1, <1>4, BootOrderIs DEF Booted, Parts

\* The next part is the one after those that are there.
LEMMA StartsNext ==
    ASSUME InOrder, NEW k \in 1..8, Starts(BootOrder[k])
    PROVE  ready = Booted(k - 1) /\ ready' = Booted(k)
<1>1. PICK n \in 0..8 : ready = Booted(n) /\ n < 8
  BY DEF InOrder, Starts
<1>2. BootOrder[n + 1] = BootOrder[k]
  BY <1>1, BootedSize DEF Starts, NextPart
<1>3. k = n + 1
  BY <1>1, <1>2, BootOrderIs
<1>4. 1..k = 1..n \cup {k} /\ k - 1 = n
  BY <1>1, <1>3
<1>. QED
  BY <1>1, <1>4 DEF Starts, Booted

\* What is before a part was started before it.
LEMMA BootedBefore ==
    ASSUME InOrder, NEW j \in 1..8, NEW k \in j..8, BootOrder[k] \in ready
    PROVE  BootOrder[j] \in ready
<1>1. PICK n \in 0..8 : ready = Booted(n)
  BY DEF InOrder
<1>2. PICK i \in 1..n : BootOrder[i] = BootOrder[k]
  BY <1>1 DEF Booted
<1>3. i = k
  BY <1>2, BootOrderIs
<1>. QED
  BY <1>1, <1>2, <1>3 DEF Booted

LEMMA StartInit == ServerInit => StartInv
<1>. SUFFICES ASSUME ServerInit PROVE StartInv
  OBVIOUS
<1>1. 0 \in 0..8 /\ 0 < 8 /\ Booted(0) = {}
  BY DEF Booted
<1>2. ready = Booted(0)
  BY <1>1 DEF ServerInit
<1>3. InOrder
  BY <1>1, <1>2 DEF InOrder
<1>. QED
  BY <1>3 DEF ServerInit, StartInv, NothingMissing

LEMMA StartPartInv ==
    ASSUME StartInv, NEW k \in 1..8, Starts(BootOrder[k]),
           k < 8 => process' = process,
           k = 8 => process' = "serving",
           IF k = 5 THEN handed' = ready ELSE handed' = handed,
           IF k = 6 THEN (conn' = "up" /\ subscribed' = "asked") \/ UNCHANGED <<conn, subscribed>>
                    ELSE UNCHANGED <<conn, subscribed>>
    PROVE  StartInv'
<1>. USE BootOrderIs DEF StartInv
<1>1. /\ ready = Booted(k - 1) /\ ready' = Booted(k) /\ ready' = ready \cup {BootOrder[k]}
      /\ process = "starting"
  BY StartsNext DEF Starts
<1>2. InOrder'
  <2>1. k \in 0..8 /\ (process' = "starting" => k < 8)
    BY <1>1
  <2>. QED
    BY <1>1, <2>1 DEF InOrder
<1>3. handed' \in SUBSET Parts
  BY <1>1, BootedSize
<1>4. "handler" \in ready' => {"cache", "statistics"} \subseteq handed'
  <2>1. CASE k = 5
    BY <1>1, <2>1 DEF Booted
  <2>2. CASE k # 5
    BY <1>1, <2>2
  <2>. QED
    BY <2>1, <2>2
<1>5. /\ conn' # "off" => "mqtt" \in ready'
      /\ subscribed' # "no" => conn' = "up"
  BY <1>1
<1>6. NothingMissing'
  BY <1>1 DEF NothingMissing
<1>. QED
  BY <1>2, <1>3, <1>4, <1>5, <1>6

LEMMA StartInvStep ==
    ASSUME StartInv, [ServerNext]_serverVars PROVE StartInv'
<1>1. CASE initCache
  BY <1>1, StartPartInv, BootOrderIs DEF initCache
<1>2. CASE initSessionManagement
  BY <1>2, StartPartInv, BootOrderIs DEF initSessionManagement
<1>3. CASE initGatewayTokensMonitoring
  BY <1>3, StartPartInv, BootOrderIs DEF initGatewayTokensMonitoring
<1>4. CASE initRoomsStatistics
  BY <1>4, StartPartInv, BootOrderIs DEF initRoomsStatistics
<1>5. CASE initServiceProtocolHandler
  BY <1>5, StartPartInv, BootOrderIs DEF initServiceProtocolHandler
<1>6. CASE initMQTT
  BY <1>6, StartPartInv, BootOrderIs DEF initMQTT
<1>7. CASE initInstrumentation
  BY <1>7, StartPartInv, BootOrderIs DEF initInstrumentation
<1>8. CASE ListenAndServe
  BY <1>8, StartPartInv, BootOrderIs DEF ListenAndServe
<1>9. CASE Fatal
  BY <1>9 DEF Fatal, Exit, StartInv, InOrder, NothingMissing
<1>10. CASE TokensTick
  <2>1. "cache" \in ready
    BY <1>10, BootedBefore, BootOrderIs DEF TokensTick, StartInv
  <2>. QED
    BY <1>10, <2>1 DEF TokensTick, serverVars, appVars, StartInv, InOrder, NothingMissing
<1>11. CASE HandleServiceProtocol
  <2>1. "mqtt" \in ready
    BY <1>11 DEF HandleServiceProtocol, StartInv
  <2>2. "handler" \in ready
    BY <2>1, BootedBefore, BootOrderIs DEF StartInv
  <2>. QED
    BY <1>11, <2>2 DEF HandleServiceProtocol, serverVars, appVars, StartInv, InOrder, NothingMissing
<1>12. CASE Subscribe \/ ConnectionLost \/ Reconnect
  BY <1>12 DEF Subscribe, ConnectionLost, Reconnect, StartInv, InOrder, NothingMissing
<1>13. CASE Collect
  BY <1>13 DEF Collect, appVars, StartInv, InOrder, NothingMissing
<1>14. CASE ServeHTTP \/ ServePages
  BY <1>14 DEF ServeHTTP, ServePages, StartInv, InOrder, NothingMissing
<1>15. CASE UNCHANGED serverVars
  BY <1>15 DEF serverVars, appVars, StartInv, InOrder, NothingMissing
<1>. QED
  BY <1>1, <1>2, <1>3, <1>4, <1>5, <1>6, <1>7, <1>8, <1>9, <1>10, <1>11, <1>12, <1>13, <1>14,
     <1>15 DEF ServerNext

\* Neither a message nor a tick finds a part of the service missing, while it
\* starts or later (InitializeWithDeps).
THEOREM NothingMissingAlways == ServerSpec => []NothingMissing
<1>1. StartInv => NothingMissing
  BY DEF StartInv
<1>. QED
  BY <1>1, StartInit, StartInvStep, PTL DEF ServerSpec

-----------------------------------------------------------------------------
(* Access *)

LEMMA AreaCases ==
    ASSUME NEW area \in Areas
    PROVE  \/ area = "open" \/ area = "gateway" \/ area = "any" \/ area = "shidur"
           \/ area = "root" \/ area = "statistics" \/ area = "handles"
BY DEF Areas

\* What handlers say never looks like a refusal.
LEMMA HandlersAnswer ==
    ASSUME NEW area \in Areas, NEW body \in Bodies, NEW answer \in Answers(area)
    PROVE  Recover(Handle(body, answer)) \in {"200", "400", "404", "413", "500"}
<1>1. answer \in {"200", "404", "500", "panic"}
  <2>1. CASE area = "handles"
    <3>1. PICK cached \in BOOLEAN, numbers \in BOOLEAN, reply \in Lookup :
             answer = AdminGatewaysHandleInfo(cached, numbers, reply)
      BY <2>1 DEF Answers
    <3>2. reply = "found" \/ reply = "missing" \/ reply = "error"
      BY DEF Lookup
    <3>. QED
      BY <3>1, <3>2 DEF AdminGatewaysHandleInfo
  <2>2. CASE area = "root"
    <3>1. CASE answer = "panic"
      BY <3>1
    <3>2. CASE answer # "panic"
      <4>1. PICK number \in BOOLEAN, row \in Lookup : answer = AdminGetRoom(number, row)
        BY <2>2, <3>2 DEF Answers
      <4>2. row = "found" \/ row = "missing" \/ row = "error"
        BY DEF Lookup
      <4>. QED
        BY <4>1, <4>2 DEF AdminGetRoom
    <3>. QED
      BY <3>1, <3>2
  <2>3. CASE area # "handles" /\ area # "root"
    BY <2>3 DEF Answers
  <2>. QED
    BY <2>1, <2>2, <2>3
<1>2. body = "good" \/ body = "malformed" \/ body = "large" \/ body = "broken"
  BY DEF Bodies
<1>3. DecodeJSONBody(body) \in {"next", "400", "413", "500"}
      /\ (body = "good" <=> DecodeJSONBody(body) = "next")
  BY <1>2 DEF DecodeJSONBody
<1>. QED
  BY <1>1, <1>3 DEF Recover, Handle

\* The three middleware together, as one condition.
Passes(skip, area, c) ==
    /\ Authenticate(skip, area, c) = "next"
    /\ MinimalPermission(skip, area, Context(skip, area, c)) = "next"
    /\ CheckRole(skip, area, Context(skip, area, c)) = "next"

LEMMA ChainAnswers ==
    ASSUME NEW skip \in Flags, NEW area \in Areas, NEW c \in Credentials, NEW answer
    PROVE  IF Passes(skip, area, c) THEN Respond(skip, area, c, answer) = answer
                                    ELSE Respond(skip, area, c, answer) \in {"401", "403"}
<1>. DEFINE context == Context(skip, area, c)
            chain == <<Authenticate(skip, area, c),
                       MinimalPermission(skip, area, context),
                       CheckRole(skip, area, context)>>
<1>1. chain[1] \in {"next", "401"}
  BY AreaCases DEF Authenticate, AuthenticateGateway, AuthenticateUser
<1>2. chain[2] \in {"next", "403"} /\ chain[3] \in {"next", "403"}
  BY DEF MinimalPermission, CheckRole
<1>3. Passes(skip, area, c) <=> chain[1] = "next" /\ chain[2] = "next" /\ chain[3] = "next"
  BY DEF Passes
<1>4. Respond(skip, area, c, answer) =
        CASE chain[1] # "next" -> chain[1]
          [] chain[2] # "next" -> chain[2]
          [] chain[3] # "next" -> chain[3]
          [] OTHER -> answer
  BY DEF Respond
<1>. HIDE DEF chain
<1>5. CASE chain[1] # "next"
  BY <1>1, <1>2, <1>3, <1>4, <1>5
<1>6. CASE chain[1] = "next" /\ chain[2] # "next"
  BY <1>1, <1>2, <1>3, <1>4, <1>6
<1>7. CASE chain[1] = "next" /\ chain[2] = "next" /\ chain[3] # "next"
  BY <1>1, <1>2, <1>3, <1>4, <1>7
<1>8. CASE chain[1] = "next" /\ chain[2] = "next" /\ chain[3] = "next"
  BY <1>1, <1>2, <1>3, <1>4, <1>8
<1>. QED
  BY <1>5, <1>6, <1>7, <1>8

\* The chain lets in whoever is entitled, and nobody else.
LEMMA PassesIfEntitled ==
    ASSUME NEW skip \in Flags, NEW request \in HttpRequest
    PROVE  Passes(skip, request.area, request.credentials) <=> Entitled(skip, request)
<1>. DEFINE area == request.area
            c == request.credentials
            context == Context(skip, area, c)
            service == ~skip.auth /\ c.kind = "service"
            holds(roles) == service \/ (~skip.auth /\ c.roles \cap roles # {})
            authentic == skip.auth \/ (c.kind \in {"service", "token"} /\ c.valid)
<1>1. area \in Areas /\ c \in Credentials
  BY DEF HttpRequest
<1>2. CASE area = "open"
  BY <1>2 DEF Passes, Entitled, Authenticate, MinimalPermission, CheckRole
<1>3. CASE area = "gateway"
  BY <1>3 DEF Passes, Entitled, Authenticate, AuthenticateGateway, MinimalPermission, CheckRole
<1>4. CASE area \notin {"open", "gateway"}
  <2>1. Authenticate(skip, area, c) = "next" <=> authentic
    BY <1>4 DEF Authenticate, AuthenticateUser, Bearer, Verify
  <2>2. \A roles : RequestHasRole(context, roles) <=> holds(roles)
    BY <1>4 DEF Context, RequestHasRole, HasAnyRole
  <2>3. MinimalPermission(skip, area, context) = "next" <=> skip.permissions \/ holds(Roles)
    BY <1>4, <2>2 DEF MinimalPermission
  <2>4. CheckRole(skip, area, context) = "next"
          <=> skip.permissions \/ area = "any" \/ holds(Needs(area))
    BY <1>4, <2>2 DEF CheckRole
  <2>5. \A roles \in SUBSET Roles : holds(roles) => holds(Roles)
    OBVIOUS
  <2>6. Entitled(skip, request) <=>
          /\ authentic
          /\ \/ skip.permissions
             \/ /\ area = "any" => holds(Roles)
                /\ area = "shidur" => holds({"shidur"})
                /\ area = "root" => holds({"root"})
                /\ area = "statistics" => holds({"shidur", "root"})
                /\ area = "handles" => holds({"admin", "root"})
    BY <1>4 DEF Entitled
  <2>7. /\ area = "shidur" => Needs(area) = {"shidur"}
        /\ area = "root" => Needs(area) = {"root"}
        /\ area = "statistics" => Needs(area) = {"shidur", "root"}
        /\ area = "handles" => Needs(area) = {"admin", "root"}
    BY DEF Needs
  <2>8. area # "any" => Needs(area) \in SUBSET Roles
    BY <1>1, <1>4, <2>7, AreaCases DEF Roles
  <2>9. Passes(skip, area, c) <=>
          /\ authentic
          /\ skip.permissions \/ holds(Roles)
          /\ skip.permissions \/ area = "any" \/ holds(Needs(area))
    BY <2>1, <2>3, <2>4 DEF Passes
  <2>10. holds(Needs(area)) /\ area # "any" => holds(Roles)
    BY <2>5, <2>8
  <2>. HIDE DEF authentic, holds, area, c
  <2>11. \/ area = "any" \/ area = "shidur" \/ area = "root" \/ area = "statistics"
         \/ area = "handles"
    BY <1>1, <1>4, AreaCases
  <2>12. Passes(skip, area, c) <=> Entitled(skip, request)
    BY <2>6, <2>7, <2>9, <2>10, <2>11
  <2>. QED
    BY <2>12 DEF area, c
<1>. QED
  BY <1>2, <1>3, <1>4

-----------------------------------------------------------------------------
(* Types and access *)

AccessInv == config \in Configs /\ OnlyEntitled

LEMMA ConfigsFlags == ASSUME NEW c \in Configs PROVE c.skip \in Flags
<1>1. [auth |-> FALSE, events |-> FALSE, permissions |-> FALSE] \in Flags
  BY DEF Flags
<1>2. c.skip \in Flags \/ c.skip = [auth |-> FALSE, events |-> FALSE, permissions |-> FALSE]
  BY Zenon DEF Configs
<1>. QED
  BY <1>1, <1>2

LEMMA ServeHTTPAnswers ==
    ASSUME config \in Configs, ServeHTTP
    PROVE  /\ last' \in HttpRequest
           /\ status' \in {"200", "400", "401", "403", "404", "413", "500"}
           /\ status' \notin {"401", "403"} <=> Entitled(config.skip, last')
<1>1. PICK request \in HttpRequest, body \in Bodies :
         \E answer \in Answers(request.area) :
            /\ last' = request
            /\ status' = Respond(config.skip, request.area, request.credentials,
                                 Recover(Handle(body, answer)))
  BY DEF ServeHTTP
<1>. PICK answer \in Answers(request.area) :
        /\ last' = request
        /\ status' = Respond(config.skip, request.area, request.credentials,
                             Recover(Handle(body, answer)))
  BY <1>1
<1>2. /\ config.skip \in Flags
      /\ request.area \in Areas /\ request.credentials \in Credentials
  BY ConfigsFlags DEF HttpRequest
<1>3. Recover(Handle(body, answer)) \in {"200", "400", "404", "413", "500"}
  BY <1>2, HandlersAnswer
<1>4. IF Passes(config.skip, request.area, request.credentials)
      THEN status' = Recover(Handle(body, answer)) ELSE status' \in {"401", "403"}
  BY <1>1, <1>2, ChainAnswers
<1>5. Passes(config.skip, request.area, request.credentials) <=> Entitled(config.skip, request)
  BY <1>2, PassesIfEntitled
<1>. QED
  BY <1>1, <1>3, <1>4, <1>5

LEMMA KeepsRequests ==
    ASSUME [ServerNext]_serverVars, ~ServeHTTP
    PROVE  config' = config /\ last' = last /\ status' = status
<1>1. CASE initCache \/ initSessionManagement \/ initGatewayTokensMonitoring
             \/ initRoomsStatistics \/ initServiceProtocolHandler \/ initMQTT
             \/ initInstrumentation \/ ListenAndServe
  BY <1>1 DEF initCache, initSessionManagement, initGatewayTokensMonitoring,
              initRoomsStatistics, initServiceProtocolHandler, initMQTT,
              initInstrumentation, ListenAndServe
<1>2. CASE Fatal \/ TokensTick \/ HandleServiceProtocol
  BY <1>2 DEF Fatal, Exit, TokensTick, HandleServiceProtocol, Panic, serverVars, appVars
<1>3. CASE Subscribe \/ ConnectionLost \/ Reconnect
  BY <1>3 DEF Subscribe, ConnectionLost, Reconnect
<1>4. CASE Collect \/ ServePages
  BY <1>4 DEF Collect, ServePages, appVars
<1>5. CASE UNCHANGED serverVars
  BY <1>5 DEF serverVars, appVars
<1>. QED
  BY <1>1, <1>2, <1>3, <1>4, <1>5 DEF ServerNext

\* A request is handled exactly if its sender is entitled to it, under every
\* configuration (authentication, permissions and the checks of the handlers).
THEOREM OnlyEntitledAlways == ServerSpec => []OnlyEntitled
<1>1. ServerInit => AccessInv
  BY DEF ServerInit, AccessInv, OnlyEntitled
<1>2. ASSUME AccessInv, [ServerNext]_serverVars PROVE AccessInv'
  <2>1. CASE ServeHTTP
    <3>1. config' = config
      BY <2>1 DEF ServeHTTP
    <3>. QED
      BY <1>2, <2>1, <3>1, ServeHTTPAnswers DEF AccessInv, OnlyEntitled
  <2>2. CASE ~ServeHTTP
    BY <1>2, <2>2, KeepsRequests DEF AccessInv, OnlyEntitled
  <2>. QED
    BY <2>1, <2>2
<1>3. AccessInv => OnlyEntitled
  BY DEF AccessInv
<1>. QED
  BY <1>1, <1>2, <1>3, PTL DEF ServerSpec

\* What the process keeps of itself, by the side of the collector.
ProcessTypeOK ==
    /\ config \in Configs
    /\ process \in {"starting", "serving", "panicked", "exited"}
    /\ conn \in {"off", "up", "lost"}
    /\ subscribed \in {"no", "asked", "yes", "refused"}
    /\ losses \in 0..MaxLosses
    /\ last \in HttpRequest \cup {None}
    /\ status \in {"", "200", "400", "401", "403", "404", "413", "500"}

LEMMA ProcessTypeOKStep ==
    ASSUME ProcessTypeOK, [ServerNext]_serverVars PROVE ProcessTypeOK'
<1>. USE DEF ProcessTypeOK
<1>1. CASE initCache \/ initSessionManagement \/ initGatewayTokensMonitoring
             \/ initRoomsStatistics \/ initServiceProtocolHandler
             \/ initInstrumentation \/ ListenAndServe
  BY <1>1 DEF initCache, initSessionManagement, initGatewayTokensMonitoring,
              initRoomsStatistics, initServiceProtocolHandler, initInstrumentation,
              ListenAndServe
<1>2. CASE initMQTT
  BY <1>2 DEF initMQTT
<1>3. CASE Fatal \/ TokensTick \/ HandleServiceProtocol
  BY <1>3 DEF Fatal, Exit, TokensTick, HandleServiceProtocol, Panic, serverVars, appVars
<1>4. CASE Subscribe \/ Reconnect
  BY <1>4 DEF Subscribe, Reconnect
<1>5. CASE ConnectionLost
  <2>1. /\ MaxLosses \in Nat /\ losses \in 0..MaxLosses
        /\ losses < MaxLosses /\ losses' = losses + 1
    BY <1>5, ServerConstantsOK DEF ConnectionLost
  <2>2. losses' \in 0..MaxLosses
    <3>. HIDE DEF ProcessTypeOK
    <3>. QED
      BY <2>1
  <2>. QED
    BY <1>5, <2>2 DEF ConnectionLost
<1>6. CASE ServeHTTP
  BY <1>6, ServeHTTPAnswers DEF ServeHTTP
<1>7. CASE Collect \/ ServePages
  BY <1>7 DEF Collect, ServePages, appVars
<1>8. CASE UNCHANGED serverVars
  BY <1>8 DEF serverVars, appVars
<1>. QED
  BY <1>1, <1>2, <1>3, <1>4, <1>5, <1>6, <1>7, <1>8 DEF ServerNext

\* The parts that are there, the subscription and the last request are of their
\* kinds; only a connection that is up is subscribed (App, MQTTListener).
THEOREM ServerTypeOKAlways == ServerSpec => []ServerTypeOK
<1>1. ServerInit => ProcessTypeOK
  <2>1. 0 \in 0..MaxLosses
    BY ServerConstantsOK
  <2>. QED
    BY <2>1 DEF ServerInit, ProcessTypeOK
<1>2. InOrder => ready \in SUBSET Parts
  BY BootedSize DEF InOrder
<1>3. CollectorInv /\ StartInv /\ ProcessTypeOK => ServerTypeOK
  BY <1>2 DEF CollectorInv, StartInv, ProcessTypeOK, ServerTypeOK
<1>4. ServerSpec => []CollectorInv
  BY CollectorInitInv, CollectorInvStep, ServerImplementsCollector, PTL DEF CollectorSpec
<1>. QED
  BY <1>1, <1>3, <1>4, ProcessTypeOKStep, StartInit, StartInvStep, PTL DEF ServerSpec

==============================================================================
