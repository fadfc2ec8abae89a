------------------------ MODULE RoomStatisticsProofs ------------------------
(***************************************************************************)
(* Proofs about RoomStatistics: what becomes of messages, for every number *)
(* of handlers and rooms.                                                  *)
(***************************************************************************)
EXTENDS RoomStatistics, TLAPS

LEMMA TypedInit == Init => TypeOK
  BY ConstantsOK DEF Init, TypeOK, NoReset

LEMMA TypedStep == TypeOK /\ [Next]_vars => TypeOK'
  <1> SUFFICES ASSUME TypeOK, [Next]_vars PROVE TypeOK'
    OBVIOUS
  <1> USE ConstantsOK DEF TypeOK, NoReset
  <1>1. ASSUME NEW h \in Handlers, NEW r \in Rooms, HandleMessage(h, r)
        PROVE  TypeOK'
    <2>1. alone' \in [Handlers -> BOOLEAN]
      BY <1>1, Zenon DEF HandleMessage
    <2>2. sent' \in 0..MaxMessages
      BY <1>1 DEF HandleMessage
    <2> QED
      BY <1>1, <2>1, <2>2 DEF HandleMessage
  <1>2. ASSUME NEW h \in Handlers, Find(h)
        PROVE  TypeOK'
    <2>1. room[h] \in Rooms
      BY <1>2 DEF Find
    <2> QED
      BY <1>2, <2>1 DEF Find
  <1>3. ASSUME NEW h \in Handlers, Insert(h)
        PROVE  TypeOK'
    BY <1>3 DEF Insert, InsertTurn
  <1>4. ASSUME NEW h \in Handlers, InsertConflict(h) \/ DbError(h)
        PROVE  TypeOK'
    BY <1>4 DEF InsertConflict, DbError, Fail
  <1>5. ASSUME NEW h \in Handlers, CommitInsert(h)
        PROVE  TypeOK'
    BY <1>5 DEF CommitInsert
  <1>6. ASSUME NEW h \in Handlers, Update(h)
        PROVE  TypeOK'
    <2>1. room[h] \in Rooms
      BY <1>6 DEF Update
    <2>2. alone' \in [Handlers -> BOOLEAN]
      BY <1>6, Zenon DEF Update
    <2>3. /\ solo' \in [Rooms -> Nat]
          /\ ever' \in [Rooms -> Nat]
      BY <1>6, <2>1 DEF Update
    <2>4. stats' \in [Rooms -> Nat \cup {None}]
      BY <1>6, <2>1 DEF Update
    <2>5. /\ pc' \in [Handlers -> {"idle", "find", "insert", "commit", "update"}]
          /\ room' \in [Handlers -> Rooms \cup {None}]
          /\ \A k \in Handlers : pc'[k] = "idle" <=> room'[k] = None
      BY <1>6 DEF Update
    <2> QED
      BY <1>6, <2>2, <2>3, <2>4, <2>5 DEF Update
  <1>7. CASE ResetDelete \/ ResetCommit \/ ResetFails
    <2>1. CASE ResetDelete
      BY <2>1 DEF ResetDelete
    <2>2. CASE ResetCommit
      <3>1. stats' \in [Rooms -> Nat \cup {None}]
        BY <2>2 DEF ResetCommit
      <3>2. solo' \in [Rooms -> Nat]
        BY <2>2 DEF ResetCommit
      <3> QED
        BY <2>2, <3>1, <3>2 DEF ResetCommit
    <2>3. CASE ResetFails
      BY <2>3 DEF ResetFails
    <2> QED
      BY <1>7, <2>1, <2>2, <2>3
  <1>8. CASE UNCHANGED vars
    BY <1>8 DEF vars
  <1> QED
    BY <1>1, <1>2, <1>3, <1>4, <1>5, <1>6, <1>7, <1>8 DEF Next, Step

\* Every reachable state is well typed.
THEOREM StatisticsTyped == Spec => []TypeOK
  BY TypedInit, TypedStep, PTL DEF Spec

(***************************************************************************)
(* What a handler is about to write is never below what must not be lost,  *)
(* nor above what was answered.                                            *)
(***************************************************************************)
Working(h) == pc[h] # "idle"

\* Two transactions cannot both have inserted a row, nor one into a row.
OneInsert ==
    \A h \in Handlers : pc[h] = "commit" =>
      /\ stats[room[h]] = None
      /\ \A k \in Handlers : pc[k] = "commit" /\ room[k] = room[h] => k = h

\* A message that is alone has its room to itself, and the row it found or
\* made is still there.
AloneIsAlone ==
    \A h \in Handlers : alone[h] =>
      /\ Working(h)
      /\ \A k \in Handlers : room[k] = room[h] => k = h
      /\ pc[h] = "update" => stats[room[h]] # None
      /\ resetting = NoReset

SeenEnough ==
    \A h \in Handlers : pc[h] = "update" => solo[room[h]] <= seen[h]

SoloInv == OneInsert /\ AloneIsAlone /\ SeenEnough /\ SoloCounted

SeenAnswered ==
    \A h \in Handlers : pc[h] = "update" => seen[h] <= ever[room[h]]

LEMMA SoloInit == Init => SoloInv /\ SeenAnswered
  BY ConstantsOK DEF Init, SoloInv, OneInsert, AloneIsAlone, SeenEnough, SoloCounted,
                     OnAirOf, SeenAnswered

\* Failing, or looking for the row without finding it, moves no count.
LEMMA SoloStep == TypeOK /\ SoloInv /\ [Next]_vars => SoloInv'
  <1> SUFFICES ASSUME TypeOK, SoloInv, [Next]_vars PROVE SoloInv'
    OBVIOUS
  <1> USE ConstantsOK DEF TypeOK, SoloInv, OneInsert, AloneIsAlone, SeenEnough,
                          SoloCounted, OnAirOf, Working
  <1>1. ASSUME NEW h \in Handlers, NEW r \in Rooms, HandleMessage(h, r)
        PROVE  SoloInv'
    BY <1>1 DEF HandleMessage, InFlight
  <1>2. ASSUME NEW h \in Handlers, Find(h)
        PROVE  SoloInv'
    <2>1. room[h] \in Rooms
      BY <1>2 DEF Find
    <2> QED
      BY <1>2, <2>1 DEF Find
  <1>3. ASSUME NEW h \in Handlers, Insert(h)
        PROVE  SoloInv'
    BY <1>3 DEF Insert, InsertTurn, InFlight
  <1>4. ASSUME NEW h \in Handlers, InsertConflict(h) \/ DbError(h)
        PROVE  SoloInv'
    BY <1>4 DEF InsertConflict, DbError, Fail
  <1>5. ASSUME NEW h \in Handlers, CommitInsert(h)
        PROVE  SoloInv'
    <2>1. room[h] \in Rooms /\ stats[room[h]] = None
      BY <1>5 DEF CommitInsert
    <2>2. solo[room[h]] = 0
      BY <2>1
    <2> QED
      BY <1>5, <2>1, <2>2 DEF CommitInsert
  <1>6. ASSUME NEW h \in Handlers, Update(h)
        PROVE  SoloInv'
    <2>1. room[h] \in Rooms /\ pc[h] = "update"
      BY <1>6 DEF Update
    <2>2. CASE alone[h]
      BY <1>6, <2>1, <2>2 DEF Update
    <2>3. CASE ~alone[h]
      BY <1>6, <2>1, <2>3 DEF Update
    <2> QED
      BY <2>2, <2>3
  <1>7. CASE ResetDelete \/ ResetCommit \/ ResetFails
    BY <1>7 DEF ResetDelete, ResetCommit, ResetFails
  <1>8. CASE UNCHANGED vars
    BY <1>8 DEF vars
  <1> QED
    BY <1>1, <1>2, <1>3, <1>4, <1>5, <1>6, <1>7, <1>8 DEF Next, Step

LEMMA AnsweredStep ==
    ASSUME TypeOK, OneInsert, SeenAnswered, CountedOnce, [Next]_vars
    PROVE  (SeenAnswered /\ CountedOnce)'
  <1> USE ConstantsOK DEF TypeOK, OneInsert, SeenAnswered, CountedOnce, OnAirOf
  <1>1. ASSUME NEW h \in Handlers, NEW r \in Rooms, HandleMessage(h, r)
        PROVE  (SeenAnswered /\ CountedOnce)'
    BY <1>1 DEF HandleMessage
  <1>2. ASSUME NEW h \in Handlers, Find(h)
        PROVE  (SeenAnswered /\ CountedOnce)'
    <2>1. room[h] \in Rooms
      BY <1>2 DEF Find
    <2> QED
      BY <1>2, <2>1 DEF Find
  <1>3. ASSUME NEW h \in Handlers, Insert(h)
        PROVE  (SeenAnswered /\ CountedOnce)'
    BY <1>3 DEF Insert, InsertTurn
  <1>4. ASSUME NEW h \in Handlers, InsertConflict(h) \/ DbError(h)
        PROVE  (SeenAnswered /\ CountedOnce)'
    BY <1>4 DEF InsertConflict, DbError, Fail
  <1>5. ASSUME NEW h \in Handlers, CommitInsert(h)
        PROVE  (SeenAnswered /\ CountedOnce)'
    BY <1>5 DEF CommitInsert
  <1>6. ASSUME NEW h \in Handlers, Update(h)
        PROVE  (SeenAnswered /\ CountedOnce)'
    <2>1. room[h] \in Rooms /\ seen[h] <= ever[room[h]]
      BY <1>6 DEF Update
    <2> QED
      BY <1>6, <2>1 DEF Update
  <1>7. CASE ResetDelete \/ ResetCommit \/ ResetFails
    BY <1>7 DEF ResetDelete, ResetCommit, ResetFails, NoReset
  <1>8. CASE UNCHANGED vars
    BY <1>8 DEF vars
  <1> QED
    BY <1>1, <1>2, <1>3, <1>4, <1>5, <1>6, <1>7, <1>8 DEF Next, Step

\* A message that was alone is never lost, and none of a later one's making
\* takes it back, resets and failures included.
THEOREM AloneMessagesCount == Spec => []SoloCounted
  <1>1. SoloInv => SoloCounted
    BY DEF SoloInv
  <1> QED
    BY <1>1, TypedInit, TypedStep, SoloInit, SoloStep, PTL DEF Spec

\* No message counts twice, and none that failed counts.
THEOREM MessagesCountOnce == Spec => []CountedOnce
  <1>1. Init => CountedOnce
    BY DEF Init, CountedOnce, OnAirOf
  <1>2. /\ TypeOK /\ SoloInv /\ SeenAnswered /\ CountedOnce /\ [Next]_vars
        => (TypeOK /\ SoloInv /\ SeenAnswered /\ CountedOnce)'
    BY TypedStep, SoloStep, AnsweredStep DEF SoloInv
  <1> QED
    BY <1>1, <1>2, TypedInit, SoloInit, PTL DEF Spec

=============================================================================
