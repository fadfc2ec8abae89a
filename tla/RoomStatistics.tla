--------------------------- MODULE RoomStatistics ---------------------------
(***************************************************************************)
(* How often each room was on air: RoomStatisticsManager                   *)
(* (domain/room_statistics.go), fed by the "audio-out" messages of the     *)
(* service protocol (api/service_protocol.go), which arrive by HTTP, any   *)
(* number at a time, and by MQTT, one at a time; an administrator resets   *)
(* the counts (AdminDeleteRoomsStatistics in api/api_admin.go).            *)
(*                                                                         *)
(* OnAir reads the count in one transaction and writes it, plus one, in a  *)
(* second one.  Reset deletes the rows in a transaction of its own.        *)
(***************************************************************************)
EXTENDS Naturals

CONSTANTS
    Handlers,     \* messages that may be handled at the same time
    Rooms,        \* rooms in the room cache
    None,         \* no row, no room
    MaxMessages,  \* bound: messages in all
    Faults        \* "db": a transaction may fail; "reset": counts are reset

ASSUME ConstantsOK ==
    /\ MaxMessages \in Nat
    /\ None \notin Rooms \cup Nat
    /\ Faults \subseteq {"db", "reset"}

VARIABLES
    stats,     \* the committed table room_statistics: on_air by room
    pc,        \* where each handler is
    room,      \* the room its message names
    seen,      \* roomStats.OnAir as getOrCreate returned it
    resetting, \* the rooms whose rows a Reset has deleted and not committed
    sent,      \* messages so far
    alone,     \* history: no other message of the room, and no reset, overlapped
    ever,      \* history: messages answered 200 in all
    solo       \* history: those of them that were alone

vars == <<stats, pc, room, seen, resetting, sent, alone, ever, solo>>

NoReset == {None}

TypeOK ==
    /\ stats \in [Rooms -> Nat \cup {None}]
    /\ pc \in [Handlers -> {"idle", "find", "insert", "commit", "update"}]
    /\ room \in [Handlers -> Rooms \cup {None}]
    /\ \A h \in Handlers : pc[h] = "idle" <=> room[h] = None
    /\ seen \in [Handlers -> Nat]
    /\ resetting \in (SUBSET Rooms) \cup {NoReset}
    /\ sent \in 0..MaxMessages
    /\ alone \in [Handlers -> BOOLEAN]
    /\ ever \in [Rooms -> Nat]
    /\ solo \in [Rooms -> Nat]

InFlight(r) == {h \in Handlers : room[h] = r}

Init ==
    /\ stats = [r \in Rooms |-> None]
    /\ pc = [h \in Handlers |-> "idle"]
    /\ room = [h \in Handlers |-> None]
    /\ seen = [h \in Handlers |-> 0]
    /\ resetting = NoReset
    /\ sent = 0
    /\ alone = [h \in Handlers |-> FALSE]
    /\ ever = [r \in Rooms |-> 0]
    /\ solo = [r \in Rooms |-> 0]

(***************************************************************************)
(* OnAir.                                                                  *)
(***************************************************************************)
\* HandleMessage: an "audio-out" message with its status on and a known room;
\* any other changes nothing.
HandleMessage(h, r) ==
    /\ pc[h] = "idle" /\ sent < MaxMessages
    /\ pc' = [pc EXCEPT ![h] = "find"]
    /\ room' = [room EXCEPT ![h] = r]
    /\ sent' = sent + 1
    /\ alone' = [k \in Handlers |->
                   IF k = h THEN InFlight(r) = {} /\ resetting = NoReset
                   ELSE alone[k] /\ room[k] # r]
    /\ UNCHANGED <<stats, seen, resetting, ever, solo>>

\* Mistake: the count is kept from the time before.
FindKeepsSeen(h) ==
    /\ pc[h] = "find"
    /\ pc' = [pc EXCEPT ![h] = IF stats[room[h]] # None THEN "update" ELSE "insert"]
    /\ UNCHANGED <<stats, room, seen, resetting, sent, alone, ever, solo>>

\* getOrCreate finds the row, or goes on to insert one.
Find(h) ==
    /\ pc[h] = "find"
    /\ IF stats[room[h]] # None
       THEN /\ seen' = [seen EXCEPT ![h] = stats[room[h]]]
            /\ pc' = [pc EXCEPT ![h] = "update"]
       ELSE /\ pc' = [pc EXCEPT ![h] = "insert"]
            /\ UNCHANGED seen
    /\ UNCHANGED <<stats, room, resetting, sent, alone, ever, solo>>

\* An INSERT waits for an uncommitted row of the room, new or deleted.
InsertTurn(h) ==
    /\ pc[h] = "insert"
    /\ room[h] \notin resetting
    /\ \A k \in InFlight(room[h]) : pc[k] # "commit"

Insert(h) ==
    /\ InsertTurn(h) /\ stats[room[h]] = None
    /\ pc' = [pc EXCEPT ![h] = "commit"]
    /\ UNCHANGED <<stats, room, seen, resetting, sent, alone, ever, solo>>

\* The message is with an error.
Fail(h) ==
    /\ pc' = [pc EXCEPT ![h] = "idle"]
    /\ room' = [room EXCEPT ![h] = None]
    /\ alone' = [alone EXCEPT ![h] = FALSE]
    /\ UNCHANGED <<stats, seen, resetting, sent, ever, solo>>

\* Somebody else has inserted the row: the primary key is violated.
InsertConflict(h) == InsertTurn(h) /\ stats[room[h]] # None /\ Fail(h)

\* Mistake: a row starts at one, and its first message is counted as well.
CommitInsertOne(h) ==
    /\ pc[h] = "commit"
    /\ stats' = [stats EXCEPT ![room[h]] = 1]
    /\ seen' = [seen EXCEPT ![h] = 1]
    /\ pc' = [pc EXCEPT ![h] = "update"]
    /\ UNCHANGED <<room, resetting, sent, alone, ever, solo>>

CommitInsert(h) ==
    /\ pc[h] = "commit"
    /\ stats' = [stats EXCEPT ![room[h]] = 0]
    /\ seen' = [seen EXCEPT ![h] = 0]
    /\ pc' = [pc EXCEPT ![h] = "update"]
    /\ UNCHANGED <<room, resetting, sent, alone, ever, solo>>

\* The second transaction: one UPDATE, to the count seen plus one.  It waits
\* for a reset that has deleted the row, and then finds none: no error.
Update(h) ==
    LET r == room[h] IN
    /\ pc[h] = "update" /\ r \notin resetting
    /\ stats' = IF stats[r] = None THEN stats
                ELSE [stats EXCEPT ![r] = seen[h] + 1]
    /\ ever' = [ever EXCEPT ![r] = @ + 1]
    /\ solo' = IF alone[h] THEN [solo EXCEPT ![r] = @ + 1] ELSE solo
    /\ pc' = [pc EXCEPT ![h] = "idle"]
    /\ room' = [room EXCEPT ![h] = None]
    /\ alone' = [alone EXCEPT ![h] = FALSE]
    /\ UNCHANGED <<seen, resetting, sent>>

\* A statement or a commit fails: InTx rolls back.
DbError(h) == "db" \in Faults /\ pc[h] # "idle" /\ Fail(h)

(***************************************************************************)
(* Reset.                                                                  *)
(***************************************************************************)
\* DELETE: the rows committed so far.
ResetDelete ==
    /\ "reset" \in Faults /\ resetting = NoReset
    /\ resetting' = {r \in Rooms : stats[r] # None}
    /\ alone' = [h \in Handlers |-> FALSE]
    /\ UNCHANGED <<stats, pc, room, seen, sent, ever, solo>>

ResetCommit ==
    /\ resetting # NoReset
    /\ stats' = [r \in Rooms |-> IF r \in resetting THEN None ELSE stats[r]]
    /\ solo' = [r \in Rooms |-> IF r \in resetting THEN 0 ELSE solo[r]]
    /\ resetting' = NoReset
    /\ UNCHANGED <<pc, room, seen, sent, alone, ever>>

ResetFails ==
    /\ "db" \in Faults /\ resetting # NoReset
    /\ resetting' = NoReset
    /\ UNCHANGED <<stats, pc, room, seen, sent, alone, ever, solo>>

Step(h) ==
    \/ Find(h) \/ Insert(h) \/ InsertConflict(h) \/ CommitInsert(h)
    \/ Update(h) \/ DbError(h)

Next ==
    \/ \E h \in Handlers : Step(h) \/ \E r \in Rooms : HandleMessage(h, r)
    \/ ResetDelete \/ ResetCommit \/ ResetFails

Spec == Init /\ [][Next]_vars

(***************************************************************************)
(* Properties.                                                             *)
(***************************************************************************)
OnAirOf(r) == IF stats[r] = None THEN 0 ELSE stats[r]

\* A message no other message of the room and no reset overlapped is never
\* lost, whatever came before it and whatever comes after: the absolute UPDATE
\* of a later message has seen it.
SoloCounted == \A r \in Rooms : solo[r] <= OnAirOf(r)

\* No message counts twice, and none that failed counts: a count is never
\* above the number of answered messages, whatever old count a message that
\* a reset overtook writes back.
CountedOnce == \A r \in Rooms : OnAirOf(r) <= ever[r]

=============================================================================
