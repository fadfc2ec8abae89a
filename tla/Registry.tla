------------------------------ MODULE Registry ------------------------------
(***************************************************************************)
(* What the session registry promises to a reader of the tables users and  *)
(* sessions: transactions are atomic, each brings up at most one session,  *)
(* takes down none but its own user's, and only the cleaner takes down     *)
(* sessions of several users at once.                                      *)
(***************************************************************************)
CONSTANTS Users, Handles

Keys == Users \X Handles

VARIABLES
    sessions,    \* the state of each session: "absent", "open" or "removed"
    registered   \* the users that have a row

Up(u) == {k \in Keys : k[1] = u /\ sessions[k] = "open"}

TakeDown(C) == [k \in Keys |-> IF k \in C THEN "removed" ELSE sessions[k]]

Init ==
    /\ sessions = [k \in Keys |-> "absent"]
    /\ registered \in SUBSET Users

\* A session comes up; some of the user's other sessions may go down with it.
Open(k) ==
    /\ \E C \in SUBSET (Up(k[1]) \ {k}) :
           sessions' = [TakeDown(C) EXCEPT ![k] = "open"]
    /\ registered' = registered \cup {k[1]}

\* Sessions of one user go down; a user nobody knew is registered first.
Close(u) ==
    /\ \E C \in SUBSET Up(u) : sessions' = TakeDown(C)
    /\ registered' = registered \cup {u}

\* The cleaner takes sessions down and knows nothing of users.
Clean ==
    /\ \E C \in SUBSET {k \in Keys : sessions[k] = "open"} :
           sessions' = TakeDown(C)
    /\ UNCHANGED registered

Next ==
    \/ \E k \in Keys : Open(k)
    \/ \E u \in Users : Close(u)
    \/ Clean

Spec == Init /\ [][Next]_<<sessions, registered>>

\* A session up or down belongs to a registered user (the foreign key), and
\* so no user is ever lost.
OwnersRegistered ==
    \A k \in Keys : sessions[k] # "absent" => k[1] \in registered

=============================================================================
