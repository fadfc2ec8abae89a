------------------------------- MODULE Collector -------------------------------
(***************************************************************************)
(* The collector of periodic statistics (instrumentation/periodic.go).     *)
(*                                                                         *)
(* Every second one goroutine counts the participants of rooms, and asks   *)
(* all gateways for their sessions, each by a goroutine that sends its     *)
(* answer on the round's channel.  It then goes through the gateways once: *)
(* each turn takes an answer or the timeout, which fires once.  The        *)
(* "break" of the timeout leaves the select and not the loop, so that the  *)
(* other answers are waited for.  The channel has no buffer: a goroutine   *)
(* whose answer nobody takes stays.                                        *)
(***************************************************************************)
EXTENDS Naturals, FiniteSets

CONSTANTS
    Gateways, \* gateways in the table
    Silent,   \* gateways that may never answer
    MaxRounds \* bound: rounds

ASSUME CollectorConstantsOK ==
    /\ IsFiniteSet(Gateways) /\ Silent \subseteq Gateways
    /\ MaxRounds \in Nat

Rounds == 1..MaxRounds

VARIABLES
    running,  \* the ticker runs
    tick,     \* its channel, which holds one tick, has one
    phase,    \* what the goroutine does
    round,    \* which round it is in, or was in last
    turns,    \* the turns of the loop that are left
    timeout,  \* time.After: is to fire, and be taken
    out,      \* by round, the gateways whose answer was not taken
    sent,     \* those of them that wait on the channel with it
    gauge,    \* GatewaySessionsGauge: the round a value is from; 0 for none
    timedOut  \* history: rounds in which the timeout was taken

collectorVars == <<running, tick, phase, round, turns, timeout, out, sent, gauge, timedOut>>

CollectorTypeOK ==
    /\ running \in BOOLEAN /\ tick \in BOOLEAN /\ timeout \in BOOLEAN
    /\ phase \in {"idle", "participants", "gateways", "collect"}
    /\ round \in 0..MaxRounds
    /\ turns \in Nat
    /\ out \in [Rounds -> SUBSET Gateways]
    /\ sent \in [Rounds -> SUBSET Gateways]
    /\ gauge \in [Gateways -> 0..MaxRounds]
    /\ timedOut \in SUBSET Rounds
    /\ phase # "idle" => round \in Rounds
    /\ phase # "collect" => turns = 0
    /\ \A k \in Rounds : sent[k] \subseteq out[k]

CollectorInit ==
    /\ running = FALSE /\ tick = FALSE /\ timeout = FALSE
    /\ phase = "idle" /\ round = 0 /\ turns = 0
    /\ out = [k \in Rounds |-> {}] /\ sent = [k \in Rounds |-> {}]
    /\ gauge = [g \in Gateways |-> 0]
    /\ timedOut = {}

-----------------------------------------------------------------------------

\* PeriodicCollector.Start
Start ==
    /\ running' = TRUE
    /\ UNCHANGED <<tick, phase, round, turns, timeout, out, sent, gauge, timedOut>>

\* A tick that finds one in the channel is dropped.
Tick ==
    /\ running /\ tick' = TRUE
    /\ UNCHANGED <<running, phase, round, turns, timeout, out, sent, gauge, timedOut>>

\* PeriodicCollector.run takes a tick.  Bound: MaxRounds.
TakeTick ==
    /\ phase = "idle" /\ tick /\ round < MaxRounds
    /\ tick' = FALSE /\ round' = round + 1 /\ phase' = "participants"
    /\ UNCHANGED <<running, turns, timeout, out, sent, gauge, timedOut>>

\* Whether its query fails or not; the counts themselves are left out.
CollectRoomParticipants ==
    /\ phase = "participants" /\ phase' = "gateways"
    /\ UNCHANGED <<running, tick, round, turns, timeout, out, sent, gauge, timedOut>>

\* The query of the gateways that are neither disabled nor removed fails...
GatewaysQueryFails ==
    /\ phase = "gateways" /\ phase' = "idle"
    /\ UNCHANGED <<running, tick, round, turns, timeout, out, sent, gauge, timedOut>>

\* ... or finds some.
AskGateways ==
    /\ phase = "gateways" /\ phase' = "collect"
    /\ \E found \in SUBSET Gateways :
          out' = [out EXCEPT ![round] = found] /\ turns' = Cardinality(found)
    /\ gauge' = [g \in Gateways |-> 0]
    /\ timeout' = TRUE
    /\ UNCHANGED <<running, tick, round, sent, timedOut>>

\* The goroutine of a gateway has an answer or an error, and sends it.
Answer(g) ==
    /\ \E k \in Rounds : /\ g \in out[k] \ sent[k]
                         /\ sent' = [sent EXCEPT ![k] = @ \cup {g}]
    /\ UNCHANGED <<running, tick, phase, round, turns, timeout, out, gauge, timedOut>>

\* mutant: the channel belongs to the collector and not to the round
TakeAnswerOfAny ==
    /\ phase = "collect" /\ turns > 0
    /\ \E k \in Rounds : \E g \in sent[k] :
          /\ out' = [out EXCEPT ![k] = @ \ {g}]
          /\ sent' = [sent EXCEPT ![k] = @ \ {g}]
          /\ gauge' = [gauge EXCEPT ![g] = k]
    /\ turns' = turns - 1
    /\ UNCHANGED <<running, tick, phase, round, timeout, timedOut>>

TakeAnswer ==
    /\ phase = "collect" /\ turns > 0
    /\ \E g \in sent[round] :
          /\ out' = [out EXCEPT ![round] = @ \ {g}]
          /\ sent' = [sent EXCEPT ![round] = @ \ {g}]
          /\ gauge' = [gauge EXCEPT ![g] = round]
    /\ turns' = turns - 1
    /\ UNCHANGED <<running, tick, phase, round, timeout, timedOut>>

\* mutant: the break leaves the loop
TakeTimeoutLeavesLoop ==
    /\ phase = "collect" /\ turns > 0 /\ timeout
    /\ timeout' = FALSE /\ turns' = 0
    /\ timedOut' = timedOut \cup {round}
    /\ UNCHANGED <<running, tick, phase, round, out, sent, gauge>>

\* mutant: the loop is over answers, and the timeout takes no turn
TakeTimeoutKeepsTurn ==
    /\ phase = "collect" /\ turns > 0 /\ timeout
    /\ timeout' = FALSE
    /\ timedOut' = timedOut \cup {round}
    /\ UNCHANGED <<running, tick, phase, round, turns, out, sent, gauge>>

\* 900 milliseconds have passed.
TakeTimeout ==
    /\ phase = "collect" /\ turns > 0 /\ timeout
    /\ timeout' = FALSE /\ turns' = turns - 1
    /\ timedOut' = timedOut \cup {round}
    /\ UNCHANGED <<running, tick, phase, round, out, sent, gauge>>

\* mutant: the loop ends at the timeout, with turns to go
EndRoundAtTimeout ==
    /\ phase = "collect" /\ (turns = 0 \/ ~timeout)
    /\ phase' = "idle" /\ timeout' = FALSE
    /\ UNCHANGED <<running, tick, round, turns, out, sent, gauge, timedOut>>

EndRound ==
    /\ phase = "collect" /\ turns = 0
    /\ phase' = "idle" /\ timeout' = FALSE
    /\ UNCHANGED <<running, tick, round, turns, out, sent, gauge, timedOut>>

CollectorNext ==
    \/ Start \/ Tick \/ TakeTick \/ CollectRoomParticipants
    \/ GatewaysQueryFails \/ AskGateways
    \/ \E g \in Gateways : Answer(g)
    \/ TakeAnswer \/ TakeTimeout \/ EndRound

CollectorSpec == CollectorInit /\ [][CollectorNext]_collectorVars

-----------------------------------------------------------------------------
(* Properties *)

\* A round that has ended leaves one goroutine behind if its timeout was taken,
\* and none if it was not (the loop of collectGatewaySessions).
AtMostOneLeft ==
    \A k \in Rounds :
        k < round \/ (k = round /\ phase = "idle") =>
            Cardinality(out[k]) = IF k \in timedOut THEN 1 ELSE 0

\* A gauge is only ever set to an answer of the round that is under way, however
\* late the answers of earlier rounds come (the channel c).
FreshGauges ==
    [][\A g \in Gateways : gauge'[g] \in {gauge[g], 0, round}]_collectorVars

==============================================================================
