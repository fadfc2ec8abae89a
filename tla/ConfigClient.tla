---------------------------- MODULE ConfigClient ----------------------------
(***************************************************************************)
(* A client of the dynamic configuration: it fetches the values and their  *)
(* last_modified (V2GetConfig in api/api_v2.go), and then hears            *)
(* config_last_modified with every answer to its updates (V1UpdateSession  *)
(* in api/api_v1.go), by which it can tell whether to fetch again.         *)
(***************************************************************************)
EXTENDS DynamicConfig

VARIABLES
    step,   \* where the client is
    vals,   \* the values it was given
    told    \* and the time it was told

clientVars == <<step, vals, told>>

ClientInit == Init /\ step = "idle" /\ vals = cache /\ told = 0

\* DynamicConfigCache.Values, under the lock.
FetchValues ==
    /\ lock = None
    /\ step' = "values" /\ vals' = cache
    /\ UNCHANGED <<vars, told>>

\* DynamicConfigCache.LastModified, under the lock again.
FetchModified ==
    /\ lock = None /\ step = "values"
    /\ step' = "told" /\ told' = lastModified
    /\ UNCHANGED <<vars, vals>>

ClientNext == (Next /\ UNCHANGED clientVars) \/ FetchValues \/ FetchModified

ClientSpec == ClientInit /\ [][ClientNext]_<<vars, clientVars>>

\* A client that hears the time it was told with its values has the values
\* that are served: there is nothing to fetch.
PollTells ==
    step = "told" /\ told = lastModified =>
      \A k \in Keys : AtWork(k) \/ Stale(k) \/ vals[k] = cache[k]

==============================================================================
