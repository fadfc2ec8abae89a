-------------------------------- MODULE Server --------------------------------
(***************************************************************************)
(* The service as a process: how it is put together and started (App in    *)
(* api/app.go), its connection to the MQTT broker (api/mqtt.go), the       *)
(* collector (module Collector) and the requests it lets in (module        *)
(* Access).                                                                *)
(*                                                                         *)
(* Parts start one after another, and what has started works beside the    *)
(* starting of the rest: messages arrive as soon as the listener has       *)
(* subscribed, ticks as soon as there is a ticker.  A part that is not     *)
(* there is a nil pointer, and a panic outside of a request ends the       *)
(* process.  Shutdown is not modelled: Run defers it, and the only way out *)
(* of ListenAndServe is an error, on which log.Fatal exits without running *)
(* what was deferred.                                                      *)
(***************************************************************************)
EXTENDS Collector, Access, Pages

CONSTANTS
    MaxLosses, \* bound: how often the connection to the broker is lost
    None       \* no request

ASSUME ServerConstantsOK == MaxLosses \in Nat

\* mutant: the protocol handler is made before what it hands the messages to
BootOrderHandlerFirst ==
    <<"cache", "sessions", "handler", "tokens", "statistics", "mqtt", "instrumentation", "listen">>

\* InitializeWithDeps and Run, after the routes.
BootOrder ==
    <<"cache", "sessions", "tokens", "statistics", "handler", "mqtt", "instrumentation", "listen">>

Parts == {BootOrder[i] : i \in DOMAIN BootOrder}

\* The configuration: what is to be skipped, and what is to be started.
\* Bound: requests are looked at in a service that starts nothing beside them,
\* with which they have nothing in common.
Configs ==
    [skip : Flags, tokens : {FALSE}, mqtt : {FALSE}, stats : {FALSE}]
        \cup [skip : {[auth |-> FALSE, events |-> FALSE, permissions |-> FALSE]},
              tokens : BOOLEAN, mqtt : BOOLEAN, stats : {TRUE}]

HttpRequest == [area : Areas, credentials : Credentials]

VARIABLES
    config,     \* common.Config
    process,    \* the process is starting, serving, has panicked, or has exited
    ready,      \* the parts that are there
    handed,     \* the parts that were there when the protocol handler was made
    conn,       \* the connection to the broker
    subscribed, \* the listener's subscription: none, asked for, there, or refused
    losses,     \* bound: how often the connection was lost
    last,       \* the last request
    status      \* what it was answered

appVars == <<config, process, ready, handed, conn, subscribed, losses, last, status, pageVars>>
serverVars == <<appVars, collectorVars>>

ServerTypeOK ==
    /\ CollectorTypeOK
    /\ config \in Configs
    /\ process \in {"starting", "serving", "panicked", "exited"}
    /\ ready \in SUBSET Parts /\ handed \in SUBSET Parts
    /\ conn \in {"off", "up", "lost"}
    /\ subscribed \in {"no", "asked", "yes", "refused"}
    /\ subscribed # "no" => conn = "up"
    /\ losses \in 0..MaxLosses
    /\ last \in HttpRequest \cup {None}
    /\ status \in {"", "200", "400", "401", "403", "404", "413", "500"}

\* Bound: see ServePages.
PagesApart == config.stats => table = <<>>

ServerInit ==
    /\ CollectorInit /\ PagesInit
    /\ config \in Configs
    /\ PagesApart
    /\ process = "starting"
    /\ ready = {} /\ handed = {}
    /\ conn = "off" /\ subscribed = "no" /\ losses = 0
    /\ last = None /\ status = ""

Runs == process \in {"starting", "serving"}

-----------------------------------------------------------------------------
(* Starting *)

NextPart == BootOrder[Cardinality(ready) + 1]

\* The part is there; one that is configured away is passed over.
Starts(part) ==
    /\ process = "starting" /\ NextPart = part
    /\ ready' = ready \cup {part}

Exit ==
    /\ process' = "exited"
    /\ UNCHANGED <<config, ready, handed, conn, subscribed, losses, last, status, collectorVars, pageVars>>

\* A nil pointer is dereferenced outside of a request.
Panic ==
    /\ process' = "panicked"
    /\ UNCHANGED <<config, ready, handed, conn, subscribed, losses, last, status, collectorVars, pageVars>>

initCache ==
    /\ Starts("cache")
    /\ UNCHANGED <<config, process, handed, conn, subscribed, losses, last, status, collectorVars, pageVars>>

\* The session manager and its cleaner.
initSessionManagement ==
    /\ Starts("sessions")
    /\ UNCHANGED <<config, process, handed, conn, subscribed, losses, last, status, collectorVars, pageVars>>

\* The application becomes an observer of the manager, before the first tick.
initGatewayTokensMonitoring ==
    /\ Starts("tokens")
    /\ UNCHANGED <<config, process, handed, conn, subscribed, losses, last, status, collectorVars, pageVars>>

initRoomsStatistics ==
    /\ Starts("statistics")
    /\ UNCHANGED <<config, process, handed, conn, subscribed, losses, last, status, collectorVars, pageVars>>

\* The handler is given what there is by then.
initServiceProtocolHandler ==
    /\ Starts("handler") /\ handed' = ready
    /\ UNCHANGED <<config, process, conn, subscribed, losses, last, status, collectorVars, pageVars>>

\* The password is looked up in the cache; the listener connects.
initMQTT ==
    /\ Starts("mqtt")
    /\ IF config.mqtt
       THEN conn' = "up" /\ subscribed' = "asked"
       ELSE UNCHANGED <<conn, subscribed>>
    /\ UNCHANGED <<config, process, handed, losses, last, status, collectorVars, pageVars>>

initInstrumentation ==
    /\ Starts("instrumentation")
    /\ IF config.stats THEN Start ELSE UNCHANGED collectorVars
    /\ UNCHANGED <<config, process, handed, conn, subscribed, losses, last, status, pageVars>>

ListenAndServe ==
    /\ Starts("listen") /\ process' = "serving"
    /\ UNCHANGED <<config, handed, conn, subscribed, losses, last, status, collectorVars, pageVars>>

\* log.Fatal: no issuer of tokens answers, the cache cannot be filled, the
\* broker cannot be reached, or the address cannot be listened to, at once or later.
Fatal ==
    /\ \/ process = "starting" /\ NextPart \in {"cache", "listen"}
       \/ process = "starting" /\ NextPart = "mqtt" /\ config.mqtt
       \/ process = "serving"
    /\ Exit

-----------------------------------------------------------------------------
(* The manager of gateway tokens: module GatewayTokens says what it does *)

\* SyncAll, and the notification that reloads the cache of tokens.
TokensTick ==
    /\ Runs /\ config.tokens /\ "tokens" \in ready
    /\ IF "cache" \in ready THEN UNCHANGED serverVars ELSE Panic

-----------------------------------------------------------------------------
(* The listener *)

\* OnConnect: MQTTListener.Subscribe, which only logs an error.
Subscribe ==
    /\ Runs /\ subscribed = "asked"
    /\ subscribed' \in {"yes", "refused"}
    /\ UNCHANGED <<config, process, ready, handed, conn, losses, last, status, collectorVars, pageVars>>

\* HandleServiceProtocol: the message goes to the handler, and from there to the
\* manager of statistics.
HandleServiceProtocol ==
    /\ Runs /\ subscribed = "yes"
    /\ IF "handler" \in ready /\ {"cache", "statistics"} \subseteq handed
       THEN UNCHANGED serverVars ELSE Panic

ConnectionLost ==
    /\ Runs /\ conn = "up" /\ losses < MaxLosses
    /\ conn' = "lost" /\ subscribed' = "no" /\ losses' = losses + 1
    /\ UNCHANGED <<config, process, ready, handed, last, status, collectorVars, pageVars>>

\* mutant: the listener subscribes when it starts, and not on every connection
ReconnectOnly ==
    /\ Runs /\ conn = "lost"
    /\ conn' = "up" /\ subscribed' = "no"
    /\ UNCHANGED <<config, process, ready, handed, losses, last, status, collectorVars, pageVars>>

\* SetAutoReconnect and SetOnConnectHandler
Reconnect ==
    /\ Runs /\ conn = "lost"
    /\ conn' = "up" /\ subscribed' = "asked"
    /\ UNCHANGED <<config, process, ready, handed, losses, last, status, collectorVars, pageVars>>

-----------------------------------------------------------------------------
(* The collector and the requests *)

Collect ==
    /\ Runs /\ CollectorNext /\ running' = running
    /\ UNCHANGED appVars

\* One request, with whatever its handler does with it.  Bounds: requests of a
\* service that starts other parts are left out (see Configs), and there is one
\* request, as no middleware keeps anything from one to the next.
ServeHTTP ==
    /\ process = "serving" /\ ~config.stats /\ last = None /\ paging = "idle" /\ changes = 0
    /\ \E request \in HttpRequest, body \in Bodies : \E answer \in Answers(request.area) :
          /\ last' = request
          /\ status' = Respond(config.skip, request.area, request.credentials,
                               Recover(Handle(body, answer)))
    /\ UNCHANGED <<config, process, ready, handed, conn, subscribed, losses, collectorVars, pageVars>>

\* Requests that list a table, or change it, by someone who may.  Bound: there
\* are none of other kinds beside them, and nothing is skipped.
ServePages ==
    /\ process = "serving" /\ ~config.stats /\ last = None
    /\ config.skip = [auth |-> FALSE, events |-> FALSE, permissions |-> FALSE]
    /\ PagesNext
    /\ UNCHANGED <<config, process, ready, handed, conn, subscribed, losses, last, status, collectorVars>>

ServerNext ==
    \/ initCache \/ initSessionManagement \/ initGatewayTokensMonitoring
    \/ initRoomsStatistics \/ initServiceProtocolHandler \/ initMQTT
    \/ initInstrumentation \/ ListenAndServe \/ Fatal
    \/ TokensTick
    \/ Subscribe \/ HandleServiceProtocol \/ ConnectionLost \/ Reconnect
    \/ Collect \/ ServeHTTP \/ ServePages

\* The goroutines of the collector and of the listener run, time passes, the
\* client reconnects, and gateways answer, but for those that are silent.
Fairness ==
    /\ WF_serverVars(Runs /\ TakeAnswer /\ UNCHANGED appVars)
    /\ WF_serverVars(Runs /\ TakeTimeout /\ UNCHANGED appVars)
    /\ WF_serverVars(Runs /\ EndRound /\ UNCHANGED appVars)
    /\ \A g \in Gateways \ Silent : WF_serverVars(Runs /\ Answer(g) /\ UNCHANGED appVars)
    /\ WF_serverVars(Reconnect)
    /\ WF_serverVars(Subscribe)

ServerSpec == ServerInit /\ [][ServerNext]_serverVars /\ Fairness

-----------------------------------------------------------------------------
(* Properties *)

\* Nothing that works while the service starts misses a part of it: neither a
\* message nor a tick ends the process (the order in InitializeWithDeps).
NothingMissing == process # "panicked"

\* Who may have a request handled, said without the chain.
Entitled(skip, request) ==
    LET c == request.credentials
        service == ~skip.auth /\ c.kind = "service"
        holds(roles) == service \/ (~skip.auth /\ c.roles \cap roles # {})
    IN CASE request.area = "open" -> TRUE
         [] request.area = "gateway" -> skip.events \/ (c.kind = "gateway" /\ c.valid)
         [] OTHER ->
              /\ skip.auth \/ (c.kind \in {"service", "token"} /\ c.valid)
              /\ \/ skip.permissions
                 \/ /\ request.area = "any" => holds(Roles)
                    /\ request.area = "shidur" => holds({"shidur"})
                    /\ request.area = "root" => holds({"root"})
                    /\ request.area = "statistics" => holds({"shidur", "root"})
                    /\ request.area = "handles" => holds({"admin", "root"})

\* A request is handled exactly if its sender is entitled to it, whatever was
\* configured to be skipped: skipping the authentication alone opens nothing,
\* and the root role does not replace the operator's (auth.go, permissions.go
\* and the checks of the handlers).
OnlyEntitled ==
    last # None => (status \notin {"401", "403"} <=> Entitled(config.skip, last))

\* As long as all gateways but one answer, every round of the collector ends.
RoundsEnd == phase = "collect" ~> phase = "idle" \/ ~Runs

\* A listener that has lost its connection subscribes again, or was refused to.
Resubscribes == conn = "lost" ~> subscribed \in {"yes", "refused"} \/ ~Runs

==============================================================================
