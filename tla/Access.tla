-------------------------------- MODULE Access --------------------------------
(***************************************************************************)
(* Who may call what: the chain of middleware that a request passes        *)
(* (InitializeWithDeps in api/app.go, middleware/auth.go, permissions.go   *)
(* and recovery.go), and the roles that the handlers ask for.              *)
(*                                                                         *)
(* Each middleware is an operator from a request to what becomes of it: a  *)
(* status that refuses it, or "next".                                      *)
(***************************************************************************)

\* Config.SkipAuth, Config.SkipEventsAuth and Config.SkipPermissions
Flags == [auth : BOOLEAN, events : BOOLEAN, permissions : BOOLEAN]

\* The routes, by what the middleware and the handlers ask of a request: health
\* and metrics; what gateways call; listings and sessions; and those that only
\* some roles may call.
Areas == {"open", "gateway", "any", "shidur", "root", "statistics", "handles"}

Roles == {"user", "shidur", "admin", "root"}

\* What a request shows: nothing, basic authentication as the service or as a
\* gateway, or a token, with the roles that are known among its claims.  A token
\* that an issuer takes has well-formed claims.
Credentials ==
    [kind : {"none", "service", "gateway"}, valid : BOOLEAN, roles : {{}}]
        \cup [kind : {"token"}, valid : BOOLEAN, roles : SUBSET Roles]

\* parseToken
Bearer(c) == c.kind = "token"

\* FailoverOIDCTokenVerifier.Verify: one of the issuers takes the token.
Verify(c) == c.valid

\* AuthenticationMiddleware: the gateways of the cache have a password each.
AuthenticateGateway(flags, c) ==
    IF flags.events \/ (c.kind = "gateway" /\ c.valid) THEN "next" ELSE "401"

AuthenticateUser(flags, c) ==
    IF \/ flags.auth
       \/ c.kind = "service" /\ c.valid
       \/ Bearer(c) /\ Verify(c)
    THEN "next" ELSE "401"

Authenticate(flags, area, c) ==
    CASE area = "open" -> "next"
      [] area = "gateway" -> AuthenticateGateway(flags, c)
      [] OTHER -> AuthenticateUser(flags, c)

\* What the context of a request holds after that: nothing when it was skipped.
Context(flags, area, c) ==
    IF flags.auth \/ area \in {"open", "gateway"} THEN [service |-> FALSE, roles |-> {}]
    ELSE [service |-> c.kind = "service", roles |-> c.roles]

HasAnyRole(claims, roles) == claims \cap roles # {}

RequestHasRole(context, roles) == context.service \/ HasAnyRole(context.roles, roles)

MinimalPermission(flags, area, context) ==
    IF flags.permissions \/ area \in {"open", "gateway"} \/ RequestHasRole(context, Roles)
    THEN "next" ELSE "403"

\* mutant: the administrator's root role is taken for any other
NeedsOrRoot(area) ==
    CASE area = "shidur" -> {"shidur", "root"}
      [] area = "root" -> {"root"}
      [] area = "statistics" -> {"shidur", "root"}
      [] area = "handles" -> {"admin", "root"}

\* The roles that handlers ask for.
Needs(area) ==
    CASE area = "shidur" -> {"shidur"}
      [] area = "root" -> {"root"}
      [] area = "statistics" -> {"shidur", "root"}
      [] area = "handles" -> {"admin", "root"}

CheckRole(flags, area, context) ==
    IF flags.permissions \/ area \in {"open", "gateway", "any"}
         \/ RequestHasRole(context, Needs(area))
    THEN "next" ELSE "403"

\* What a request is answered, when its handler would answer "answer".
Respond(flags, area, c, answer) ==
    LET context == Context(flags, area, c)
        chain == <<Authenticate(flags, area, c),
                   MinimalPermission(flags, area, context),
                   CheckRole(flags, area, context)>>
    IN CASE chain[1] # "next" -> chain[1]
         [] chain[2] # "next" -> chain[2]
         [] chain[3] # "next" -> chain[3]
         [] OTHER -> answer

\* Bodies of requests, for handlers that want one: good or of no concern; not
\* JSON, of other types, empty or with more after it; over a megabyte; cut off.
Bodies == {"good", "malformed", "large", "broken"}

\* httputil.DecodeJSONBody
DecodeJSONBody(body) ==
    CASE body = "good" -> "next"
      [] body = "malformed" -> "400"
      [] body = "large" -> "413"
      [] body = "broken" -> "500"

Handle(body, answer) == IF DecodeJSONBody(body) = "next" THEN answer ELSE DecodeJSONBody(body)

\* AdminGetRoom: the id is a number, and what the query comes to.
AdminGetRoom(number, row) ==
    CASE ~number \/ row = "missing" -> "404"
      [] number /\ row = "error" -> "500"
      [] number /\ row = "found" -> "200"

\* AdminGatewaysHandleInfo: the gateway is in the cache, its session and handle
\* are numbers, and what the gateway says of them.
AdminGatewaysHandleInfo(cached, numbers, reply) ==
    CASE ~cached \/ ~numbers \/ reply = "missing" -> "404"
      [] cached /\ numbers /\ reply = "error" -> "500"
      [] cached /\ numbers /\ reply = "found" -> "200"

Lookup == {"found", "missing", "error"}

\* What handlers answer to a request that they can read.
Answers(area) ==
    CASE area = "handles" ->
            {AdminGatewaysHandleInfo(cached, numbers, reply) :
                cached \in BOOLEAN, numbers \in BOOLEAN, reply \in Lookup}
      [] area = "root" ->
            {AdminGetRoom(number, row) : number \in BOOLEAN, row \in Lookup} \cup {"panic"}
      [] OTHER -> {"200", "500", "panic"}

\* RecoveryMiddleware
Recover(answer) == IF answer = "panic" THEN "500" ELSE answer

==============================================================================
