------------------------------- MODULE Access -------------------------------
(***************************************************************************)
(* Who may call what: how callers come by a JWT, the two global guards and *)
(* the rate limiter behind them.  A call is one REST request or one field  *)
(* of a GraphQL operation, which is what guards and interceptor run for.   *)
(*                                                                         *)
(* Three kinds of callers:                                                 *)
(*   "direct"  posts its credentials to /oauth2/token and sends the token  *)
(*             whenever it likes, and again after that;                    *)
(*   "stdio"   is a LeanIxClient: it caches its token and asks for another *)
(*             shortly before that one expires;                            *)
(*   "remote"  calls a tool of the MCP endpoint, which resolves the header *)
(*             to a JWT and calls the API with it over the loopback.       *)
(*                                                                         *)
(* The role and workspace in a token are those of its issue.  Roles are    *)
(* changed in the database by nobody in this code (ChangeRole is external).*)
(***************************************************************************)
EXTENDS RateLimit

CONSTANTS Clients,      \* stdio clients
          Owner,        \* the technical user of each
          InitialRole,  \* the users' roles as they are seeded
          Routes,       \* the handlers that are called
          Second,       \* ticks in a second
          Ttl,          \* TOKEN_TTL_SECONDS, in ticks
          Margin,       \* how long before the expiry a client refreshes
          ReplyDelay,   \* from the issue of a token to its receipt, at most
          Transit,      \* from the choice of a token to the guards, at most
          NewRoles,     \* bound: roles that users are given
          MaxChanges    \* bound: changes of roles

Roles == {"ADMIN", "MEMBER", "VIEWER"}
Writers == {"ADMIN", "MEMBER"}

-----------------------------------------------------------------------------
(* The handlers: which @Roles they carry                                   *)

Mutations == {"createFactSheet", "updateFactSheet", "archiveFactSheet", "reviveFactSheet",
              "deleteFactSheet", "upsertRelation", "deleteRelation"}
CommentMutations == {"createComment"}
Queries == {"factSheet", "allFactSheets"}
SearchQueries == {"search"}
MetaModelQueries == {"allFactSheetTypes", "factSheetType"}

SurveyRoutes == [
    open |-> {"survey.listDefinitions", "survey.getDefinition", "survey.listRuns",
              "survey.getRun", "survey.listInvitations", "survey.submitResponse",
              "survey.getResults"},
    restricted |-> {"survey.createDefinition", "survey.createRun", "survey.invite"}]
TodoRoutes == [
    open |-> {"todo.list", "todo.findOne"},
    restricted |-> {"todo.create", "todo.update", "todo.complete"}]
CommentRoutes == [open |-> {"comment.list"}, restricted |-> {"comment.create"}]
WebhookRoutes == [
    open |-> {},
    restricted |-> {"webhook.register", "webhook.list", "webhook.findOne",
                    "webhook.update", "webhook.remove"}]
IntegrationRoutes == [
    open |-> {},
    restricted |-> {"integration.createConfiguration", "integration.listConfigurations",
                    "integration.createSyncRun", "integration.createSyncRunFromUrl",
                    "integration.getSyncRun", "integration.getSyncRunLogs"}]
DiscoveryRoutes == [open |-> {}, restricted |-> {"aiagent.discover"}]

Tables == {SurveyRoutes, TodoRoutes, CommentRoutes, WebhookRoutes, IntegrationRoutes,
           DiscoveryRoutes}

\* Handlers without @Roles: any role reads, and a mutation takes a writer.
DefaultRoles(route) ==
    IF route \in Mutations \cup CommentMutations THEN Writers ELSE Roles

Allowed(route) ==
    IF \E table \in Tables : route \in table.restricted
    THEN Writers ELSE DefaultRoles(route)

AllRoutes ==
    Mutations \cup CommentMutations \cup Queries \cup SearchQueries \cup MetaModelQueries
        \cup UNION {table.open \cup table.restricted : table \in Tables}

ASSUME AccessAssumption ==
    /\ Owner \in [Clients -> Users]
    /\ InitialRole \in [Users -> Roles]
    /\ NewRoles \subseteq Roles
    /\ Routes \subseteq AllRoutes
    /\ Second \in Nat \ {0}
    /\ Ttl \in Nat /\ Margin \in Nat
    /\ ReplyDelay \in Nat /\ Transit \in Nat /\ MaxChanges \in Nat

\* The margin is there for slow networks, and covers them up to its length.
ASSUME MarginAssumption ==
    /\ ReplyDelay + Transit + Second <= Margin + 1
    /\ Margin < Ttl

VARIABLES
    role,     \* role[u]: the user's role in the database
    lost,     \* lost[u]: when the user was last a writer; history
    cache,    \* cache[c]: the client's token and tokenExpiresAt
    call,     \* call[r]: how far call r is
    changes   \* changes of roles so far

accessVars == <<role, lost, cache, call, changes>>
vars == <<limiterVars, accessVars>>

Token == [user : Users, role : Roles, exp : Nat]
NoToken == [user |-> CHOOSE u \in Users : TRUE, role |-> "VIEWER", exp |-> 0]
Nobody == "nobody"

NewCall == [phase |-> "idle", origin |-> "direct", client |-> Nobody,
            route |-> Nobody, token |-> NoToken, since |-> 0]

TypeOK ==
    /\ LimiterTypeOK
    /\ role \in [Users -> Roles]
    /\ lost \in [Users -> Nat]
    /\ cache \in [Clients -> [token : Token, until : Nat]]
    /\ call \in [Requests ->
            [phase : {"idle", "asking", "minted", "sent", "limiting", "served", "limited",
                      "unauthenticated", "forbidden", "failed"},
             origin : {"direct", "stdio", "remote"},
             client : Clients \cup {Nobody},
             route : Routes \cup {Nobody},
             token : Token,
             since : Nat]]
    /\ changes \in Nat

Init ==
    /\ LimiterInit
    /\ role = InitialRole
    /\ lost = [u \in Users |-> 0]
    /\ cache = [c \in Clients |-> [token |-> NoToken, until |-> 0]]
    /\ call = [r \in Requests |-> NewCall]
    /\ changes = 0

-----------------------------------------------------------------------------
(* Tokens                                                                  *)

\* issueToken: iat and exp are whole seconds.
Issue(u) == [user |-> u, role |-> role[u], exp |-> (now \div Second) * Second + Ttl]

\* Mutant: a token is still good in the second it expires.
ValidThroughExp(token) == now <= token.exp

\* JwtService.verify compares whole seconds, and exp is one.
Valid(token) == now < token.exp

\* A Basic header decides alone; without one the form fields do.
Credentials == [basic : {"none", "apitoken", "other"},
                password : Users \cup {Nobody},
                body : Users \cup {Nobody}]

ResolveUser(cred) ==
    IF cred.basic = "none" THEN cred.body
    ELSE IF cred.basic = "apitoken" THEN cred.password
    ELSE Nobody

\* The MCP endpoint's header: an API token under either scheme, or a JWT.
Schemes == {"token", "bearer", "other"}

ResolvesKey(scheme, u) == scheme \in {"token", "bearer"} /\ u # Nobody
ResolvesJwt(scheme, token) == scheme = "bearer" /\ Valid(token)

-----------------------------------------------------------------------------
(* Callers                                                                 *)

Send(r, origin, client, route, token) ==
    /\ call[r].phase = "idle"
    /\ call' = [call EXCEPT ![r] =
                    [phase |-> "sent", origin |-> origin, client |-> client,
                     route |-> route, token |-> token, since |-> now]]

\* A direct caller gets a token for its call.
CallDirect(r, cred, route) ==
    /\ ResolveUser(cred) # Nobody
    /\ Send(r, "direct", Nobody, route, Issue(ResolveUser(cred)))
    /\ UNCHANGED <<limiterVars, role, lost, cache, changes>>

\* A direct caller sends the token of an earlier call of its own.
CallDirectAgain(r, q, route) ==
    /\ call[q].origin = "direct" /\ call[q].phase = "served"
    /\ Send(r, "direct", Nobody, route, call[q].token)
    /\ UNCHANGED <<limiterVars, role, lost, cache, changes>>

\* ensureToken finds a token that has not reached tokenExpiresAt.
CallCached(r, c, route) ==
    /\ now < cache[c].until
    /\ Send(r, "stdio", c, route, cache[c].token)
    /\ UNCHANGED <<limiterVars, role, lost, cache, changes>>

\* ensureToken finds none, and posts the credentials; other calls of the same
\* client may be doing so already.
Ask(r, c, route) ==
    /\ call[r].phase = "idle"
    /\ now >= cache[c].until
    /\ call' = [call EXCEPT ![r] =
                    [NewCall EXCEPT !.phase = "asking", !.origin = "stdio",
                                    !.client = c, !.route = route]]
    /\ UNCHANGED <<limiterVars, role, lost, cache, changes>>

\* The token endpoint answers.
Mint(r) ==
    /\ call[r].phase = "asking"
    /\ call' = [call EXCEPT ![r].phase = "minted",
                            ![r].token = Issue(Owner[call[r].client]),
                            ![r].since = now]
    /\ UNCHANGED <<limiterVars, role, lost, cache, changes>>

\* Mutant: the client keeps its token to the end.
ReceiveWithoutMargin(r) ==
    /\ call[r].phase = "minted"
    /\ cache' = [cache EXCEPT ![call[r].client] =
                    [token |-> call[r].token, until |-> now + Ttl]]
    /\ call' = [call EXCEPT ![r].phase = "sent", ![r].since = now]
    /\ UNCHANGED <<limiterVars, role, lost, changes>>

\* The client stores the token over the one it has, and sends its request.
Receive(r) ==
    /\ call[r].phase = "minted"
    /\ cache' = [cache EXCEPT ![call[r].client] =
                    [token |-> call[r].token, until |-> now + (Ttl - Margin)]]
    /\ call' = [call EXCEPT ![r].phase = "sent", ![r].since = now]
    /\ UNCHANGED <<limiterVars, role, lost, changes>>

\* A tool of the MCP endpoint, called with an API token under either scheme or
\* with the JWT of an earlier call; any other header is answered 401.
CallTool(r, scheme, u, route) ==
    /\ ResolvesKey(scheme, u)
    /\ Send(r, "remote", Nobody, route, Issue(u))
    /\ UNCHANGED <<limiterVars, role, lost, cache, changes>>

CallToolWithJwt(r, scheme, q, route) ==
    /\ call[q].origin = "direct" /\ call[q].phase = "served"
    /\ ResolvesJwt(scheme, call[q].token)
    /\ Send(r, "remote", Nobody, route, call[q].token)
    /\ UNCHANGED <<limiterVars, role, lost, cache, changes>>

\* The same tool's next query, with the token the endpoint resolved for it.
CallToolAgain(r, q, route) ==
    /\ call[q].origin = "remote" /\ call[q].phase = "served"
    /\ Send(r, "remote", Nobody, route, call[q].token)
    /\ UNCHANGED <<limiterVars, role, lost, cache, changes>>

\* A call is over; direct callers and tools may use the token again.
End(r, phase) ==
    call' = [call EXCEPT ![r] =
                [NewCall EXCEPT !.phase = phase, !.origin = call[r].origin,
                    !.token = IF phase = "served" /\ call[r].origin # "stdio"
                              THEN call[r].token ELSE NoToken]]

\* A message is lost: the client's timeout ends the call.
Lose(r) ==
    /\ call[r].phase \in {"asking", "minted", "sent"}
    /\ End(r, "failed")
    /\ UNCHANGED <<limiterVars, role, lost, cache, changes>>

-----------------------------------------------------------------------------
(* The API                                                                 *)

\* LeanIxAuthGuard.
Refuse(r) ==
    /\ call[r].phase = "sent"
    /\ ~Valid(call[r].token)
    /\ End(r, "unauthenticated")
    /\ UNCHANGED <<limiterVars, role, lost, cache, changes>>

\* RolesGuard.
Forbid(r) ==
    /\ call[r].phase = "sent"
    /\ Valid(call[r].token)
    /\ call[r].token.role \notin Allowed(call[r].route)
    /\ End(r, "forbidden")
    /\ UNCHANGED <<limiterVars, role, lost, cache, changes>>

\* Both guards pass, and the interceptor takes over with the token's claims.
PassGuards(r) ==
    /\ call[r].phase = "sent"
    /\ Valid(call[r].token)
    /\ call[r].token.role \in Allowed(call[r].route)
    /\ Arrive(r, call[r].token.user)
    /\ call' = [call EXCEPT ![r].phase = "limiting", ![r].since = 0]
    /\ UNCHANGED <<role, lost, cache, changes>>

Limiting(r) ==
    /\ \E k \in Keys : Pipeline(r, k) \/ ErrorReplies(r, k)
    /\ UNCHANGED accessVars

LimiterFails(r) ==
    /\ Unreachable(r)
    /\ End(r, "failed")
    /\ UNCHANGED <<role, lost, cache, changes>>

\* The handler runs, or the interceptor throws RATE_LIMIT_EXCEEDED.
Answer(r) ==
    /\ call[r].phase = "limiting" /\ Checked(r)
    /\ End(r, IF Admitted(r) THEN "served" ELSE "limited")
    /\ UNCHANGED <<limiterVars, role, lost, cache, changes>>

-----------------------------------------------------------------------------
(* The environment                                                         *)

ChangeRole(u, new) ==
    /\ changes < MaxChanges /\ new # role[u]
    /\ changes' = changes + 1
    /\ role' = [role EXCEPT ![u] = new]
    /\ lost' = [lost EXCEPT ![u] = IF role[u] \in Writers THEN now ELSE @]
    /\ UNCHANGED <<limiterVars, cache, call>>

Delivered ==
    \A r \in Requests :
        /\ call[r].phase = "minted" => now < call[r].since + ReplyDelay
        /\ call[r].phase = "sent" /\ call[r].origin # "direct"
           => now < call[r].since + Transit

TickAll ==
    /\ Delivered
    /\ Tick
    /\ UNCHANGED accessVars

Next ==
    \/ TickAll
    \/ \E r \in Requests :
        \/ \E route \in Routes :
            \/ \E cred \in Credentials : CallDirect(r, cred, route)
            \/ \E c \in Clients : CallCached(r, c, route) \/ Ask(r, c, route)
            \/ \E scheme \in Schemes :
                \/ \E u \in Users : CallTool(r, scheme, u, route)
                \/ \E q \in Requests : CallToolWithJwt(r, scheme, q, route)
            \/ \E q \in Requests : CallDirectAgain(r, q, route) \/ CallToolAgain(r, q, route)
        \/ Mint(r) \/ Receive(r) \/ Lose(r)
        \/ Refuse(r) \/ Forbid(r) \/ PassGuards(r)
        \/ Limiting(r) \/ LimiterFails(r) \/ Answer(r)
    \/ \E u \in Users, new \in NewRoles : ChangeRole(u, new)

Spec == Init /\ [][Next]_vars

-----------------------------------------------------------------------------
(* Properties                                                              *)

\* A stdio client is never refused for an expired token: the margin makes up
\* for the time the token and the request travel, whatever refreshes of the
\* same client overtake each other (leanix-client.ts:49).
CachedAccepted ==
    \A r \in Requests :
        call[r].origin = "stdio" => call[r].phase # "unauthenticated"

\* A user who stopped being a writer can write no longer than a token lives
\* (auth.service.ts:63 and leanix-auth.guard.ts:36).
Passing(r) == call[r].phase = "sent" /\ call'[r].phase = "limiting"

RecentRole ==
    [][\A r \in Requests :
        LET u == call[r].token.user IN
        Passing(r) /\ Allowed(call[r].route) = Writers
        => role[u] \in Writers \/ lost[u] + Ttl > now]_vars
=============================================================================
