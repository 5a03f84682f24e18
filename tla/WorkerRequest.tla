--------------------------- MODULE WorkerRequest ---------------------------
(***************************************************************************)
(* Requests to the managed worker (comsat-cloud runtime.rs, runtime_http.rs*)
(* and auth.rs, source_graph.rs): landing page, origin check, preflight,   *)
(* bearer token, route, body, tool.  One isolate serves many requests, of  *)
(* many tenants, each up to its next await; a deployment changes the       *)
(* configuration and starts a new isolate, and the requests it finds under *)
(* way end with the configuration they came with.                          *)
(***************************************************************************)
EXTENDS Naturals

CONSTANTS
  None,
  Requests,    \* identities of requests
  Inputs,      \* [method, path, origin, token, body] of a request
  Deployments, \* [origins, tokens] of a deployment
  Strong,      \* tokens valid_bearer_token accepts
  TenantIds    \* tenant ids valid_tenant_id accepts

ASSUME WorkerAssumption == None \notin Strong

VARIABLES
  config,   \* the environment of the current deployment
  cache,    \* SOURCE_CATALOG_CACHE: the configuration it was built from, or None
  reqs,     \* state of each request
  stored    \* watches in the store: <<tenant, request that added it>>

workerVars == <<config, cache, reqs, stored>>

\* The routes of dispatch_request and tool_for_path.
ToolPaths == {"/search", "/watch/add", "/watch/list", "/watch/delete"}

\* parse: a JSON object, not empty, of valid tokens to valid tenants; None else.
\* text is None if it is missing or no such object.
ParseTokens(text) ==
  IF /\ text # None
     /\ DOMAIN text # {}
     /\ \A t \in DOMAIN text : t \in Strong /\ text[t] \in TenantIds
  THEN text ELSE None

\* tenant_token_map: secret and variable are one binding of the environment, so
\* the second attempt reads what the first has refused.
TokenMap(env) == ParseTokens(env.tokens)

\* Mutant of AuthorizedTenant: a request without token is the default tenant's.
MutAuthorized(map, token) ==
  IF token = None THEN CHOOSE t \in {map[k] : k \in DOMAIN map} : TRUE
  ELSE IF token \in DOMAIN map THEN map[token] ELSE None

\* authorized_tenant: a missing, empty or unknown bearer token is None.
AuthorizedTenant(map, token) ==
  IF token \in DOMAIN map THEN map[token] ELSE None

OriginAllowed(origin, env) == origin = None \/ origin \in env.origins

\* status, the origin echoed by apply_cors, and the watches listed.
Answer(status, cors) == [status |-> status, cors |-> cors, data |-> {}]

\* A worker error becomes a response of the platform, without CORS headers.
WorkerError == Answer(500, None)

WorkerInit ==
  /\ config \in Deployments
  /\ cache = None
  /\ reqs = [r \in Requests |-> [st |-> "new"]]
  /\ stored = {}

\* A request with everything that happens to it before its first await.
Routed(in, env, src) ==
  [st |-> "done", in |-> in, env |-> env, src |-> src, tenant |-> None, answer |-> WorkerError]

Done(q, status) == [q EXCEPT !.st = "done", !.answer = Answer(status, q.in.origin)]

\* dispatch_request up to the body or the tool.
Dispatch(q) ==
  LET in == q.in
  IN CASE in.path = "/health" -> Done(q, 200)
       [] in.path = "/mcp" /\ in.method = "POST" -> [q EXCEPT !.st = "body"]
       [] in.path = "/mcp" /\ in.method # "POST" -> [q EXCEPT !.st = "mcp"]
       [] in.path = "/history" ->
            IF in.method # "GET" THEN Done(q, 405)
            ELSE IF in.body = "bad limit" THEN Done(q, 400) ELSE [q EXCEPT !.st = "tool"]
       [] in.path \in ToolPaths ->
            IF in.method # "POST" THEN Done(q, 405) ELSE [q EXCEPT !.st = "body"]
       [] OTHER -> Done(q, 404)

\* route_request.
Route(q) ==
  LET in == q.in
      map == TokenMap(q.env)
      tenant == AuthorizedTenant(map, in.token)
  IN CASE in.path = "/" /\ in.method \in {"GET", "HEAD"} -> [q EXCEPT !.answer = Answer(200, None)]
       [] OTHER ->
            IF ~OriginAllowed(in.origin, q.env) THEN [q EXCEPT !.answer = Answer(403, None)]
            ELSE IF in.method = "OPTIONS" THEN Done(q, 204)
            ELSE IF map = None THEN q
            ELSE IF tenant = None THEN Done(q, 401)
            ELSE Dispatch([q EXCEPT !.tenant = tenant])

\* The fetch handler: source_catalog takes the cached catalog or builds it.
Arrive(r) ==
  /\ reqs[r].st = "new"
  /\ cache' = IF cache = None THEN config ELSE cache
  /\ \E in \in Inputs : reqs' = [reqs EXCEPT ![r] = Route(Routed(in, config, cache'))]
  /\ UNCHANGED <<config, stored>>

\* read_bounded_body has ended: HttpExchange is about how.
BodyRead(r) ==
  /\ reqs[r].st = "body"
  /\ LET q == reqs[r]
     IN reqs' = [reqs EXCEPT ![r] =
          CASE q.in.body = "too large" -> Done(q, 413)
            [] q.in.body = "broken" -> [q EXCEPT !.st = "done"]
            [] q.in.body = "not an object" /\ q.in.path # "/mcp" -> Done(q, 400)
            [] OTHER -> [q EXCEPT !.st = IF q.in.path = "/mcp" THEN "mcp" ELSE "tool"]]
  /\ UNCHANGED <<config, cache, stored>>

OwnWatches(tenant) == {w \in stored : w[1] = tenant}

\* A tool of the tenant's app: path names it.  Its store calls carry the tenant
\* id of the app (StoredWatch.tenant_id, WHERE tenant_id = ?); the caller chooses
\* the watch to delete, among all.
RunTool(r, path) ==
  LET tenant == reqs[r].tenant
      listed == IF path \in {"/watch/list", "/history"} THEN OwnWatches(tenant) ELSE {}
  IN /\ CASE path = "/watch/add" -> stored' = stored \cup {<<tenant, r>>}
          [] path = "/watch/delete" -> \E x \in Requests : stored' = stored \ {<<tenant, x>>}
          [] OTHER -> UNCHANGED stored
     /\ reqs' = [reqs EXCEPT ![r] = [Done(@, 200) EXCEPT !.answer.data = listed]]

Tool(r) ==
  /\ reqs[r].st = "tool"
  /\ \/ RunTool(r, reqs[r].in.path)
     \/ reqs' = [reqs EXCEPT ![r] = Done(@, 400)] /\ UNCHANGED stored
  /\ UNCHANGED <<config, cache>>

\* External: handle_mcp_request calls a tool of the app's catalog for a POST with
\* a good body, or answers by itself.
Mcp(r) ==
  /\ reqs[r].st = "mcp"
  /\ \/ /\ reqs[r].in.method = "POST" /\ reqs[r].in.body = "object"
        /\ \E p \in ToolPaths : RunTool(r, p)
     \/ /\ \E s \in {200, 400, 405} : reqs' = [reqs EXCEPT ![r] = Done(@, s)]
        /\ UNCHANGED stored
  /\ UNCHANGED <<config, cache>>

\* External: a new version or a new secret.  It runs in new isolates.
Deploy(env) ==
  /\ env # config
  /\ config' = env
  /\ cache' = None
  /\ UNCHANGED <<reqs, stored>>

WorkerNext ==
  \/ \E r \in Requests : Arrive(r) \/ BodyRead(r) \/ Tool(r) \/ Mcp(r)
  \/ \E env \in Deployments : Deploy(env)

WorkerSpec == WorkerInit /\ [][WorkerNext]_workerVars

-----------------------------------------------------------------------------
(* Properties *)

Came(r) == reqs[r].st # "new"

\* The tenant whose token a request carries, in the configuration it came with.
Bearer(r) ==
  LET q == reqs[r]
  IN IF q.in.token = None \/ q.env.tokens = None \/ q.in.token \notin DOMAIN q.env.tokens
     THEN None ELSE q.env.tokens[q.in.token]

\* A watch is stored or listed only for the tenant of the bearer token
\* that authorised the request, whichever other requests, of other tenants, run
\* in between and whatever is deployed meanwhile; rotating a token does not show
\* the tenant's watches to another.
TenantIsolation ==
  /\ \A w \in stored : Came(w[2]) /\ w[1] = Bearer(w[2])
  /\ \A r \in Requests :
       Came(r) /\ reqs[r].st = "done" =>
         \A w \in reqs[r].answer.data : Bearer(w[2]) = Bearer(r) /\ Bearer(r) # None

\* Only an origin of the list is ever echoed, and a request from another origin
\* neither gets past the door nor waits for anything.  The shared catalog has the
\* credentials of the request's own deployment.
OriginFenced ==
  \A r \in Requests : Came(r) =>
    LET q == reqs[r]
        fenced == q.in.origin # None /\ q.in.origin \notin q.env.origins
    IN /\ q.st = "done" /\ q.answer.cors # None =>
            q.answer.cors = q.in.origin /\ ~fenced
       /\ fenced => q.st = "done" /\ q.tenant = None /\ q.answer.data = {}
       /\ q.src = q.env

\* Every remote tool request is authenticated before a tenant-scoped app is made
\* for it, and the origin list constrains who may ask (docs/architecture.md:75).
AccessControl == TenantIsolation /\ OriginFenced
=============================================================================
