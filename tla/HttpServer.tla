------------------------------ MODULE HttpServer ------------------------------
(***************************************************************************)
(* The HTTP server, src/demo/http_ingress.rs, with the static routes of     *)
(* src/static_routes.rs and the gate of src/deployments/api.rs.  When it    *)
(* starts, it reads the mounts that the packs declare and refuses to run    *)
(* with mounts that are malformed or in conflict; a request is then         *)
(* answered by the operator's own endpoints, by a mounted file, or, through *)
(* a provider, by the post-ingress pipeline of PostIngress.                 *)
(***************************************************************************)
EXTENDS PostIngress

(***************************************************************************)
(* A cast also says whether the process serves (or handles one request of   *)
(* the command line), what HTTP requests it gets, which domains are enabled *)
(* and which <<domain, provider>> can take webhooks.                        *)
(***************************************************************************)
CONSTANTS Statics,     \* Statics[f]: [ok, routes] of the static-routes extension of pack f;
                       \* ok: it can be decoded, and has valid roots and caching rules
          Files,       \* Files[f]: the assets in pack f
          Rank,        \* segments numbered as their names sort
          Onboard,     \* segments that begin with "onboard"
          Deployments, \* segments that begin with "deployments"
          Verbs        \* the operations under /deployments

(* A path is its segments; "" stands between two slashes.  A mount may be   *)
(* for a tenant, and then for a team, in the place of a segment.            *)
Tenant == "{tenant}"
Team == "{team}"
Templates == {Tenant, Team}
Route == [path : Seq(STRING), tenant : BOOLEAN, team : BOOLEAN,
          index : Seq(STRING), fallback : Seq(STRING)]

(* Who sends a request; a page is one of another site in a local browser.   *)
Clients == {"local", "remote", "tunnel", "page"}
Request == [method : {"GET", "POST", "OPTIONS", "PUT"}, path : Seq(STRING), dir : BOOLEAN, client : Clients]

ASSUME HttpAssumption ==
    /\ \A f \in Refs : Statics[f].routes \in Seq(Route)
    /\ DOMAIN Rank \subseteq STRING /\ \A s, t \in DOMAIN Rank : Rank[s] \in Nat /\ (Rank[s] = Rank[t] => s = t)
    /\ Templates \subseteq DOMAIN Rank /\ Rank[Team] < Rank[Tenant]
    /\ \A f \in Refs : \A k \in DOMAIN Statics[f].routes : ToSet(Statics[f].routes[k].path) \subseteq DOMAIN Rank
    /\ \A c \in Casts : /\ \A r \in Reqs : c.https[r] \subseteq Request
                        /\ c.domains \subseteq {"messaging", "events"}
                        /\ \A r \in Reqs : \A p \in c.posts[r] : p.via = IF c.serves THEN "server" ELSE "cli"
                        /\ c.serves \/ Cardinality({r \in Reqs : c.posts[r] # {}}) <= 1

-----------------------------------------------------------------------------
(* Mounts: discover_from_bundle and validate_plan. *)

Segments(path) == FlattenSeq([k \in DOMAIN path |-> IF path[k] = "" THEN <<>> ELSE <<path[k]>>])

First(s, x) == {k \in DOMAIN s : s[k] = x /\ \A j \in 1..(k - 1) : s[j] # x}

(* normalize_route_descriptor: the flags say what the path has, and a team  *)
(* comes after its tenant.                                                  *)
RouteOk(o) ==
    LET segs == Segments(o.path) IN
    /\ segs # <<>> /\ "{other}" \notin ToSet(segs)
    /\ o.tenant = (Tenant \in ToSet(segs)) /\ o.team = (Team \in ToSet(segs))
    /\ o.team => o.tenant /\ \A j \in First(segs, Tenant), k \in First(segs, Team) : j < k
    /\ ".." \notin ToSet(o.index) \cup ToSet(o.fallback)

StaticsOk(f) == Statics[f].ok /\ \A k \in DOMAIN Statics[f].routes : RouteOk(Statics[f].routes[k])

Mounts(fs) ==
    UNION {{[pack |-> f, path |-> o.path, segs |-> Segments(o.path), index |-> o.index, fallback |-> o.fallback]
              : o \in ToSet(Statics[f].routes)} : f \in fs}

(* ReservedRouteSet::operator_defaults: what is reserved with all below it, *)
(* and what is reserved alone.                                              *)
ReservedPrefixes ==
    {<<"api", "onboard">>, <<"runtime">>, <<"deployments">>, <<"config">>, <<"cache">>, <<"observability">>} \cup
    {p \o <<d, "ingress">> : p \in {<<"v1">>, <<>>}, d \in {"messaging", "events", "secrets", "oauth"}}
ReservedPaths == {<<"healthz">>, <<"readyz">>, <<"status">>}

conflicts_with(path) == path \in ReservedPaths \/ \E p \in ReservedPrefixes : IsPrefix(p, path)
paths_overlap(a, b) == IsPrefix(a, b) \/ IsPrefix(b, a)

(* No mount in reserved space, none declared twice or below another.        *)
PlanOk(fs) ==
    /\ \A f \in fs : StaticsOk(f)
    /\ \A m \in Mounts(fs) : ~conflicts_with(m.path)
    /\ \A m, n \in Mounts(fs) : m # n => ~paths_overlap(m.path, n.path)
    /\ \A f \in fs : \A j, k \in DOMAIN Statics[f].routes :
         paths_overlap(Statics[f].routes[j].path, Statics[f].routes[k].path) => j = k

(* The texts of two paths, compared segment by segment.  (That is the order *)
(* of the texts unless one segment continues another with a character that  *)
(* sorts before the slash.)                                                 *)
TextBefore(a, b) ==
    \E k \in 1..(Len(a) + 1) :
      /\ \A j \in 1..(k - 1) : j <= Len(b) /\ a[j] = b[j]
      /\ k <= Len(b) /\ (k > Len(a) \/ Rank[a[k]] < Rank[b[k]])

(* Mutant: the shortest mount first. *)
Bug_MountBefore(m, n) ==
    \/ Len(m.segs) < Len(n.segs)
    \/ Len(m.segs) = Len(n.segs) /\ TextBefore(m.path, n.path)

(* ActiveRouteTable::from_plan: the longest first. *)
MountBefore(m, n) ==
    \/ Len(m.segs) > Len(n.segs)
    \/ Len(m.segs) = Len(n.segs) /\ TextBefore(m.path, n.path)

Fits(m, segs) ==
    /\ Len(m.segs) <= Len(segs)
    /\ \A k \in DOMAIN m.segs : m.segs[k] \in Templates \/ m.segs[k] = segs[k]

-----------------------------------------------------------------------------
VARIABLES server,    \* down, up, failed or stopped
          table,     \* ActiveRouteTable: the mounts in the order they are tried
          at,        \* where a request is
          request,
          answer,    \* who answered it
          mount,     \* the mount that was chosen for it
          deployed   \* history: the requests whose deployment operation was run

http == <<server, table, at, request, answer, mount, deployed>>

NoRequest == [method |-> None]
NoMount == [pack |-> None]

HttpInit ==
    /\ PostInit
    /\ server = "down" /\ table = <<>>
    /\ at = [r \in Reqs |-> "idle"] /\ request = [r \in Reqs |-> NoRequest]
    /\ answer = [r \in Reqs |-> None] /\ mount = [r \in Reqs |-> NoMount]
    /\ deployed = {}

(* HttpIngressServer::start: no server with a plan that is blocked. *)
StartServer ==
    /\ server = "down" /\ cast.serves
    /\ \/ ~PlanOk(disk) /\ server' = "failed" /\ UNCHANGED table
       \/ PlanOk(disk) /\ server' = "up" /\ table' = Sorted(Mounts(disk), MountBefore)
    /\ UNCHANGED <<at, request, answer, mount, deployed>> /\ UNCHANGED post_vars

-----------------------------------------------------------------------------
(* handle_request_inner *)

(* What the server can tell of a client: a tunnel's daemon is local, but    *)
(* marks what it forwards; a browser names the page's origin.               *)
Loopback(client) == client # "remote"
Marked(client) == client = "tunnel"
ForeignOrigin(client) == client = "page"

(* Mutant: what the tunnel forwards passes for local. *)
Bug_check_trust_boundary(client) == Loopback(client) /\ ~ForeignOrigin(client)

check_trust_boundary(client) == Loopback(client) /\ ~Marked(client) /\ ~ForeignOrigin(client)

(* Paths are compared as text: /deployments-ui begins with /deployments.    *)
IsOnboard(path) == Len(path) > 1 /\ path[1] = "api" /\ path[2] \in Onboard
IsDeployments(path) == path # <<>> /\ path[1] \in Deployments

(* The operation is the whole rest of the path. *)
IsVerb(path) == Len(path) = 2 /\ path[1] = "deployments" /\ path[2] \in Verbs

(* match_request: the first mount of the table that fits. *)
Matching(segs) == {k \in DOMAIN table : Fits(table[k], segs)}
FirstMatch(segs) == table[CHOOSE k \in Matching(segs) : \A j \in Matching(segs) : k <= j]

(* parse_route_segments: [/v1]/{domain}/ingress/{provider}/{tenant}.  (The  *)
(* case of letters, which it ignores, is left out.)                         *)
Webhook(segs) == IF segs # <<>> /\ segs[1] = "v1" THEN Tail(segs) ELSE segs
IsWebhook(segs) ==
    LET w == Webhook(segs)
    IN  Len(w) >= 4 /\ w[1] \in {"messaging", "events", "secrets", "oauth"} /\ w[2] = "ingress"

Domain(segs) == Webhook(segs)[1]
Supported(segs) == <<Domain(segs), Webhook(segs)[3]>> \in cast.providers

(* Who answers a request; "files" and "ingress" have more to do.            *)
Answerer(q) ==
    LET segs == Segments(q.path) IN
    CASE q.method = "OPTIONS" -> "preflight"
      [] q.method \notin {"GET", "POST", "OPTIONS"} -> "bad_method"
      [] q.method \in {"GET", "POST"} ->
           CASE IsOnboard(q.path) -> "onboard"
             [] ~IsOnboard(q.path) /\ IsDeployments(q.path) -> "deployments"
             [] ~IsOnboard(q.path) /\ ~IsDeployments(q.path) ->
                  IF Matching(segs) # {} THEN "files"
                  ELSE IF ~IsWebhook(segs) THEN "bad_path"
                  ELSE IF Domain(segs) \notin cast.domains \/ ~Supported(segs) THEN "not_found"
                  ELSE "ingress"

Receive(r) ==
    /\ server = "up" /\ at[r] = "idle" /\ step[r] = "idle"
    /\ \E q \in cast.https[r] :
         LET a == Answerer(q) IN
         /\ request' = [request EXCEPT ![r] = q]
         /\ at' = [at EXCEPT ![r] = IF a \in {"files", "deployments", "ingress"} THEN a ELSE "done"]
         /\ answer' = [answer EXCEPT ![r] = a]
         /\ mount' = IF a = "files" THEN [mount EXCEPT ![r] = FirstMatch(Segments(q.path))] ELSE mount
    /\ UNCHANGED <<server, table, deployed>> /\ UNCHANGED post_vars

HttpDone(r, a) ==
    /\ at' = [at EXCEPT ![r] = "done"] /\ answer' = [answer EXCEPT ![r] = a]
    /\ UNCHANGED <<server, table, request, mount>>

(* handle_deployments_request: callers that are not direct and local are    *)
(* refused; the body may be too large or not the operation's, and the       *)
(* operation may refuse it.                                                 *)
HandleDeployments(r) ==
    /\ at[r] = "deployments"
    /\ \/ ~check_trust_boundary(request[r].client) /\ HttpDone(r, "forbidden") /\ UNCHANGED deployed
       \/ /\ check_trust_boundary(request[r].client)
          /\ \/ HttpDone(r, "bad_request") /\ UNCHANGED deployed
             \/ IsVerb(request[r].path) /\ request[r].method = "POST"
                /\ HttpDone(r, "deployments") /\ deployed' = deployed \cup {r}
             \/ IsVerb(request[r].path) /\ request[r].method # "POST"
                /\ HttpDone(r, "bad_method") /\ UNCHANGED deployed
             \/ ~IsVerb(request[r].path) /\ HttpDone(r, "not_found") /\ UNCHANGED deployed
    /\ UNCHANGED post_vars

(* serve_static_route: the asset, or the index of a directory; failing      *)
(* that the mount's fallback.  The pack is opened for each of them.         *)
Asset(r) == SubSeq(Segments(request[r].path), Len(mount[r].segs) + 1, Len(Segments(request[r].path)))
Wanted(r) ==
    IF at[r] = "fallback" THEN mount[r].fallback
    ELSE IF Asset(r) = <<>> \/ request[r].dir THEN mount[r].index ELSE Asset(r)

ServeFile(r) ==
    /\ at[r] \in {"files", "fallback"}
    /\ \/ /\ Wanted(r) # <<>> /\ ".." \notin ToSet(Wanted(r))
          /\ \/ mount[r].pack \notin disk /\ HttpDone(r, "error")
             \/ mount[r].pack \in disk /\ Wanted(r) \in Files[mount[r].pack] /\ HttpDone(r, "file")
       \/ /\ Wanted(r) = <<>> \/ ".." \in ToSet(Wanted(r)) \/ (mount[r].pack \in disk /\ Wanted(r) \notin Files[mount[r].pack])
          /\ \/ at[r] = "fallback" /\ HttpDone(r, "not_found")
             \/ /\ at[r] = "files" /\ at' = [at EXCEPT ![r] = "fallback"]
                /\ UNCHANGED <<server, table, request, mount, answer>>
    /\ UNCHANGED deployed /\ UNCHANGED post_vars

(* The request goes to its provider, and on through PostIngress. *)
ToProvider(r) ==
    /\ at[r] = "ingress" /\ Ingest(r)
    /\ post'[r].via = "server" /\ post'[r].domain = Domain(Segments(request[r].path))
    /\ HttpDone(r, "provider") /\ UNCHANGED <<deployed, cast>>

(* HttpIngressServer::stop: nothing new is accepted; requests under way     *)
(* are cut off where they are waiting, with the runtime they run on.        *)
StopServer ==
    /\ server = "up" /\ server' = "stopped"
    /\ UNCHANGED <<table, at, request, answer, mount, deployed>> /\ UNCHANGED post_vars

-----------------------------------------------------------------------------
HttpNext ==
    \/ StartServer \/ StopServer
    \/ \E r \in Reqs : Receive(r) \/ HandleDeployments(r) \/ ServeFile(r) \/ ToProvider(r)
    \/ /\ \/ \E r \in Reqs : (Ingest(r) /\ post'[r].via = "cli") \/ Handle(r)
          \/ \E f \in cast.refs : Install(f)
       /\ UNCHANGED cast /\ UNCHANGED http

HttpSpec == HttpInit /\ [][HttpNext]_<<post_vars, http>>

-----------------------------------------------------------------------------
(***************************************************************************)
(* A mount whose every request another mount would take as well, but not    *)
(* the other way round, is the narrower one.                                *)
(***************************************************************************)
Covers(m, n) ==
    /\ Len(m.segs) <= Len(n.segs)
    /\ \A k \in DOMAIN m.segs : m.segs[k] \in Templates \/ m.segs[k] = n.segs[k]
Narrower(n, m) == Covers(m, n) /\ ~Covers(n, m)

(***************************************************************************)
(* A mount that the order of the texts treats as its segments: no double    *)
(* slash, no template twice, and no segment that begins with a character    *)
(* after the brace of a template.                                           *)
(***************************************************************************)
Plain(m) ==
    /\ m.path = m.segs
    /\ \A j, k \in DOMAIN m.segs : m.segs[j] \in Templates /\ m.segs[j] = m.segs[k] => j = k
    /\ \A k \in DOMAIN m.segs : m.segs[k] \in Templates \/ Rank[m.segs[k]] < Rank[Team]

(***************************************************************************)
(* The most specific mount answers: of the mounts that fit a request, none  *)
(* is narrower than the one that match_request chose, although validate_plan *)
(* compares the texts of the paths and knows nothing of templates.  The     *)
(* mounts that are not plain are excepted: /docs//{tenant} and              *)
(* /docs/{tenant} come before /docs/acme and /docs/~new in the order of     *)
(* the texts.                                                               *)
(***************************************************************************)
MostSpecificMount ==
    \A r \in Reqs : mount[r] # NoMount /\ Plain(mount[r]) =>
      \A n \in ToSet(table) : Plain(n) /\ Fits(n, Segments(request[r].path)) => ~Narrower(n, mount[r])

(***************************************************************************)
(* The operator's own endpoints stay its own: no mount, template or not,    *)
(* answers in the space of the onboarding and deployment APIs, and nobody   *)
(* but a direct local caller, not even through the tunnel or from a page in *)
(* a local browser, runs a deployment operation.                            *)
(***************************************************************************)
OperatorSpaceKept ==
    /\ \A r \in Reqs : mount[r] # NoMount => ~IsOnboard(request[r].path) /\ ~IsDeployments(request[r].path)
    /\ \A r \in deployed : request[r].client = "local"

(***************************************************************************)
(* Static mounts are rejected where they conflict with the generic ingress  *)
(* prefixes kept by the operator: a webhook of an enabled domain that has a *)
(* provider is never answered with a file.                                  *)
(***************************************************************************)
WebhooksReachable ==
    \A r \in Reqs : mount[r] # NoMount =>
      LET segs == Segments(request[r].path)
      IN  ~(IsWebhook(segs) /\ Domain(segs) \in cast.domains /\ Supported(segs))
=============================================================================
