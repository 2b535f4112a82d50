--------------------------- MODULE DashboardGuards ----------------------------
(***************************************************************************)
(* Which requests reach a handler of the dashboard: the router that        *)
(* DashboardServer::create_app builds (dashboard/server.rs) and its two    *)
(* guards (dashboard/auth.rs).                                             *)
(*                                                                         *)
(* A header is absent, or says what its field tells: the Authorization     *)
(* header whether it has the scheme of the configured guard and the right  *)
(* secret, Origin and Referer whose authority they name ("opaque": none,   *)
(* like the Origin "null").                                                *)
(***************************************************************************)
EXTENDS Integers, Sequences

Absent == "absent"

\* The host of DashboardConfig: an address, or a name (or unbracketed IPv6
\* address) that is recognised as loopback and does not parse as an address.
Hosts == {"loopback address", "loopback name", "public address"}
Auths == {Absent, "basic", "bearer"}
Configs == [host: Hosts, auth: Auths, metrics: BOOLEAN, metrics_skip_auth: BOOLEAN]

\* DashboardConfig::default.
DefaultConfig == [host |-> "loopback address", auth |-> Absent,
                  metrics |-> FALSE, metrics_skip_auth |-> FALSE]

IsLoopbackHost(host) == host \in {"loopback address", "loopback name"}

\* run_until_cancelled up to the first task it starts.
MayStart(config) == config.auth # Absent \/ IsLoopbackHost(config.host)
AddressParses(config) == config.host # "loopback name"

\* The routes, by what their handlers do.
Routes == {"read", "retry", "delete", "page", "ws", "metrics"}
MethodOf(route) == CASE route = "retry"  -> "POST"
                     [] route = "delete" -> "DELETE"
                     [] OTHER            -> "GET"

Authorizations == [scheme: {Absent, "basic", "bearer"}, right: BOOLEAN]
Sources == {Absent, "opaque", "same", "other"}
Requests == [route: Routes, authorization: Authorizations, origin: Sources, referer: Sources]

\* require_auth with check_basic and check_bearer.
RequireAuth(config, req) ==
    /\ req.authorization.scheme # Absent
    /\ req.authorization.scheme = config.auth
    /\ req.authorization.right

\* Mutant: a Referer of this host makes up for an Origin of another.
CsrfGuardEither(req) ==
    MethodOf(req.route) \in {"POST", "PUT", "PATCH", "DELETE"} =>
        "same" \in {req.origin, req.referer}

\* csrf_guard: the Referer counts only where there is no Origin.
CsrfGuard(req) ==
    MethodOf(req.route) \in {"POST", "PUT", "PATCH", "DELETE"} =>
        (IF req.origin # Absent THEN req.origin ELSE req.referer) = "same"

\* The layers around a route, outermost first: the one added last comes first.
Layers(config, route) ==
    IF route = "metrics" /\ config.metrics_skip_auth THEN <<>>
    ELSE (IF config.auth # Absent THEN <<"require_auth">> ELSE <<>>) \o <<"csrf_guard">>

Passes(layer, config, req) ==
    IF layer = "require_auth" THEN RequireAuth(config, req) ELSE CsrfGuard(req)

\* What answers a request: the first layer that keeps it, or its handler.
Respond(config, req) ==
    LET layers == Layers(config, req.route)
        kept == {i \in 1..Len(layers) : ~Passes(layers[i], config, req)}
    IN  IF req.route = "metrics" /\ ~config.metrics THEN "not found"
        ELSE IF kept = {} THEN "handled"
        ELSE layers[CHOOSE i \in kept : \A k \in kept : i <= k]

\* What the guards are there to find out about a request.
Anonymous(config, req) == req.authorization # [scheme |-> config.auth, right |-> TRUE]
Foreign(req) == ~(req.origin = "same" \/ (req.origin = Absent /\ req.referer = "same"))
===============================================================================
