------------------------------ MODULE Lifecycle ------------------------------
(***************************************************************************)
(* The gateway as a process (src/src/main.rs, src/src/tls.rs): it starts,  *)
(* accepts connections, serves requests on them, and ends, gracefully or   *)
(* not; then it may be started again, with another configuration file or   *)
(* another environment.  Meanwhile the identity provider replaces its      *)
(* keys.                                                                   *)
(*                                                                         *)
(* The request pipeline is the module Gateway.  Here a request is reduced  *)
(* to what it takes from the process: when it has been received, it is     *)
(* authenticated by the backend and charged to the limiters, both made at  *)
(* startup, in one step, and then waits, without a timeout, for the        *)
(* upstream.  The wait for the body between authentication and charge is   *)
(* left to Gateway.                                                        *)
(***************************************************************************)
EXTENDS Startup, Quota, FiniteSets

CONSTANTS
    Files,          \* configuration files an operator may deploy
    Envs,           \* environments the process may be started in
    Documents,      \* key sets the identity provider may publish
    Connections,    \* identities of connections
    Certificates,   \* certificates a client may present
    Requests,       \* requests a client may send, as [authorization, scope]
    MaxStarts,      \* bound on the number of processes
    MaxTime         \* bound on the clock

ASSUME LifecycleBounds == MaxStarts \in Nat /\ MaxTime \in Nat

(* What serde lets pass as a configuration: the modes it knows, entries    *)
(* with a name and scopes, and secrets and budgets that have a value.      *)
ASSUME FilesAssumption ==
    \A file \in Files :
        LET auth == DeserializeAuth(file.auth)
            secrets == {auth.tokens[i].token : i \in DOMAIN auth.tokens}
                           \cup ({Hs256Secret(auth)} \ {None})
        IN  /\ auth.mode \in {"bearer", "jwt", "mtls"}
            /\ \A i \in DOMAIN auth.tokens :
                  auth.tokens[i].name \in Names /\ auth.tokens[i].scopes \subseteq GrantedScopes
            /\ \A i \in DOMAIN auth.mtls :
                  auth.mtls[i].name \in Names /\ auth.mtls[i].scopes \subseteq GrantedScopes
            /\ \A raw \in secrets : raw.text # None
            /\ DeserializeRateLimit(file.ratelimit) \in [Scope -> Nat]

(* A variable that is set has a value. *)
ASSUME EnvsAssumption == \A env \in Envs : \A var \in DOMAIN env : env[var] # None

(* Option::None is no [auth.jwt]: resolving its secret does not lose it. *)
ASSUME NoneIsNoSection ==
    \A file \in Files, env \in Envs : \A loaded \in Load(file, env) :
        file.auth.jwt # None => loaded.auth.jwt # None

ASSUME RequestsAssumption == \A request \in Requests : request.scope \in Scope

VARIABLES
    stage,          \* how far main() is
    exit,           \* how the last process ended
    cut,            \* connections whose request it left unanswered then
    deployed,       \* the file and the environment of the last start
    config,         \* what Config::load made of them
    backend,        \* the authenticator
    app,            \* the AppState
    server,         \* the rustls ServerConfig; None for the plain listener
    metrics,        \* the task that serves /metrics
    full_at,        \* the rate limiters, as in Gateway
    conn,           \* stage of each connection
    peer,           \* client certificate that its handshake verified
    token,          \* Authorization the request in flight is accepted for
    principal,      \* who that request is from
    now,            \* the clock
    published,      \* the key set the identity provider publishes
    offered,        \* key sets it published since the last start
    started,        \* history: starts since each tick
    admitted        \* history: requests admitted since each tick, by limiter cell

connection == <<conn, peer, token, principal>>
process == <<deployed, config, backend, app, server, metrics, full_at>>
history == <<started, admitted>>
world == <<now, published, offered>>
vars == <<stage, exit, cut, deployed, config, backend, app, server, metrics, full_at, conn, peer,
          token, principal, now, published, offered, started, admitted>>

Stage == {"down", "authenticating", "binding", "serving", "draining"}

ExitReason == {"none", "config", "setup", "authenticator", "listener", "accept",
               "stopped", "drained", "killed"}

ConnStage == {"closed", "backlog", "handshaking", "open", "receiving", "awaiting"}

(* The ticks of the clock, and the one after the last. *)
Ticks == 0..(MaxTime + 1)

(* A history with one event more, now. *)
Record(since) == [t \in Ticks |-> IF t <= now THEN since[t] + 1 ELSE since[t]]

Init ==
    /\ stage = "down" /\ exit = "none" /\ cut = {}
    /\ deployed = None /\ config = None /\ backend = None /\ app = None /\ server = None
    /\ metrics = "off"
    /\ full_at = [key \in Keys |-> 0]
    /\ conn = [c \in Connections |-> "closed"]
    /\ peer = [c \in Connections |-> None]
    /\ token = [c \in Connections |-> None]
    /\ principal = [c \in Connections |-> None]
    /\ now = 0
    /\ published \in Documents
    /\ offered = {}
    /\ started = [t \in Ticks |-> 0]
    /\ admitted = [key \in Keys |-> [t \in Ticks |-> 0]]

Goto(c, s) == conn' = [conn EXCEPT ![c] = s]

(* Connections with a request on them, complete or not. *)
InFlight == {c \in Connections : conn[c] \in {"receiving", "awaiting"}}

(* Connections with a request that handle has taken and not answered. *)
Taken == {c \in Connections : conn[c] = "awaiting"}

(* main returns or the process dies: the runtime drops every task, the     *)
(* connections and the metrics server among them.                          *)
Exit(reason) ==
    /\ stage' = "down"
    /\ exit' = reason
    /\ cut' = Taken
    /\ metrics' = "off"
    /\ conn' = [c \in Connections |-> "closed"]
    /\ peer' = [c \in Connections |-> None]
    /\ token' = [c \in Connections |-> None]
    /\ principal' = [c \in Connections |-> None]
    /\ UNCHANGED <<deployed, config, backend, app, server, full_at>>
    /\ UNCHANGED world
    /\ UNCHANGED history

-----------------------------------------------------------------------------
(* Startup. *)

Starts == started[0]

(* main up to build_authenticator: the configuration is loaded and the     *)
(* metrics task spawned, which binds its own address or fails, and which   *)
(* main never looks at again.  All the process keeps in memory is new.     *)
Start ==
    /\ stage = "down"
    /\ Starts < MaxStarts
    /\ \E file \in Files, env \in Envs :
          /\ deployed' = [file |-> file, env |-> env]
          /\ \E loaded \in Load(file, env) : config' = loaded
    /\ stage' = "authenticating"
    /\ exit' = "none"
    /\ cut' = {}
    /\ backend' = None
    /\ app' = None
    /\ server' = None
    /\ metrics' \in {"serving", "failed"}
    /\ full_at' = [key \in Keys |-> 0]
    /\ offered' = {published}
    /\ started' = Record(started)
    /\ UNCHANGED connection
    /\ UNCHANGED <<now, published, admitted>>

(* main gives up before that: the configuration does not load, or the      *)
(* metrics recorder or the HTTP client cannot be set up.                   *)
StartFails ==
    /\ stage = "down"
    /\ Starts < MaxStarts
    /\ \E file \in Files, env \in Envs :
          exit' = IF Load(file, env) = {} THEN "config" ELSE "setup"
    /\ cut' = {}
    /\ started' = Record(started)
    /\ UNCHANGED <<stage, admitted>>
    /\ UNCHANGED process
    /\ UNCHANGED connection
    /\ UNCHANGED world

(* build_authenticator returned an authenticator. *)
Authenticated(authenticator) ==
    /\ backend' = authenticator
    /\ stage' = "binding"
    /\ UNCHANGED <<exit, cut, deployed, config, app, server, metrics, full_at>>
    /\ UNCHANGED connection
    /\ UNCHANGED world
    /\ UNCHANGED history

(* build_authenticator without an await. *)
BuildAuthenticator ==
    /\ stage = "authenticating"
    /\ ~NeedsJwks(config.auth)
    /\ \E authenticator \in FromConfig(config.auth) : Authenticated(authenticator)

(* No [auth.jwt] in JWT mode, or neither a secret nor a URL in it. *)
BuildFails ==
    /\ stage = "authenticating"
    /\ IF NeedsJwks(config.auth)
       THEN config.auth.jwt.jwks_url = None
       ELSE FromConfig(config.auth) = {}
    /\ Exit("authenticator")

(* Mutant: keys an earlier process fetched are good enough. *)
FetchJwksCached ==
    /\ stage = "authenticating"
    /\ NeedsJwks(config.auth)
    /\ config.auth.jwt.jwks_url # None
    /\ \E document \in Documents :
          \E authenticator \in FromJwks(config.auth, document) : Authenticated(authenticator)

(* fetch_jwks: the key set as it is published when it is fetched. *)
FetchJwks ==
    /\ stage = "authenticating"
    /\ NeedsJwks(config.auth)
    /\ config.auth.jwt.jwks_url # None
    /\ \E authenticator \in FromJwks(config.auth, published) : Authenticated(authenticator)

(* The identity provider does not answer, or not with a usable key set. *)
FetchFails ==
    /\ stage = "authenticating"
    /\ NeedsJwks(config.auth)
    /\ config.auth.jwt.jwks_url # None
    /\ Exit("authenticator")

(* main from Proxy::new to the call of serve. *)
Bind ==
    /\ stage = "binding"
    /\ app' = AppState(config, backend, FALSE)
    /\ IF config.tls.enabled
       THEN \E loaded \in LoadServerConfig(config.tls) : server' = loaded
       ELSE server' = None
    /\ stage' = "serving"
    /\ UNCHANGED <<exit, cut, deployed, config, backend, metrics, full_at>>
    /\ UNCHANGED connection
    /\ UNCHANGED world
    /\ UNCHANGED history

(* The address is taken, or the TLS files are unusable. *)
BindFails ==
    /\ stage = "binding"
    /\ Exit("listener")

-----------------------------------------------------------------------------
(* Connections. *)

(* The listener, its address and the process stay as they are. *)
Serving == UNCHANGED <<stage, exit, cut>> /\ UNCHANGED process /\ UNCHANGED world

(* The kernel completes a TCP connection and queues it. *)
Connect(c) ==
    /\ stage = "serving"
    /\ conn[c] = "closed"
    /\ Goto(c, "backlog")
    /\ Serving
    /\ UNCHANGED <<peer, token, principal>>
    /\ UNCHANGED history

(* Mutant: the handshake is done in the accept loop. *)
AcceptInline(c) ==
    /\ stage = "serving"
    /\ conn[c] = "backlog"
    /\ \A other \in Connections : conn[other] # "handshaking"
    /\ Goto(c, IF server = None THEN "open" ELSE "handshaking")
    /\ Serving
    /\ UNCHANGED <<peer, token, principal>>
    /\ UNCHANGED history

(* Mutant: every connection gets limiters of its own. *)
AcceptFresh(c) ==
    /\ stage = "serving"
    /\ conn[c] = "backlog"
    /\ Goto(c, IF server = None THEN "open" ELSE "handshaking")
    /\ full_at' = [key \in Keys |-> 0]
    /\ UNCHANGED <<stage, exit, cut, deployed, config, backend, app, server, metrics>>
    /\ UNCHANGED <<peer, token, principal>>
    /\ UNCHANGED world
    /\ UNCHANGED history

(* The accept loop takes it and spawns its task; over TLS the task starts  *)
(* with the handshake.                                                     *)
Accept(c) ==
    /\ stage = "serving"
    /\ conn[c] = "backlog"
    /\ Goto(c, IF server = None THEN "open" ELSE "handshaking")
    /\ Serving
    /\ UNCHANGED <<peer, token, principal>>
    /\ UNCHANGED history

(* accept() fails.  The TLS loop gives up, and main with it; axum's own    *)
(* loop only tries again.                                                  *)
AcceptFails ==
    /\ stage = "serving"
    /\ server # None
    /\ Exit("accept")

(* Mutant: a certificate is asked for, but not verified. *)
VerifiesAny(roots, certificate) == (certificate = None) <=> (roots = {})

(* rustls: a client certificate is asked for only where there are roots to *)
(* verify it with, and then it has to be there and chain to one of them.   *)
Verifies(roots, certificate) ==
    IF roots = {} THEN certificate = None
    ELSE certificate # None /\ certificate.issuer \in roots

(* serve_connection after the handshake: the identity stays with the       *)
(* connection.                                                             *)
HandshakeOk(c) ==
    /\ conn[c] = "handshaking"
    /\ \E certificate \in Certificates \cup {None} :
          /\ Verifies(server.roots, certificate)
          /\ peer' = [peer EXCEPT ![c] = certificate]
    /\ Goto(c, "open")
    /\ Serving
    /\ UNCHANGED <<token, principal>>
    /\ UNCHANGED history

(* The connection is over: its client went away, at whatever stage, or its *)
(* handshake failed.                                                       *)
Disconnect(c) ==
    /\ conn[c] # "closed"
    /\ Goto(c, "closed")
    /\ peer' = [peer EXCEPT ![c] = None]
    /\ token' = [token EXCEPT ![c] = None]
    /\ principal' = [principal EXCEPT ![c] = None]
    /\ Serving
    /\ UNCHANGED history

-----------------------------------------------------------------------------
(* Requests. *)

(* A client begins to send a request. *)
Begin(c) ==
    /\ conn[c] = "open"
    /\ Goto(c, "receiving")
    /\ Serving
    /\ UNCHANGED <<peer, token, principal>>
    /\ UNCHANGED history

(* The principals the backend accepts for a request on this connection. *)
Accepted(c, authorization) ==
    Authenticate(app, [authorization |-> authorization, certificate |-> peer[c]], now)

(* Authorization and the limiter let a request of this principal pass. *)
Admits(p, scope) ==
    LET n == app.per_minute[scope]
    IN  /\ Satisfies(p, scope)
        /\ n = 0 \/ Conforms(n, full_at[<<scope, p.name>>], now)

(* handle lets the request through. *)
Handle(c) ==
    /\ conn[c] = "receiving"
    /\ \E request \in Requests : \E p \in Accepted(c, request.authorization) :
          LET key == <<request.scope, p.name>>
              n == app.per_minute[request.scope]
          IN
          /\ Admits(p, request.scope)
          /\ full_at' = IF n = 0 THEN full_at
                        ELSE [full_at EXCEPT ![key] = Charge(n, @, now)]
          /\ admitted' = [admitted EXCEPT ![key] = Record(@)]
          /\ token' = [token EXCEPT ![c] = IF app.mode = "mtls" THEN None
                                        ELSE request.authorization]
          /\ principal' = [principal EXCEPT ![c] = p]
    /\ Goto(c, "awaiting")
    /\ UNCHANGED <<stage, exit, cut, deployed, config, backend, app, server, metrics>>
    /\ UNCHANGED <<peer, started>>
    /\ UNCHANGED world

(* Keep-alive, except that a draining server closes after the answer. *)
AfterAnswer == IF stage = "draining" THEN "closed" ELSE "open"

(* handle answers 401, 403 or 429. *)
Refuse(c) ==
    /\ conn[c] = "receiving"
    /\ \E request \in Requests :
          \A p \in Accepted(c, request.authorization) : ~Admits(p, request.scope)
    /\ Goto(c, AfterAnswer)
    /\ Serving
    /\ UNCHANGED <<peer, token, principal>>
    /\ UNCHANGED history

(* The upstream has answered or failed, and the client gets its response. *)
Respond(c) ==
    /\ conn[c] = "awaiting"
    /\ Goto(c, AfterAnswer)
    /\ token' = [token EXCEPT ![c] = None]
    /\ principal' = [principal EXCEPT ![c] = None]
    /\ Serving
    /\ UNCHANGED peer
    /\ UNCHANGED history

-----------------------------------------------------------------------------
(* The end of a process. *)

(* Ctrl-C at the plain listener: it is closed, with what it had queued, and *)
(* the open connections are asked to finish.  Another Ctrl-C does nothing. *)
Drain ==
    /\ stage = "serving"
    /\ server = None
    /\ stage' = "draining"
    /\ conn' = [c \in Connections |-> IF conn[c] = "backlog" THEN "closed" ELSE conn[c]]
    /\ UNCHANGED <<exit, cut, peer, token, principal>>
    /\ UNCHANGED process
    /\ UNCHANGED world
    /\ UNCHANGED history

(* A draining server closes a connection that has no request on it, not     *)
(* even a part of one.                                                     *)
CloseIdle(c) ==
    /\ stage = "draining"
    /\ conn[c] = "open"
    /\ Goto(c, "closed")
    /\ Serving
    /\ UNCHANGED <<peer, token, principal>>
    /\ UNCHANGED history

(* Mutant: main returns as soon as the listener is closed. *)
DrainedAtOnce ==
    /\ stage = "draining"
    /\ Exit("drained")

(* Mutant: main waits for the metrics server as well. *)
DrainedJoiningMetrics ==
    /\ stage = "draining"
    /\ \A c \in Connections : conn[c] = "closed"
    /\ metrics = "failed"
    /\ Exit("drained")

(* axum's serve returns when the last connection is gone. *)
Drained ==
    /\ stage = "draining"
    /\ \A c \in Connections : conn[c] = "closed"
    /\ Exit("drained")

(* Ctrl-C at the TLS listener: its loop returns at once. *)
Stop ==
    /\ stage = "serving"
    /\ server # None
    /\ Exit("stopped")

(* SIGTERM, which nothing handles, a crash, or Ctrl-C before anything      *)
(* listens for it.                                                         *)
Kill ==
    /\ stage # "down"
    /\ Exit("killed")

-----------------------------------------------------------------------------
(* The world outside. *)

Tick ==
    /\ now < MaxTime
    /\ now' = now + 1
    /\ UNCHANGED <<stage, exit, cut, published, offered>>
    /\ UNCHANGED process
    /\ UNCHANGED connection
    /\ UNCHANGED history

(* The identity provider publishes other keys. *)
Rotate ==
    /\ \E document \in Documents \ {published} :
          /\ published' = document
          /\ offered' = offered \cup {document}
    /\ UNCHANGED <<stage, exit, cut, now>>
    /\ UNCHANGED process
    /\ UNCHANGED connection
    /\ UNCHANGED history

Next ==
    \/ Start \/ StartFails
    \/ BuildAuthenticator \/ BuildFails \/ FetchJwks \/ FetchFails
    \/ Bind \/ BindFails
    \/ \E c \in Connections :
          \/ Connect(c) \/ Accept(c) \/ HandshakeOk(c) \/ Disconnect(c)
          \/ Begin(c) \/ Handle(c) \/ Refuse(c) \/ Respond(c) \/ CloseIdle(c)
    \/ AcceptFails \/ Drain \/ Drained \/ Stop \/ Kill
    \/ Tick \/ Rotate

Spec == Init /\ [][Next]_vars

(* The runtime keeps polling the accept loop, the drain and the idle       *)
(* connections of a draining server.  Clients, upstreams, the identity     *)
(* provider and the operator promise nothing.                              *)
FairSpec ==
    /\ Spec
    /\ WF_vars(Drained)
    /\ \A c \in Connections : WF_vars(Accept(c)) /\ WF_vars(CloseIdle(c))

-----------------------------------------------------------------------------
(* Properties. *)

(* Every variable of the process keeps its type. *)
TypeOK ==
    /\ stage \in Stage /\ exit \in ExitReason /\ cut \subseteq Connections
    /\ metrics \in {"off", "serving", "failed"}
    /\ full_at \in [Keys -> Nat]
    /\ conn \in [Connections -> ConnStage]
    /\ peer \in [Connections -> Certificates \cup {None}]
    /\ token \in [Connections -> {request.authorization : request \in Requests} \cup {None}]
    /\ principal \in [Connections -> Principal \cup {None}]
    /\ now \in 0..MaxTime /\ published \in Documents /\ offered \subseteq Documents
    /\ started \in [Ticks -> Nat]
    /\ admitted \in [Keys -> [Ticks -> Nat]]

(* The request in flight on a connection was accepted as somebody's. *)
Known(c) == conn[c] = "awaiting" /\ principal[c] # Anonymous

(* The values the deployed file and environment give to a secret. *)
Configured(secrets) ==
    {raw.text : raw \in {s \in secrets : s.var = None}}
    \cup {deployed.env[var] : var \in DOMAIN deployed.env \cap {raw.var : raw \in secrets}}

(* Secrets are those of this process's environment: what a caller is       *)
(* accepted with is a value that the deployed file spells out or that the  *)
(* environment had at the last start, never the text of a reference, nor a *)
(* value from before the restart (Config::resolve_secrets).                *)
SecretsCurrent ==
    \A c \in Connections :
        LET auth == DeserializeAuth(deployed.file.auth)
        IN  Known(c) =>
               /\ auth.mode = "bearer" =>
                     token[c].token \in Configured({auth.tokens[i].token : i \in DOMAIN auth.tokens})
               /\ auth.mode = "jwt" /\ Hs256Secret(auth) # None =>
                     Jwt[token[c].token].key \in Configured({Hs256Secret(auth)})

(* A JWT is accepted only if the identity provider has published its key   *)
(* at some time since this process started, in a key set whose first       *)
(* usable algorithm is the token's: a key withdrawn before the last        *)
(* restart is refused, one withdrawn later may still be good               *)
(* (build_authenticator fetches once), and keys of another family than the *)
(* first verify nothing (keys_from_jwks).                                  *)
KeyPublished ==
    \A c \in Connections :
        Known(c) /\ NeedsJwks(config.auth) =>
            \E document \in offered :
                LET usable == {i \in DOMAIN document : document[i].alg \in Algorithm}
                    claims == Jwt[token[c].token]
                IN  /\ \E i \in DOMAIN document : document[i].id = claims.key
                    /\ \E i \in usable : /\ document[i].alg = claims.alg
                                         /\ \A j \in usable : i <= j

(* An mTLS principal comes with a certificate that chains to the           *)
(* configured CA.  Where the listener does not verify client certificates  *)
(* (no TLS, or require_client_cert off), mode mtls knows nobody.           *)
IdentityVerified ==
    \A c \in Connections :
        Known(c) /\ config.auth.mode = "mtls" =>
            /\ config.tls.enabled /\ config.tls.require_client_cert
            /\ peer[c].issuer \in Pem[config.tls.client_ca].certs

(* The admissions under a key in the ticks from..to. *)
AdmittedIn(key, from, to) == admitted[key][from] - admitted[key][to + 1]

StartedIn(from, to) == started[from] - started[to + 1]

(* The budgets that the files which may be deployed give to a scope. *)
Budgets == [scope \in Scope |-> {Deserialize(file).per_minute[scope] : file \in Files}]

(* Processes that may have been up in the ticks from..to: those started in *)
(* them, and one that was there before.                                    *)
UpIn(from, to) ==
    StartedIn(from, to) + (IF StartedIn(0, from - 1) > 0 THEN 1 ELSE 0)

(* The limiters are one per process: in any window, a principal gets what  *)
(* replenishes during it and one burst for each process that was up, over  *)
(* however many connections (the clones of the Router share AppState, and  *)
(* AppState::new starts with full buckets).  All files have one budget.    *)
BudgetPerProcess ==
    \A key \in Keys, from \in 0..MaxTime : \A n \in Budgets[key[1]] :
        n # 0 /\ Budgets[key[1]] = {n} =>
            \A to \in from..MaxTime :
                AdmittedIn(key, from, to) * Cell(n)
                    <= UpIn(from, to) * n * Cell(n) + (to - from)

(* A plain gateway that was asked to shut down answers every request it    *)
(* has taken before its process ends (with_graceful_shutdown).             *)
PlainShutdownDrains ==
    exit \in {"drained", "stopped"} /\ ~config.tls.enabled => cut = {}

(* A queued connection is accepted, or refused by the end of the listener, *)
(* whatever the other connections do: a handshake that never finishes      *)
(* holds up its own task only (serve).                                     *)
AcceptsPromptly ==
    \A c \in Connections : conn[c] = "backlog" ~> conn[c] # "backlog"

(* A graceful shutdown ends, whatever became of the metrics task, as long  *)
(* as no request stays in flight for ever: its client completes it and the *)
(* upstream answers (the code sets a timeout on neither).                  *)
ShutdownCompletes ==
    (\A c \in Connections : []<>(c \notin InFlight))
        => (stage = "draining" ~> stage = "down")

-----------------------------------------------------------------------------
(* What the README says that the code does not keep.                       *)

(* "axum service + graceful shutdown" (README.md): a shutdown cuts off no  *)
(* request in flight.  Not over TLS.                                       *)
GracefulShutdown == exit \in {"drained", "stopped"} => cut = {}
=============================================================================
