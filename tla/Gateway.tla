------------------------------- MODULE Gateway -------------------------------
(***************************************************************************)
(* The request pipeline of indexer-gateway-auth (handle in                 *)
(* src/src/server.rs) with the state its requests share.                   *)
(*                                                                         *)
(* Each request runs its own handler future.  pc[r] is the next stage of   *)
(* that handler; stages of different handlers interleave.  The handler     *)
(* suspends at two awaits only: reading the body, and waiting for the      *)
(* upstream.  There, and nowhere else, a client that disconnects makes the *)
(* server drop the future (Cancel).  Requests that were sent stay with the *)
(* upstream whatever becomes of the handler.                               *)
(***************************************************************************)
EXTENDS Authn, Classify, Authz, Proxy, Quota, FiniteSets

CONSTANTS
    Requests,       \* identities of the requests clients may send
    Inputs,         \* the requests they may be
    Configs,        \* the configurations the gateway may be started with
    Statuses,       \* statuses an upstream may answer with
    SinkFaults,     \* TRUE: writing an audit line may fail
    MaxTime         \* bound on the clock

ASSUME ConfigsAssumption ==
    \A c \in Configs :
        /\ c.mode \in {"bearer", "jwt", "mtls"}
        /\ \A i \in DOMAIN c.tokens :
              c.tokens[i].name \in Names /\ c.tokens[i].scopes \subseteq GrantedScopes
        /\ \A i \in DOMAIN c.mtls :
              c.mtls[i].name \in Names /\ c.mtls[i].scopes \subseteq GrantedScopes
        /\ c.per_minute \in [Scope -> Nat]

ASSUME InputsAssumption ==
    /\ None \notin Inputs
    /\ \A input \in Inputs :
          /\ \A req \in input.body.requests : req.operations \subseteq OperationInfo
          /\ input.authorization # None => input.authorization.token # None
          /\ input.certificate # None => input.certificate.subjects # None

ASSUME StatusesAssumption ==
    /\ Statuses \cap {"NoUpstream", "Upstream"} = {}
    /\ None \notin Statuses \cup {"NoUpstream", "Upstream"}

ASSUME GatewayBounds == SinkFaults \in BOOLEAN /\ MaxTime \in Nat

VARIABLES
    config,         \* the Config and AppOptions loaded at startup
    now,            \* the clock
    full_at,        \* rate limiters: when the bucket of each key is full
    counters,       \* the metrics counters
    audit,          \* the audit lines written for each request
    lost,           \* requests whose audit line the sink failed to write
    pc,             \* stage of each request's handler
    request,        \* the request as received
    principal,      \* result of stage 1
    classification, \* result of stage 3
    checked,        \* when the rate limiter was asked (stage 4b)
    upstream,       \* what the upstream did: "none", "sent", "executed"
    result,         \* what forward() returned: a status or a ProxyError
    response        \* what the client was answered

shared == <<config, now, full_at, counters, audit, lost>>
handler == <<pc, request, principal, classification, checked, upstream, result, response>>
vars == <<config, now, full_at, counters, audit, lost, pc, request, principal,
          classification, checked, upstream, result, response>>

Stage == {"idle", "reading_body", "classifying", "authorizing", "limiting",
          "forwarding", "awaiting", "unroutable", "answered", "cancelled"}

Counter == {"auth_failures", "parse_errors", "authz_denied", "rate_limited",
            "requests"}

ProxyError == {"NoUpstream", "Upstream"}

(* Statuses of the gateway's own answers. *)
GatewayStatus == {"200", "400", "401", "403", "404", "405", "413", "429", "502"}

Outcome == {"allowed", "denied", "auth_failed", "rejected", "rate_limited"}

Response == [status : Statuses \cup GatewayStatus, from : {"gateway", "upstream"}]

(* Option::None is none of the values an Option may hold. *)
ASSUME NoneIsNoValue == None \notin Response /\ None \notin Nat

Init ==
    /\ config \in Configs
    /\ now = 0
    /\ full_at = [key \in Keys |-> 0]
    /\ counters = [c \in Counter |-> 0]
    /\ audit = [r \in Requests |-> <<>>]
    /\ lost = {}
    /\ pc = [r \in Requests |-> "idle"]
    /\ request = [r \in Requests |-> None]
    /\ principal = [r \in Requests |-> None]
    /\ classification = [r \in Requests |-> None]
    /\ checked = [r \in Requests |-> None]
    /\ upstream = [r \in Requests |-> "none"]
    /\ result = [r \in Requests |-> None]
    /\ response = [r \in Requests |-> None]

-----------------------------------------------------------------------------
(* Steps shared by the stages. *)

Goto(r, stage) == pc' = [pc EXCEPT ![r] = stage]

(* error_response and relay_response: the handler ends with an answer. *)
Answer(r, status, from) ==
    /\ Goto(r, "answered")
    /\ response' = [response EXCEPT ![r] = [status |-> status, from |-> from]]

Count(counter) == counters' = [counters EXCEPT ![counter] = @ + 1]

(* AuditSink::emit: an I/O error is logged and the line is gone; nothing   *)
(* else in the handler depends on it.                                      *)
Emit(r, line) ==
    \/ /\ audit' = [audit EXCEPT ![r] = Append(@, line)]
       /\ UNCHANGED lost
    \/ /\ SinkFaults
       /\ lost' = lost \cup {r}
       /\ UNCHANGED audit

(* top_fields of a classification. *)
TopFields(c) == UNION {op.top_level_fields : op \in c.operations}

(* An audit line about a request that was not classified. *)
BareLine(name, outcome) ==
    [principal |-> name, scope |-> None, fields |-> {}, outcome |-> outcome,
     upstream_status |-> None]

(* An audit line about a classified request. *)
ClassifiedLine(r, outcome, status) ==
    [principal |-> principal[r].name, scope |-> classification[r].scope,
     fields |-> TopFields(classification[r]), outcome |-> outcome,
     upstream_status |-> status]

-----------------------------------------------------------------------------
(* 1. Authentication. *)

(* A request arrives; /healthz and /readyz have a route of their own. *)
Probe(r) ==
    /\ pc[r] = "idle"
    /\ \E input \in Inputs :
          /\ input.path.prefix = "/healthz"
          /\ request' = [request EXCEPT ![r] = input]
          /\ Answer(r, IF input.method \in {"GET", "HEAD"} THEN "200" ELSE "405", "gateway")
    /\ UNCHANGED shared
    /\ UNCHANGED <<principal, classification, checked, upstream, result>>

(* A request arrives with credentials the backend accepts, or anonymously. *)
Accept(r) ==
    /\ pc[r] = "idle"
    /\ \E input \in Inputs :
          /\ input.path.prefix # "/healthz"
          /\ request' = [request EXCEPT ![r] = input]
          /\ \E p \in Authenticate(config, input, now) :
                principal' = [principal EXCEPT ![r] = p]
    /\ Goto(r, "reading_body")
    /\ UNCHANGED shared
    /\ UNCHANGED <<classification, checked, upstream, result, response>>

(* A request arrives that authentication refuses: 401. *)
Unauthorized(r) ==
    /\ pc[r] = "idle"
    /\ \E input \in Inputs :
          /\ input.path.prefix # "/healthz"
          /\ request' = [request EXCEPT ![r] = input]
          /\ Authenticate(config, input, now) = {}
    /\ Emit(r, BareLine("-", "auth_failed"))
    /\ Count("auth_failures")
    /\ Answer(r, "401", "gateway")
    /\ UNCHANGED <<config, now, full_at>>
    /\ UNCHANGED <<principal, classification, checked, upstream, result>>

-----------------------------------------------------------------------------
(* 2. The body, read once. *)

ReadBody(r) ==
    /\ pc[r] = "reading_body"
    /\ request[r].body.size = "within_limit"
    /\ Goto(r, "classifying")
    /\ UNCHANGED shared
    /\ UNCHANGED <<request, principal, classification, checked, upstream, result, response>>

(* to_bytes fails: the body is over the limit, or its stream broke off.    *)
(* Either is a 413, with no audit line and no counter.                     *)
BodyFails(r) ==
    /\ pc[r] = "reading_body"
    /\ Answer(r, "413", "gateway")
    /\ UNCHANGED shared
    /\ UNCHANGED <<request, principal, classification, checked, upstream, result>>

-----------------------------------------------------------------------------
(* 3. Classification. *)

ReadOnly == [operations |-> {}, scope |-> "read"]
WriteOnly == [operations |-> {}, scope |-> "write"]

(* Mutant: the admin endpoint is classified like any other. *)
ClassifyRequestUnrouted(method, target, body, fail_closed) ==
    IF method = "GET" THEN {ReadOnly}
    ELSE IF Classifiable(body) THEN {Classification(body)}
    ELSE IF fail_closed THEN {} ELSE {ReadOnly}

(* classify_request: the classification, or {} for Err. *)
ClassifyRequest(method, target, body, fail_closed) ==
    IF method = "GET" THEN {ReadOnly}
    ELSE IF target = "GraphNodeAdmin" THEN {WriteOnly}
    ELSE IF Classifiable(body) THEN {Classification(body)}
    ELSE IF fail_closed THEN {} ELSE {ReadOnly}

(* classify_request as stage 3 calls it. *)
Classified(r) ==
    ClassifyRequest(request[r].method, Route(request[r].path), request[r].body,
                    config.fail_closed_on_parse_error)

ClassifyOk(r) ==
    /\ pc[r] = "classifying"
    /\ \E c \in Classified(r) :
          classification' = [classification EXCEPT ![r] = c]
    /\ Goto(r, "authorizing")
    /\ UNCHANGED shared
    /\ UNCHANGED <<request, principal, checked, upstream, result, response>>

(* 400: audited without a classification. *)
Reject(r) ==
    /\ pc[r] = "classifying"
    /\ Classified(r) = {}
    /\ Emit(r, BareLine(principal[r].name, "rejected"))
    /\ Count("parse_errors")
    /\ Answer(r, "400", "gateway")
    /\ UNCHANGED <<config, now, full_at>>
    /\ UNCHANGED <<request, principal, classification, checked, upstream, result>>

-----------------------------------------------------------------------------
(* 4. Authorization. *)

MissingScopes(r) == Missing(principal[r], classification[r], config.overrides)

AuthorizeOk(r) ==
    /\ pc[r] = "authorizing"
    /\ MissingScopes(r) = {}
    /\ Goto(r, "limiting")
    /\ UNCHANGED shared
    /\ UNCHANGED <<request, principal, classification, checked, upstream, result, response>>

(* Mutant: 403 on the wire, but the handler goes on. *)
DenyAndContinue(r) ==
    /\ pc[r] = "authorizing"
    /\ MissingScopes(r) # {}
    /\ Emit(r, ClassifiedLine(r, "denied", None))
    /\ Count("authz_denied")
    /\ Goto(r, "limiting")
    /\ response' = [response EXCEPT ![r] = [status |-> "403", from |-> "gateway"]]
    /\ UNCHANGED <<config, now, full_at>>
    /\ UNCHANGED <<request, principal, classification, checked, upstream, result>>

Deny(r) ==
    /\ pc[r] = "authorizing"
    /\ MissingScopes(r) # {}
    /\ Emit(r, ClassifiedLine(r, "denied", None))
    /\ Count("authz_denied")
    /\ Answer(r, "403", "gateway")
    /\ UNCHANGED <<config, now, full_at>>
    /\ UNCHANGED <<request, principal, classification, checked, upstream, result>>

-----------------------------------------------------------------------------
(* 4b. Rate limiting, per scope and principal name. *)

(* RateLimiters::check picks the scope's limiter and keys it by name. *)
Key(r) == <<classification[r].scope, principal[r].name>>

(* A budget of 0 is no limiter at all. *)
Budget(r) == config.per_minute[classification[r].scope]

LimitOk(r) ==
    /\ pc[r] = "limiting"
    /\ \/ /\ Budget(r) = 0
          /\ UNCHANGED full_at
       \/ /\ Budget(r) # 0
          /\ Conforms(Budget(r), full_at[Key(r)], now)
          /\ full_at' = [full_at EXCEPT ![Key(r)] = Charge(Budget(r), @, now)]
    /\ checked' = [checked EXCEPT ![r] = now]
    /\ Goto(r, "forwarding")
    /\ UNCHANGED <<config, now, counters, audit, lost>>
    /\ UNCHANGED <<request, principal, classification, upstream, result, response>>

(* Mutant: a refused request is charged all the same. *)
LimitExceededCharging(r) ==
    /\ pc[r] = "limiting"
    /\ Budget(r) # 0
    /\ ~Conforms(Budget(r), full_at[Key(r)], now)
    /\ full_at' = [full_at EXCEPT ![Key(r)] = Charge(Budget(r), @, now)]
    /\ checked' = [checked EXCEPT ![r] = now]
    /\ Emit(r, ClassifiedLine(r, "rate_limited", None))
    /\ Count("rate_limited")
    /\ Answer(r, "429", "gateway")
    /\ UNCHANGED <<config, now>>
    /\ UNCHANGED <<request, principal, classification, upstream, result>>

LimitExceeded(r) ==
    /\ pc[r] = "limiting"
    /\ Budget(r) # 0
    /\ ~Conforms(Budget(r), full_at[Key(r)], now)
    /\ checked' = [checked EXCEPT ![r] = now]
    /\ Emit(r, ClassifiedLine(r, "rate_limited", None))
    /\ Count("rate_limited")
    /\ Answer(r, "429", "gateway")
    /\ UNCHANGED <<config, now, full_at>>
    /\ UNCHANGED <<request, principal, classification, upstream, result>>

-----------------------------------------------------------------------------
(* 5. Forwarding, and what the upstream does with the request. *)

(* Proxy::forward up to its await: the request is on its way. *)
Forward(r) ==
    /\ pc[r] = "forwarding"
    /\ HasBase(config.upstreams, Route(request[r].path))
    /\ upstream' = [upstream EXCEPT ![r] = "sent"]
    /\ Goto(r, "awaiting")
    /\ UNCHANGED shared
    /\ UNCHANGED <<request, principal, classification, checked, result, response>>

(* Mutant: the handler waits for an upstream to be configured. *)
NoUpstreamRetried(r) ==
    /\ pc[r] = "forwarding"
    /\ ~HasBase(config.upstreams, Route(request[r].path))
    /\ UNCHANGED vars

(* base_for fails before anything is awaited. *)
NoUpstream(r) ==
    /\ pc[r] = "forwarding"
    /\ ~HasBase(config.upstreams, Route(request[r].path))
    /\ result' = [result EXCEPT ![r] = "NoUpstream"]
    /\ Goto(r, "unroutable")
    /\ UNCHANGED shared
    /\ UNCHANGED <<request, principal, classification, checked, upstream, response>>

(* The upstream carries the request out, whether or not anyone still waits *)
(* for the answer.                                                         *)
UpstreamExecutes(r) ==
    /\ upstream[r] = "sent"
    /\ result[r] \notin Statuses
    /\ upstream' = [upstream EXCEPT ![r] = "executed"]
    /\ UNCHANGED shared
    /\ UNCHANGED <<pc, request, principal, classification, checked, result, response>>

(* Its complete response arrives while the handler waits. *)
UpstreamAnswers(r) ==
    /\ pc[r] = "awaiting"
    /\ result[r] = None
    /\ \E status \in Statuses : result' = [result EXCEPT ![r] = status]
    /\ UNCHANGED shared
    /\ UNCHANGED <<pc, request, principal, classification, checked, upstream, response>>

(* send() or bytes() fails: before the upstream executed, or after. *)
UpstreamFails(r) ==
    /\ pc[r] = "awaiting"
    /\ result[r] = None
    /\ result' = [result EXCEPT ![r] = "Upstream"]
    /\ UNCHANGED shared
    /\ UNCHANGED <<pc, request, principal, classification, checked, upstream, response>>

(* Mutant: writes are audited only where reads are. *)
RelayUnaudited(r) ==
    /\ pc[r] = "awaiting"
    /\ result[r] \in Statuses
    /\ Count("requests")
    /\ IF config.audit_reads
       THEN Emit(r, ClassifiedLine(r, "allowed", result[r]))
       ELSE UNCHANGED <<audit, lost>>
    /\ Answer(r, result[r], "upstream")
    /\ UNCHANGED <<config, now, full_at>>
    /\ UNCHANGED <<request, principal, classification, checked, upstream, result>>

(* The Ok arm: metrics, the audit line of a write, the relayed response. *)
Relay(r) ==
    /\ pc[r] = "awaiting"
    /\ result[r] \in Statuses
    /\ Count("requests")
    /\ IF classification[r].scope = "write" \/ config.audit_reads
       THEN Emit(r, ClassifiedLine(r, "allowed", result[r]))
       ELSE UNCHANGED <<audit, lost>>
    /\ Answer(r, result[r], "upstream")
    /\ UNCHANGED <<config, now, full_at>>
    /\ UNCHANGED <<request, principal, classification, checked, upstream, result>>

(* Mutant: failed requests are not counted. *)
FailUncounted(r) ==
    /\ pc[r] \in {"awaiting", "unroutable"}
    /\ result[r] \in ProxyError
    /\ Emit(r, ClassifiedLine(r, "allowed", None))
    /\ Answer(r, IF result[r] = "NoUpstream" THEN "404" ELSE "502", "gateway")
    /\ UNCHANGED <<config, now, full_at, counters>>
    /\ UNCHANGED <<request, principal, classification, checked, upstream, result>>

(* Mutant: a request that came to nothing gets its charge back. *)
FailRefunding(r) ==
    /\ pc[r] \in {"awaiting", "unroutable"}
    /\ result[r] \in ProxyError
    /\ Count("requests")
    /\ full_at' = [full_at EXCEPT ![Key(r)] = @ - Cell(Budget(r))]
    /\ Emit(r, ClassifiedLine(r, "allowed", None))
    /\ Answer(r, IF result[r] = "NoUpstream" THEN "404" ELSE "502", "gateway")
    /\ UNCHANGED <<config, now>>
    /\ UNCHANGED <<request, principal, classification, checked, upstream, result>>

(* The Err arm: 404 or 502, always audited. *)
Fail(r) ==
    /\ pc[r] \in {"awaiting", "unroutable"}
    /\ result[r] \in ProxyError
    /\ Count("requests")
    /\ Emit(r, ClassifiedLine(r, "allowed", None))
    /\ Answer(r, IF result[r] = "NoUpstream" THEN "404" ELSE "502", "gateway")
    /\ UNCHANGED <<config, now, full_at>>
    /\ UNCHANGED <<request, principal, classification, checked, upstream, result>>

-----------------------------------------------------------------------------
(* The client goes away while the handler waits: its future is dropped. *)
Cancel(r) ==
    /\ pc[r] \in {"reading_body", "awaiting"}
    /\ Goto(r, "cancelled")
    /\ UNCHANGED shared
    /\ UNCHANGED <<request, principal, classification, checked, upstream, result, response>>

Tick ==
    /\ now < MaxTime
    /\ now' = now + 1
    /\ UNCHANGED <<config, full_at, counters, audit, lost>>
    /\ UNCHANGED handler

(* Every request is over and the clock has run out. *)
Quiescent ==
    /\ now = MaxTime
    /\ \A r \in Requests : pc[r] \in {"answered", "cancelled"}
    /\ UNCHANGED vars

(* The steps the gateway's own code takes without waiting for anyone. *)
Step(r) ==
    \/ ClassifyOk(r) \/ Reject(r)
    \/ AuthorizeOk(r) \/ Deny(r)
    \/ LimitOk(r) \/ LimitExceeded(r)
    \/ Forward(r) \/ NoUpstream(r)
    \/ Relay(r) \/ Fail(r)

(* Steps of clients and upstreams. *)
Arrive(r) == Probe(r) \/ Accept(r) \/ Unauthorized(r)
Body(r) == ReadBody(r) \/ BodyFails(r)
Upstream(r) == UpstreamExecutes(r) \/ UpstreamAnswers(r) \/ UpstreamFails(r)

Next ==
    \/ \E r \in Requests : Arrive(r) \/ Body(r) \/ Step(r) \/ Upstream(r) \/ Cancel(r)
    \/ Tick
    \/ Quiescent

Spec == Init /\ [][Next]_vars

(* The runtime polls every handler that can go on.  Clients and upstreams  *)
(* promise nothing: the code sets no timeout on either.                    *)
FairSpec == Spec /\ \A r \in Requests : WF_vars(Step(r))

-----------------------------------------------------------------------------
(* Properties. *)

Line == [principal : Names \cup {"-"}, scope : Scope \cup {None},
         fields : SUBSET Fields, outcome : Outcome,
         upstream_status : Statuses \cup {None}]

(* Every variable of the pipeline keeps its type. *)
TypeOK ==
    /\ config \in Configs
    /\ now \in 0..MaxTime
    /\ full_at \in [Keys -> Nat]
    /\ counters \in [Counter -> Nat]
    /\ audit \in [Requests -> Seq(Line)]
    /\ lost \subseteq Requests
    /\ pc \in [Requests -> Stage]
    /\ request \in [Requests -> Inputs \cup {None}]
    /\ principal \in [Requests -> Principal \cup {None}]
    /\ classification \in [Requests -> ClassificationType \cup {None}]
    /\ checked \in [Requests -> 0..MaxTime \cup {None}]
    /\ upstream \in [Requests -> {"none", "sent", "executed"}]
    /\ result \in [Requests -> Statuses \cup ProxyError \cup {None}]
    /\ response \in [Requests -> Response \cup {None}]

(* The gateway itself answered the request with this status. *)
Refused(r, status) ==
    response[r] # None /\ response[r].from = "gateway" /\ response[r].status = status

(* The request carries a credential of the kind the gateway looks at. *)
Carries(c, input) ==
    IF c.mode = "mtls"
    THEN input.certificate # None /\ input.certificate.parses
    ELSE input.authorization # None /\ input.authorization.scheme = "Bearer"

(* A token of one of the keys, by the one algorithm, for this gateway as   *)
(* far as it says for whom it is, and neither expired nor too early.       *)
ValidAt(claims, jwt, time) ==
    /\ claims.key \in jwt.keys /\ claims.alg = jwt.algorithm
    /\ claims.iss \in {jwt.issuer, None} /\ claims.aud \in {jwt.audience, None}
    /\ time <= claims.exp + Leeway /\ claims.nbf <= time + Leeway

(* Reference: whom the credential of a request stands for at some time,    *)
(* read off the configuration; at most one principal.  The last of several *)
(* entries for a token counts, the first of several mappings that fit a    *)
(* certificate, and what a valid token says of itself.                     *)
Holders(c, input, time) ==
    CASE ~Carries(c, input) -> {}
      [] Carries(c, input) /\ c.mode = "bearer" ->
           LET entries == {i \in DOMAIN c.tokens : c.tokens[i].token = input.authorization.token}
           IN  {[name |-> c.tokens[i].name, scopes |-> c.tokens[i].scopes] :
                   i \in {j \in entries : \A k \in entries : k <= j}}
      [] Carries(c, input) /\ c.mode = "mtls" ->
           LET fits == {i \in DOMAIN c.mtls : c.mtls[i].subject \in input.certificate.subjects}
           IN  {[name |-> c.mtls[i].name, scopes |-> c.mtls[i].scopes] :
                   i \in {j \in fits : \A k \in fits : j <= k}}
      [] Carries(c, input) /\ c.mode = "jwt" ->
           {[name |-> IF Jwt[t].sub = None THEN "jwt" ELSE Jwt[t].sub,
             scopes |-> ExtractScopes(Jwt[t].scopes)] :
               t \in {u \in DOMAIN Jwt \cap {input.authorization.token} :
                          ValidAt(Jwt[u], c.jwt, time)}}

(* The scopes the credential of a request is worth at some time. *)
GrantsOf(c, input) ==
    {scope \in GrantedScopes :
        \E time \in 0..MaxTime : \E p \in Holders(c, input, time) : scope \in p.scopes}

(* What the upstream may change when it executes a request: by JSON-RPC    *)
(* calls on the admin endpoint, by GraphQL mutations elsewhere.  Over GET  *)
(* it only reads.                                                          *)
Mutates(input) ==
    /\ input.method # "GET"
    /\ \/ Route(input.path) = "GraphNodeAdmin"
       \/ \E op \in ExecutableOperations(input.body) : op.kind = "mutation"

(* No unauthorized mutation: when the upstream executes a request that may *)
(* mutate, the configuration grants write to the credential that request   *)
(* carried, whichever of its operations the upstream picked.  Bodies the   *)
(* classifier cannot read count too as long as the gateway is configured   *)
(* to fail closed.                                                         *)
MutationNeedsWrite ==
    \A r \in Requests :
        upstream[r] = "executed" /\ Mutates(request[r])
            /\ (config.fail_closed_on_parse_error \/ Classifiable(request[r].body)
                    \/ Route(request[r].path) = "GraphNodeAdmin")
        => "write" \in GrantsOf(config, request[r])

(* The override is about the operation: it names its field, its name or    *)
(* both, and nothing that is not there.                                    *)
Concerns(ov, op) ==
    /\ {ov.field, ov.operation} # {None}
    /\ ov.field \in op.top_level_fields \cup {None}
    /\ ov.operation \in {op.name, None}

(* A principal has what the policy asks of an operation: the scope of its  *)
(* kind, and whatever the overrides about it require.                      *)
PolicyMet(p, op, overrides) ==
    /\ Satisfies(p, IF op.kind = "mutation" THEN "write" ELSE "read")
    /\ \A ov \in {o \in overrides : Concerns(o, op)} :
          \A scope \in ov.require_scopes : Satisfies(p, scope)

(* The requests the policy is applied to operation by operation.  Outside  *)
(* are GET and the admin endpoint, which are forwarded without a look at   *)
(* operations, and unreadable bodies on a gateway that fails open.         *)
Governed(c, input) ==
    /\ input.method # "GET" /\ Route(input.path) # "GraphNodeAdmin"
    /\ c.fail_closed_on_parse_error \/ Classifiable(input.body)

(* Fine-grained policy: whichever operations of a GraphQL POST the         *)
(* upstream executes, its caller has the scope of their kind and every     *)
(* scope that the overrides on their names and root fields require         *)
(* (classify, authorize).  Nothing is said of GET: classify_request finds  *)
(* no operations there, so no override applies (OverridesCoverGet).        *)
OverridesEnforced ==
    \A r \in Requests :
        upstream[r] = "executed" /\ Governed(config, request[r])
        => \A op \in ExecutableOperations(request[r].body) :
              PolicyMet(principal[r], op, config.overrides)

(* What the step in which a request arrives makes of its credential: it is *)
(* handled as the principal the credential stands for at this moment, or   *)
(* as anonymous if it has none and that is allowed; everybody else, and    *)
(* nobody else, is turned away with 401.  No other step touches it.        *)
Identified(r) ==
    LET holders == Holders(config, request'[r], now)
        anonymous == ~Carries(config, request'[r]) /\ config.allow_anonymous_read
    IN  /\ request'[r] = request[r] => principal'[r] = principal[r]
        /\ request'[r] # request[r] /\ request'[r].path.prefix # "/healthz" =>
              IF holders = {} /\ ~anonymous
              THEN principal'[r] = None /\ Refused(r, "401")'
              ELSE principal'[r] \in holders \cup (IF anonymous THEN {Anonymous} ELSE {})

(* An invalid credential is refused, never downgraded to anonymous, and a  *)
(* valid one yields exactly its own principal: judged by the tables, the   *)
(* keys, the validity period and the issuer at the moment of arrival       *)
(* (Authenticator::authenticate and the three backends).                   *)
CredentialHonoured == [][\A r \in Requests : Identified(r)]_vars

(* A refused request never reaches the upstream, and leaves exactly one    *)
(* audit line, with the verdict it was answered with and the name it was   *)
(* refused under.                                                          *)
RefusalOutcome ==
    [s \in {"401", "400", "403", "429"} |->
        CASE s = "401" -> "auth_failed" [] s = "400" -> "rejected"
          [] s = "403" -> "denied" [] s = "429" -> "rate_limited"]

RefusalContained ==
    \A r \in Requests, s \in DOMAIN RefusalOutcome :
        Refused(r, s) =>
            /\ upstream[r] = "none"
            /\ pc[r] = "answered"
            /\ r \notin lost =>
                 /\ Len(audit[r]) = 1
                 /\ audit[r][1].outcome = RefusalOutcome[s]
                 /\ audit[r][1].principal = IF s = "401" THEN "-" ELSE principal[r].name

(* A write that was answered after forwarding is on record exactly once:   *)
(* the caller, every root field the upstream could have executed, and the  *)
(* status that was relayed.                                                *)
WriteRecorded ==
    \A r \in Requests :
        /\ pc[r] = "answered"
        /\ upstream[r] # "none"
        /\ Mutates(request[r])
        /\ config.fail_closed_on_parse_error \/ Classifiable(request[r].body)
        /\ r \notin lost
        => /\ Len(audit[r]) = 1
           /\ audit[r][1].outcome = "allowed"
           /\ audit[r][1].principal = principal[r].name
           /\ Route(request[r].path) # "GraphNodeAdmin" =>
                 \A op \in ExecutableOperations(request[r].body) :
                     op.top_level_fields \subseteq audit[r][1].fields
           /\ audit[r][1].upstream_status =
                 IF response[r].from = "upstream" THEN response[r].status ELSE None

(* The metrics account for the answers: each counter is the number of      *)
(* requests that ended that way, so every answer of the pipeline but the   *)
(* 413 is counted once, and a dropped handler is not counted.              *)
MetricsAccount ==
    LET Answered(status) == {r \in Requests : Refused(r, status)}
    IN  /\ counters["auth_failures"] = Cardinality(Answered("401"))
        /\ counters["parse_errors"] = Cardinality(Answered("400"))
        /\ counters["authz_denied"] = Cardinality(Answered("403"))
        /\ counters["rate_limited"] = Cardinality(Answered("429"))
        /\ counters["requests"] =
               Cardinality({r \in Requests : pc[r] = "answered" /\ result[r] # None})

(* The requests of one principal and scope the limiter admitted in the     *)
(* ticks from..to.                                                         *)
AdmittedWithin(scope, name, from, to) ==
    {r \in Requests :
        /\ checked[r] # None /\ checked[r] >= from /\ checked[r] <= to
        /\ ~Refused(r, "429")
        /\ classification[r].scope = scope
        /\ principal[r].name = name}

(* The budget bounds what goes upstream: in any window a principal gets at *)
(* most a full burst plus what replenishes during the window.              *)
WithinBudget ==
    \A scope \in Scope, name \in Names, from \in 0..MaxTime :
        LET n == config.per_minute[scope]
        IN  n # 0 => \A to \in from..MaxTime :
                Cardinality(AdmittedWithin(scope, name, from, to)) * Cell(n)
                    <= n * Cell(n) + (to - from)

(* Nobody is throttled early: a 429 means that the limiter has admitted a  *)
(* full budget for this principal and scope during the minute before.      *)
(* Requests that were refused, by whatever stage, do not use the budget.   *)
RefusedOnlyWhenSpent ==
    \A r \in Requests :
        Refused(r, "429") =>
            Cardinality(AdmittedWithin(classification[r].scope, principal[r].name,
                                       checked[r] - Minute + 1, checked[r]))
                >= Budget(r)

(* The gateway itself never leaves a request hanging: once its body is     *)
(* there, a handler gets to an answer or to the wait for the upstream, and *)
(* once the upstream's outcome is there, to an answer.                     *)
HandlerProgress ==
    \A r \in Requests :
        /\ pc[r] = "classifying" ~> pc[r] \in {"awaiting", "answered", "cancelled"}
        /\ result[r] # None ~> pc[r] \in {"answered", "cancelled"}
-----------------------------------------------------------------------------
(* The abstract gate the pipeline implements. *)

(* Who may pass, from the configuration and the request alone: the scopes  *)
(* of its credential, or read where none was presented and anonymous reads *)
(* are allowed, satisfy read, write at the admin endpoint unless over GET, *)
(* and the policy on whatever the upstream may execute.  Only a body that  *)
(* cannot be classified, on a gateway that fails open, and a GET pass with *)
(* read alone.                                                             *)
Entitled(c, input) ==
    LET anonymous == c.allow_anonymous_read /\ ~Carries(c, input)
        holder == [scopes |-> GrantsOf(c, input) \cup (IF anonymous THEN {"read"} ELSE {})]
    IN  /\ Satisfies(holder, "read")
        /\ input.method # "GET" /\ Route(input.path) = "GraphNodeAdmin" =>
              Satisfies(holder, "write")
        /\ Governed(c, input) =>
              \A op \in ExecutableOperations(input.body) : PolicyMet(holder, op, c.overrides)

(* The gate opens with authentication and grants passage where the rate    *)
(* limiter lets a request through: nothing is refused after that.          *)
Verdict(stage) ==
    CASE stage = "idle" -> "absent"
      [] stage \in {"reading_body", "classifying", "authorizing", "limiting"} -> "open"
      [] stage \in {"forwarding", "awaiting", "unroutable"} -> "granted"
      [] stage \in {"answered", "cancelled"} -> "closed"

Gate == INSTANCE AccessGate WITH
    verdict <- [r \in Requests |-> Verdict(pc[r])],
    entitled <- {r \in Requests : request[r] # None /\ Entitled(config, request[r])},
    effect <- upstream,
    lines <- [r \in Requests |-> Len(audit[r])]

(* The pipeline implements the gate: however handlers interleave, fail or  *)
(* are dropped, a request is sent at most once and only if its credential  *)
(* entitled it when it arrived, and its audit line, at most one, is        *)
(* written in the very step in which its handler ends (handle).            *)
ImplementsAccessGate == Gate!Spec
-----------------------------------------------------------------------------
(* What comments and docs say that the code does not keep.                 *)

(* "Every mutating call ... is recorded" (audit.rs): a mutation that the   *)
(* upstream executed has an audit line once its handler is over.  Not when *)
(* the handler was dropped at the await of forward().                      *)
EveryMutationRecorded ==
    \A r \in Requests :
        upstream[r] = "executed" /\ Mutates(request[r]) /\ pc[r] \in {"answered", "cancelled"}
        => audit[r] # <<>>

(* "JWTs are verified (signature, exp, nbf, issuer, audience)" (README):   *)
(* a token that is accepted names the configured issuer and audience.  Not *)
(* one without those claims.                                               *)
ClaimsVerified ==
    \A r \in Requests :
        config.mode = "jwt" /\ principal[r] # None /\ Carries(config, request[r]) =>
            LET claims == Jwt[request[r].authorization.token]
            IN  claims.iss = config.jwt.issuer /\ claims.aud = config.jwt.audience

(* "Raise (or otherwise pin) the scopes required to invoke a given         *)
(* top-level field or named operation" (Override of config.rs): also for a *)
(* query that is sent over GET, whose document is in its URL.  Not so: a   *)
(* GET has no operations for authorize to look at.                         *)
OverridesCoverGet ==
    \A r \in Requests :
        upstream[r] = "executed" /\ request[r].method = "GET"
            /\ Route(request[r].path) # "GraphNodeAdmin"
        => \A op \in ExecutableOperations(request[r].body) :
              op.kind = "query" => PolicyMet(principal[r], op, config.overrides)

(* "/_admin/... JSON-RPC, treated as write" (README.md): whatever goes to  *)
(* the admin endpoint was classified as a write.  Not a GET.               *)
AdminIsWrite ==
    \A r \in Requests :
        upstream[r] # "none" /\ Route(request[r].path) = "GraphNodeAdmin"
        => classification[r].scope = "write"

(* "Fail open, but only ever to read-only" (classify_request): what is     *)
(* let through unclassified only reads.  Not a batch in which one document *)
(* does not parse and another is a mutation.                               *)
FailOpenOnlyReads ==
    \A r \in Requests :
        upstream[r] = "executed" /\ classification[r] = ReadOnly => ~Mutates(request[r])
=============================================================================
