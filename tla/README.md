# A TLA+ model of indexer-gateway-auth

indexer-gateway-auth is a reverse proxy in front of an indexer's management API
and graph-node's admin and status endpoints. It authenticates callers, decides
from the GraphQL body whether a request reads or writes, checks the caller's
scopes and budget, forwards the request and leaves an audit trail. This
directory models its request pipeline and the life of its process, from the
configuration file to the shutdown, checks them with TLC on small instances and
proves their main safety properties with TLAPS.

## The system

| part | state | operations | correct when |
|---|---|---|---|
| request pipeline (`server.rs`) | one handler future per request | `handle`: authenticate, read body, classify, authorize, limit, forward, audit, answer | nothing is sent that was not authorized; answers, audit lines and counters agree |
| authentication (`auth/`, `principal.rs`, `extract_identity` of `tls.rs`) | tokens, mappings or keys, fixed at startup | `authenticate`, the three `verify` | a credential is worth what the configuration says, an invalid one is refused |
| classification (`classify.rs`) | none | `classify`, `collect_top_fields` | every operation the upstream could run is covered; terminates on any document |
| authorization (`authz.rs`) | policy, fixed at startup | `authorize` | overrides only tighten |
| rate limiting (`ratelimit.rs`) | a cell per scope and principal name, shared by all handlers | `check` | never more than the budget, never refused early |
| proxy (`proxy.rs`) | upstream addresses | `route`, `forward` | goes to the routed upstream or fails |
| audit (`audit.rs`) | the sink, shared | `emit` | one line per recorded request, matching its fate |
| metrics (`metrics.rs`) | counters, shared | `record_request`, `inc_*` | account for the answers |
| TLS listener (`tls.rs`) | connections, each with the identity its handshake verified | `load_server_config`, `serve`, `serve_connection` | hands only verified identities to the pipeline; one connection does not hold up the others |
| configuration (`config.rs`) | none after startup | `load`, `resolve_secrets` | absent values get their safe defaults, secrets are those of the environment |
| startup and shutdown (`main.rs`) | the stage of the process | `main`, `build_authenticator`, `shutdown_signal` | what is served with comes from this start; shutdown finishes what was begun, and ends |

The handler calls the other parts directly; they share `AppState` (`Arc<Inner>`),
of which the limiter cells, the audit sink and the metrics recorder are mutable.
What is hard about this code:

* handlers interleave at their two awaits, and hyper drops a handler there when
  its client disconnects, with whatever it sent already on its way;
* the upstream may execute a request and then fail to answer it;
* neither the client's body nor the upstream's answer has a timeout;
* the audit sink may fail, and the code goes on;
* which operation of a document runs is decided by the upstream, and the
  classifier has to cover it also where no operation is selected or the name fits
  none; fragments may be cyclic;
* the limiter's budget holds over time windows, not over calls;
* keys, secrets and certificates are read once per process, while the identity
  provider rotates keys and the operator changes files and variables;
* the two listeners, axum's and the gateway's own for TLS, shut down differently.

`PROJECT.json` lists these as hazards, line by line, with the properties aimed at
each.

## Modules

Operators without state, each a translation of one source file:

* `Principals` – `Principal`, the anonymous caller, `satisfies`, the two scopes.
* `Authn` – `extract_bearer`, `extract_identity`, the token, mTLS and JWT
  backends and `authenticate`. A `Result<Principal, AuthError>` is a set with the
  principal or `{}`. `BuildValidation` is the code's choice of what a JWT is checked
  for, `Decodes` the jsonwebtoken library that checks it: of the claims it requires
  `exp` only, and compares issuer and audience if the token carries them.
* `Startup` – what a process makes of its inputs: the defaults of the
  configuration's sections, `resolve_secrets`, the authenticator from the
  configuration (`from_config`) or from a key set (`from_jwks`, with the choice of
  the algorithm), the TLS files (`load_server_config`), `Proxy::new` and
  `AppState::new`. Errors are `{}` as in `Authn`. A secret is a text and the
  variable that the text refers to, if any; a PEM file is its certificates and its
  key.
* `Classify` – `classify`, over parsed documents, and as a reference the operations
  a GraphQL server may run for the same body. This server is more lenient than the
  GraphQL specification: if the request names no operation of the document, it may
  run any of them, instead of refusing. These are the cases for which `classify`
  falls back to all operations.
* `Authz` – `authorize` and `override_matches`.
* `Proxy` – `route` (including the path segment rule) and `base_for`.
* `Quota` – one limiter cell. The governor library is not part of the repository;
  it is modelled by the contract in the comment on `build`: burst capacity n,
  fully replenished once per minute, hence one cell every `Minute \div n`. Whether
  the library's own arithmetic keeps that contract is not examined here.

State machines:

* `Gateway` – the pipeline. `pc[r]` is the stage of request r's handler; one
  action per stage and outcome. `Accept` and `Unauthorized` are stage 1 of
  `handle`, `ReadBody` and `BodyFails` stage 2, `ClassifyOk` and `Reject` stage 3,
  `AuthorizeOk` and `Deny` stage 4, `LimitOk` and `LimitExceeded` stage 4b, and
  `Forward`, `NoUpstream`, `Relay` and `Fail` stage 5, each with the audit line,
  the counter and the answer of its branch in one step. Stage boundaries inside a
  stretch without an await are finer than the scheduler's, because handlers run on
  several threads. `UpstreamExecutes` is the effect at the upstream,
  `UpstreamAnswers` and `UpstreamFails` what `forward` gets to see; the first may
  happen before the other two, or after the handler is gone. `Cancel` is the
  dropped future, possible only at the two awaits. `Probe` is `/healthz` and
  `/readyz`. Shared state is `full_at` (the limiter cells), `counters`, `audit`
  and `lost` (lines the sink failed to write).
* `AccessGate` – what the pipeline promises, without its machinery: only an entitled
  request is granted passage, only a granted one is sent, once, only a sent one
  takes effect, and at most one line is written about each. `Gateway` has the
  refinement mapping: `Entitled` says from the configuration, the credential and
  the operations which requests may pass, and `Verdict` reads the stage of the
  gate off `pc`.
* `Lifecycle` – the process around the pipeline. `stage` is how far `main` is;
  `Start`, `BuildAuthenticator`, `FetchJwks` and `Bind` are its steps, with
  `StartFails`, `BuildFails`, `FetchFails` and `BindFails` for their `?` (of
  `StartFails`, the configuration's, the metrics recorder's and the HTTP client's).
  `conn[c]`
  is the stage of a connection's task: `Accept` is an iteration of the accept loop,
  `HandshakeOk` and `Disconnect` the ways a handshake ends, `Handle`, `Refuse` and
  `Respond` a request on the connection. `Drain`, `CloseIdle` and `Drained` are
  axum's graceful shutdown, `Stop` the TLS loop's, `AcceptFails` its failure, `Kill`
  any other end. All of them but `Drain` and `CloseIdle` go through `Exit`, which
  drops every task; `cut` keeps what was unanswered then. `Rotate` is the identity
  provider. A request is reduced to what it takes from the process: authentication,
  authorization of its scope and the charge, in one step, and the wait for the
  upstream. A connection carries one request at a time, so the multiplexing of
  HTTP/2 is not there. rustls is modelled by `Verifies`: with client authentication
  a certificate has to be presented and to chain to a configured root.
  The histories `started` and `admitted` count, for each tick, the events since
  then; no action reads them but for the bound on the number of starts.
* `RateLimit` – the limiters alone, called by anyone at any time, with the history
  of admissions.
* `SelectionWalk` – the recursion of `collect_top_fields` with its stack made
  explicit, over documents given as selection sets and fragments. The parser is
  the library's, so a document starts as its syntax tree (`SyntaxTree`).

`MCGateway`, `MCLifecycle`, `MCRateLimit` and `MCSelectionWalk` give the constants
values. The configurations of `MCGateway` are what `Startup` makes of configuration
files, so the pipeline runs with states a start can produce. Some
modules hold definitions marked *Mutant* before the one they vary: plausible
mistakes that a property must notice.

## Runs

| run | instance | shows |
|---|---|---|
| `gateway_inputs` | 1 request; 19 credentials, 15 bodies, 5 paths, GET and POST; 6 configurations over the three auth modes | `TypeOK`, `MutationNeedsWrite`, `OverridesEnforced`, `CredentialHonoured`, `ImplementsAccessGate` |
| `gateway_pipeline` | 2 requests, 7 inputs (one per way through), budgets of 1, failing sink, 2 upstream statuses, `FairSpec` | `RefusalContained`, `WriteRecorded`, `MetricsAccount`, `HandlerProgress` |
| `gateway_limits` | 3 requests, an admitted and a denied write and a read of one principal, budgets 1 and 2, two-tick minute, clock to 2 | `WithinBudget`, `RefusedOnlyWhenSpent` |
| `ratelimit` | budgets 0, 1, 2 and 3 on a seven-tick minute, clock to 10 | `TypeOK`, `WithinBudget`, `RefusedOnlyWhenSpent` |
| `selection_walk` | 2 fragments and an inline fragment, two items per set, spreads of each other, of themselves and of an undefined fragment | `FindsRootFields`, `NoReentry`, `Terminates` |
| `lifecycle` | 2 processes one after the other, 2 connections, 10 configuration files, 3 environments, 2 key sets, 7 tokens, 3 certificates, budgets of 1, one-tick minute, clock to 1, `FairSpec` | `TypeOK`, `SecretsCurrent`, `KeyPublished`, `IdentityVerified`, `BudgetPerProcess`, `PlainShutdownDrains`, `AcceptsPromptly`, `ShutdownCompletes` |

What the bounds cover. What happens to one request depends on the others only
through the limiter cells, the counters and the audit trail, so the run over all
inputs has one request, and the runs about shared state have two or three with
the inputs that lead to different branches. A budget of 2 and three requests
are enough to exhaust it, refuse, and be admitted again when the clock moves;
`ratelimit` repeats the question with longer histories and a minute that 2 and 3
do not divide. The JWTs of `gateway_inputs` include one that expires and one that
becomes valid while the clock runs, one signed by another key, one by another
algorithm, one of another issuer, and ones without subject, issuer and audience;
one static token is configured twice and one certificate fits two mappings.
`SYMMETRY` permutes request identities, which no definition tells apart, and is not
used where a liveness property is checked.

What the properties of the pipeline say. Three of them judge the code by references
that are written from the configuration and the request alone:

* `CredentialHonoured` compares what the step in which a request arrives makes of
  its credential with `Holders`: the last entry of the token table for a static
  token, the first mapping that fits a certificate, and for a JWT its claims, if
  its key, algorithm, period and, where present, issuer and audience are right at
  that very moment. A holder gets exactly that principal, everybody else with a
  credential a 401, and only a request without one may be anonymous.
* `MutationNeedsWrite` says that what the upstream executes with a mutation in it
  was paid for with `write`.
* `OverridesEnforced` compares with `PolicyMet` every operation that the upstream may
  execute of a request that is `Governed`: a POST, not to the admin endpoint, that
  the classifier could read or that the gateway would reject otherwise. Nothing is
  said of GET, to which the code applies no override (`claim_get_overrides` below).

`ImplementsAccessGate` puts the three together and adds sending and recording.
`RefusalContained` is about what a 400, 401, 403 or 429 leaves behind,
`WriteRecorded` about the record of a write that was answered, `MetricsAccount`
about the counters, `HandlerProgress` about hanging handlers. `WithinBudget` bounds
what the limiter admits in any window; a request that fails after that keeps its
charge. `RefusedOnlyWhenSpent` says that nobody is refused early.

The files of `lifecycle` are a plain and a TLS listener with bearer tokens, JWTs
with fetched keys, with a secret and with neither, mTLS behind a plain listener,
behind TLS without client certificates and behind verifying ones of two CAs, and a
file that does not parse; one key set has keys of two algorithms; the variable that the
secrets refer to has one value, another, or none. Two processes are enough for one
to inherit what it must not from the other; two connections for one to hold up, or
to share the budget of, the other. All requests of this instance are writes, so
anonymous callers are refused; reads are `gateway_inputs`'.

What the properties of `lifecycle` say: `SecretsCurrent`, a caller is accepted with
a secret only if this start's file and environment have it; `KeyPublished`, a JWT
only if its key was published at some time since this start, in a set whose first
usable algorithm is that of the token; `IdentityVerified`, an
mTLS caller only with a certificate of the configured CA, on a listener that
verifies; `BudgetPerProcess`, in every window a principal gets what replenishes and
one burst per process, over all connections; `PlainShutdownDrains`, a plain
listener's shutdown leaves no request unanswered; `AcceptsPromptly`, a stalled
handshake holds up no other connection; `ShutdownCompletes`, a graceful shutdown
ends if no request stays in flight for ever, whatever became of the metrics task.

Fairness. `FairSpec` of `Gateway` assumes weak fairness of each handler's own
steps: tokio polls a future that is ready, and the writing of an audit line, which
blocks in `emit` (`audit.rs:117`), returns with or without success. It assumes nothing of clients and
upstreams, which the code bounds by no timeout; `HandlerProgress` therefore
speaks of the stretches between the awaits. `FairSpec` of `Lifecycle` assumes weak
fairness of the accept loop, of the closing of idle connections and of the end of
the drain, which are all tokio's and hyper's to run; it assumes nothing of
clients, upstreams, the identity provider and the operator, so that
`ShutdownCompletes` has to name what it needs of them. `SelectionWalk` is straight-line code
and assumes that it runs on.

### What the runs show the code does not keep

Six runs check what a comment or the project's README says, and TLC refutes it:

* `claim_mutation_recorded` – a client disconnects during `forward`, the upstream
  executes the mutation, and no audit line is written (`audit.rs:3`, "Every
  mutating call ... is recorded"). What does hold is `WriteRecorded`, for requests
  that are answered.
* `claim_jwt_claims` – a JWT that carries neither `iss` nor `aud` is accepted though
  both are configured (`README.md:83`, `auth/jwt.rs:3`: "Verifies signature, `exp`,
  `nbf`, issuer and audience"). What does hold is `CredentialHonoured`, for the
  claims that are there.
* `claim_get_overrides` – a query over GET is forwarded without the scopes that an
  override requires for it (`config.rs:153`, "the scopes required to invoke a given
  top-level field or named operation"); `classify_request` gives a GET no
  operations. What does hold is `OverridesEnforced`, for POST.
* `claim_admin_write` – a GET of `/_admin` is a read (`README.md:179`, "treated as
  `write`").
* `claim_fail_open` – with `fail_closed_on_parse_error` off, a batch with one
  unreadable document passes as a read with the mutations in it
  (`server.rs:326`). `MutationNeedsWrite` has this case as its only exception.
* `claim_graceful_shutdown` – Ctrl-C at the TLS listener ends the process with
  requests unanswered (`README.md:309`, "graceful shutdown"). What does hold is
  `PlainShutdownDrains`.

Two more can be read off the actions and have no run: `BodyFails` answers 413
without an audit line, though `server.rs:5` says that errors leave one, and
`NoUpstream` followed by `Fail` audits as allowed what `audit.rs:24` documents as
"Authorized and forwarded upstream".

## Proofs

Every safety property that a passing run checks is also a theorem, and so is the
refinement. The theorems hold for every value of the constants that satisfies the
named assumptions, in particular for any number of requests, connections,
documents, files and restarts:

| module | invariant | theorems (property) |
|---|---|---|
| `GatewayProofs` | `Inv` | `TypeCorrect` (`TypeOK`), `NoUnauthorizedMutation` (`MutationNeedsWrite`), `PostPolicyEnforced` (`OverridesEnforced`), `CredentialsHonoured` (`CredentialHonoured`) |
| `GatewayRefinement` | `Inv` | `Refinement` (`ImplementsAccessGate`) |
| `GatewayAuditProofs` | `RecordInv` | `RefusalsContained` (`RefusalContained`), `WritesRecorded` (`WriteRecorded`), `MetricsTally` (`MetricsAccount`) |
| `GatewayLimitProofs` | `BudgetInv` | `BudgetsHold` (`WithinBudget`), `NobodyThrottledEarly` (`RefusedOnlyWhenSpent`) |
| `RateLimitProofs` | `Inv` | `TypeCorrect` (`TypeOK`), `BudgetHolds` (`WithinBudget`), `NoEarlyRefusal` (`RefusedOnlyWhenSpent`) |
| `SelectionWalkProofs` | `Inv` | `WalkFindsRootFields` (`FindsRootFields`), `WalkNeverReenters` (`NoReentry`), `WalkDepth` |
| `LifecycleProofs` | `Inv`, `SourceInv`, `AllowanceInv` | `VerifiedIdentity` (`IdentityVerified`), `ShutdownDrains` (`PlainShutdownDrains`), `TypeCorrect` (`TypeOK`), `SecretsAreCurrent` (`SecretsCurrent`), `KeysArePublished` (`KeyPublished`), `BudgetAcrossRestarts` (`BudgetPerProcess`) |

`QuotaProofs` has the lemmas on one limiter cell that the others share.

*Assumptions.* What serde and the types of the code guarantee: configurations and
files have one of the three modes, names and scopes from the declared sets, budgets
that are numbers and secrets that are texts (`ConfigsAssumption`, `FilesAssumption`,
`JwtAssumption`); variables that are set have a value (`EnvsAssumption`); requests
have a scope (`RequestsAssumption`); documents have well-formed operations, and
headers and certificates carry tokens and subjects (`InputsAssumption`). What the libraries guarantee: a GraphQL document is a syntax
tree (`DocsAssumption`: no selection set has two parents; fragments may spread
anything), a status is no error of `forward` (`StatusesAssumption`). And that
`None` is different from the values it stands for the absence of (`NoneIsNoValue`,
`NoneIsNoTime`, `NoneIsNoSection`, `NoneIsNoAlgorithm`), and that the minute has a positive length. TLC
evaluates all of them on the instances of the runs.

*Gateway.* `MutationNeedsWrite` and `OverridesEnforced` relate what the upstream
executes to a credential checked several steps earlier, so neither is inductive. The invariant `Inv` of `GatewayProofs` carries the facts along the
pipeline, for every request: from authentication on, the principal's scopes come
from the configuration's entry for the credential, or there was no credential
(`Authenticated`, `Traced`); from classification on, the classification is the one
`classify_request` gives for this very request; from authorization on, and
wherever something was sent, no required scope is missing. One lemma per action
shows it preserved; `Frame` and `StepInv` reduce each to the request that moves.
The lemmas about the operators are `AuthenticateExact` (`authenticate` yields the
one holder of the credential, the anonymous caller or an error, as `Holders` has
it), `ExecutableIsClassified` (whatever the reference upstream may pick, the
classifier looked at), `MutationIsWrite` and `RequiredMeetsPolicy` (a principal that
lacks none of the scopes `authorize` requires meets the policy on each operation).
`CredentialsHonoured` is a theorem about steps: `ArrivalIdentifies` proves it of
`Accept` and `Unauthorized` from `AuthenticateExact`, `NextIdentifies` shows that no
other action touches a request or its principal.

*Refinement.* `GatewayRefinement` proves `Spec => ImplementsAccessGate` from the same
invariant: one lemma per action shows which step of the gate it is. A request that
is granted is entitled because `AuthorizeOk` found no scope missing for the
principal that `Traced` ties to the credential and for the classification that is
the request's own; that it is sent once and written about at most once follows
from the stages of `pc`.

*Audit and metrics.* A refusal's line is the only line of its request because a
handler writes nothing before the step it ends in, and a counter is a number of
requests because a handler ends once. `AuditInv` lists the ways a handler can have
ended (without a decision, refused, forwarded), each with its line, and says that
one that has not ended left nothing behind; `Tallied` says that each counter is the
cardinality of the requests that ended in its way, and carries the finiteness of
that set along, which the arithmetic of cardinalities needs.

*The limiter inside the gateway.* The properties count requests by the time they
were checked; the code keeps one time per key. `WindowInv` of `QuotaProofs` ties
the history of a cell, as the number of admissions since each time, to the cell:
it is late enough for all that was admitted since any time (`OwedSince`), and no
later than those require, from a time at which the bucket was full (`BusySince`).
`BudgetInv` states it for each scope and name, and adds that a request joins the
history once (`CheckedInv`) and that at every 429 the budget was spent
(`ThrottledInv`). Nothing is assumed about the order in which handlers reach the
limiter.

*Rate limiting alone.* The same argument over explicit lists of admissions:
`Past`, `Owed` and `Busy`. `CellFits` (a budget of cells fits into the minute
although the division rounds) turns `Busy` into the minute of
`RefusedOnlyWhenSpent`.

*The walk.* That the walk finds all root fields when it ends is about its whole
past. `Progress` says it of every moment: there is a set of selection sets entered
so far such that whatever their loops have passed is found, entered or remembered
as visited. When the stack is empty that set is closed under `Merged`, so it
contains the least such set, which is what the reference `RootSets` is. `Reasons`
says why a set is on the stack (the root, a fragment that was visited, an inline
fragment of the frame below), which rules out a second frame for it. `WalkDepth`
follows: the recursion is no deeper than the document has selection sets.

*Lifecycle.* Three invariants, each containing the one before. `Inv`: the
listener's roots are those of the configured file (`Listening`), a connection's
certificate has been checked against them (`Vouched`), and in mode mtls somebody
known has a certificate (`Identified`); `PlainShutdownDrains` is inductive with
`Listening`, which says that only a TLS listener can stop at once. `SourceInv`:
configuration, authenticator and `AppState` are what `Load`, `from_config` or
`from_jwks`, and `AppState::new` make of the deployed file, its environment and a
key set published since the start (`Origin`), and a caller in flight has one of the
secrets or keys of that `AppState` and the algorithm that goes with them
(`Recognised`); `FirstAlgorithm` says which of a key set that is. `AllowanceInv`: for every window
up to now, what was admitted under a key since it began is covered by the running
process's cell and a burst for each of the other processes that may have been up;
a start adds a burst to every window that reaches the present, whatever it finds in
the cells. `Verifies` is what is assumed of rustls.

Only model-checked: the liveness properties `HandlerProgress`, `Terminates`,
`AcceptsPromptly` and `ShutdownCompletes`, because the prover handles neither
fairness nor `ENABLED`.

## Not modelled

* TLS cryptography, HTTP framing and HTTP/2, and the parsing of GraphQL, JSON, TOML,
  PEM and X.509: libraries, modelled by what the code relies on.
* Header filtering, URL assembly and trimming in the proxy: each is one pass over
  data that no other part looks at, so a model could only repeat it. Redirects
  followed by the HTTP client.
* Labels and histogram of the metrics; the `/metrics` server is a task that runs or
  has failed. Variables, timestamps and formatting of audit lines.
* Logging and command-line parsing. The two spellings of `operationName` that serde
  accepts are one field of the model.
* The document of a GraphQL query over GET is in its URL, which the gateway forwards
  unread; the model has it as the body of the request.
* Several replicas, each with limiters of its own; the Helm chart, Docker image and
  fuzz target.

## Plan

1. Done: the operators, the four state machines, their runs; `AccessGate` and the
   refinement; theorems for every safety property of the passing runs.
2. To come: the limiter inside `Gateway` shown to implement `RateLimit`, and the
   request that `Lifecycle` reduces to one step shown to be an abstraction of
   `Gateway`'s, so that the two state machines speak of one system.
