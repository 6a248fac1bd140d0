------------------------------ MODULE MCGateway ------------------------------
(* Instances of Gateway for TLC. *)
EXTENDS Gateway, Startup, TLC

CONSTANTS r1, r2, r3

Symmetry == Permutations(Requests)

MCNames == {"anonymous", "operator", "reader", "executor", "jwt"}
MCFineScopes == {"actions:execute"}
MCFields == {"indexerStatus", "queueActions", "executeApprovedActions"}
MCOperationNames == {"Status", "Queue", "Execute"}

-----------------------------------------------------------------------------
(* Documents and bodies. *)

Op(name, kind, field) == [name |-> name, kind |-> kind, top_level_fields |-> {field}]

Doc(operations, operation_name) ==
    [parses |-> TRUE, operations |-> operations, operation_name |-> operation_name]

Unparsable == [parses |-> FALSE, operations |-> {}, operation_name |-> None]

Status == Op("Status", "query", "indexerStatus")
Queue == Op("Queue", "mutation", "queueActions")
Execute == Op("Execute", "mutation", "executeApprovedActions")

AnonymousQuery == Doc({Op(None, "query", "indexerStatus")}, None)
AnonymousExecute == Doc({Op(None, "mutation", "executeApprovedActions")}, None)
AnonymousQueue == Doc({Op(None, "mutation", "queueActions")}, None)
Subscription == Doc({Op(None, "subscription", "indexerStatus")}, None)

Sized(size, json, requests) == [size |-> size, json |-> json, requests |-> requests]
JsonBody(requests) == Sized("within_limit", TRUE, requests)

Bodies == {
    Sized("too_large", TRUE, {AnonymousQuery}),
    Sized("within_limit", FALSE, {}),           \* not JSON, or empty
    JsonBody({}),                               \* the empty batch
    JsonBody({Unparsable}),
    JsonBody({Unparsable, AnonymousExecute}),
    JsonBody({AnonymousQuery}),
    JsonBody({Subscription}),
    JsonBody({AnonymousQuery, AnonymousQueue}),
    JsonBody({AnonymousQuery, Doc({Queue}, None)}),
    JsonBody({Doc({Status, Execute}, None)}),   \* several, none selected
    JsonBody({Doc({Status, Execute}, "Status")}),
    JsonBody({Doc({Status, Execute}, "Execute")}),
    JsonBody({Doc({Queue, Execute}, "Status")}), \* selects none of them
    JsonBody({Doc({Status, Execute}, "Queue")}),
    JsonBody({Doc({Execute}, "Queue"), AnonymousQuery})}

-----------------------------------------------------------------------------
(* Credentials. *)

Bearer(token) == [scheme |-> "Bearer", token |-> token]

Certificate(subjects) == [parses |-> TRUE, subjects |-> subjects]

Claims(key, iss, exp, nbf, sub, scopes) ==
    [key |-> key, alg |-> "RS256", iss |-> iss, aud |-> IF iss = None THEN None ELSE "gateway",
     exp |-> exp, nbf |-> nbf, sub |-> sub, scopes |-> scopes]

Words(items) == [type |-> "string", items |-> items]
Array(items) == [type |-> "array", items |-> items]

MCJwt ==
    [t \in {"jwt_operator", "jwt_nosub", "jwt_expires", "jwt_early", "jwt_forged",
            "jwt_foreign", "jwt_bare", "jwt_other"} |->
        CASE t = "jwt_operator" -> Claims("k1", "idp", 9, 0, "operator", Words({"write"}))
          [] t = "jwt_nosub"    -> Claims("k2", "idp", 9, 0, None, Array({"read", None}))
          [] t = "jwt_expires"  -> Claims("k1", "idp", 0, 0, "operator", Array({"write"}))
          [] t = "jwt_early"    -> Claims("k1", "idp", 9, 1, "reader", None)
          [] t = "jwt_forged"   -> Claims("k9", "idp", 9, 0, "operator", Words({"write"}))
          [] t = "jwt_foreign"  -> Claims("k1", "elsewhere", 9, 0, "operator", Words({"write"}))
          [] t = "jwt_bare"     -> Claims("k1", None, 9, 0, None, [type |-> "number", items |-> {"read"}])
          [] t = "jwt_other"    -> [Claims("k2", "idp", 9, 0, "operator", Words({"write"}))
                                       EXCEPT !.alg = "ES256"]]

(* Pairs of an Authorization header and a client certificate. *)
CredentialPairs ==
    {<<None, None>>, <<[scheme |-> "Basic", token |-> "t_operator"], None>>}
    \cup {<<Bearer(t), None>> : t \in {"t_operator", "t_reader", "t_shared", "t_unknown"}
                                        \cup DOMAIN MCJwt}
    \cup {<<None, Certificate(s)>> : s \in {{"cn_operator"}, {"cn_reader"},
                                            {"cn_unknown"}, {"cn_operator", "cn_reader"}}}
    \cup {<<None, [parses |-> FALSE, subjects |-> {}]>>}

FewCredentials ==
    {<<None, None>>} \cup {<<Bearer(t), None>> : t \in {"t_operator", "t_reader", "t_shared"}}

MkInput(credentials, method, path, body) ==
    [authorization |-> credentials[1], certificate |-> credentials[2],
     method |-> method, path |-> path, body |-> body]

Path(prefix, rest) == [prefix |-> prefix, rest |-> rest]

Paths == {Path("", "/"), Path("/_admin", ""), Path("/_admin", "x"), Path("/_admin", "?"),
          Path("/_status", "/")}

(* Every credential with a few requests, and a few credentials with every  *)
(* body on every path.                                                     *)
AllInputs ==
    {MkInput(c, "POST", p, JsonBody({d})) :
        c \in CredentialPairs, p \in {Path("", "/"), Path("/_admin", "")},
        d \in {AnonymousQuery, Doc({Queue}, None), Doc({Status, Execute}, "Execute")}}
    \cup {MkInput(c, "POST", p, b) : c \in FewCredentials, p \in Paths, b \in Bodies}
    \cup {MkInput(c, "GET", p, JsonBody({AnonymousExecute})) : c \in FewCredentials, p \in Paths}
    \cup {MkInput(<<None, None>>, m, Path("/healthz", ""), JsonBody({AnonymousQuery})) :
              m \in {"GET", "POST"}}

-----------------------------------------------------------------------------
(* Configurations. *)

Literal(text) == [text |-> text, var |-> None]
Reference(var) == [text |-> "env:", var |-> var]

Entry(token, name, scopes) == [token |-> token, name |-> name, scopes |-> scopes]
Mapping(subject, name, scopes) == [subject |-> subject, name |-> name, scopes |-> scopes]

MCTokens == <<Entry(Reference("OPERATOR"), "operator", {"write"}),
              Entry(Literal("t_shared"), "operator", {"write"}),
              Entry(Literal("t_reader"), "reader", {"read"}),
              Entry(Literal("t_shared"), "executor", {"write", "actions:execute"})>>

MCEnv == [var \in {"OPERATOR"} |-> "t_operator"]

(* No TLS files: the pipeline does not see them. *)
MCPem == [path \in {} |-> None]

MCMtls == <<Mapping("cn_reader", "reader", {"read"}), Mapping("cn_operator", "operator", {"write"})>>

MCJwks == <<[id |-> "k1", alg |-> None, valid |-> TRUE], [id |-> "k2", alg |-> "RS256", valid |-> TRUE]>>

MCOverrides ==
    {[field |-> "executeApprovedActions", operation |-> None, require_scopes |-> {"actions:execute"}],
     [field |-> None, operation |-> "Queue", require_scopes |-> {"actions:execute"}],
     [field |-> None, operation |-> None, require_scopes |-> {"actions:execute"}]}

File(mode, anonymous, fail_closed, upstreams, read, write) ==
    [parses |-> TRUE,
     upstream |-> [graph_node_admin |-> IF "GraphNodeAdmin" \in upstreams THEN "url" ELSE None,
                   graph_node_status |-> None],
     tls |-> None,
     auth |-> [mode |-> mode, allow_anonymous_read |-> IF anonymous THEN TRUE ELSE None,
               tokens |-> MCTokens, mtls |-> MCMtls,
               jwt |-> [hs256_secret |-> None, jwks_url |-> "url", issuer |-> "idp",
                        audience |-> "gateway"]],
     policy |-> [fail_closed_on_parse_error |-> IF fail_closed THEN None ELSE FALSE,
                 overrides |-> MCOverrides],
     ratelimit |-> [read_per_minute |-> read, write_per_minute |-> write]]

(* The state a gateway started with that file has; it audits reads too     *)
(* where it fails open.                                                    *)
Config(mode, anonymous, fail_closed, upstreams, read, write) ==
    LET file == File(mode, anonymous, fail_closed, upstreams, read, write)
        loaded == CHOOSE c \in Load(file, MCEnv) : TRUE
        authenticators == IF NeedsJwks(loaded.auth) THEN FromJwks(loaded.auth, MCJwks)
                          ELSE FromConfig(loaded.auth)
    IN  AppState(loaded, CHOOSE a \in authenticators : TRUE, ~fail_closed)

InputsConfigs ==
    {Config("bearer", anonymous, fail_closed, {"GraphNodeAdmin"}, 0, 0) :
        anonymous \in BOOLEAN, fail_closed \in BOOLEAN}
    \cup {Config(mode, TRUE, TRUE, {"GraphNodeAdmin"}, 0, 0) : mode \in {"jwt", "mtls"}}

-----------------------------------------------------------------------------
(* Few inputs, for several requests at once. *)

Post(token, body) == MkInput(<<Bearer(token), None>>, "POST", Path("", "/"), body)

(* One request for each way through the pipeline. *)
PipelineInputs ==
    {Post("t_unknown", JsonBody({AnonymousQuery})),
     Post("t_operator", JsonBody({Unparsable})),
     Post("t_reader", JsonBody({Doc({Queue}, None)})),
     Post("t_reader", JsonBody({AnonymousQuery})),
     Post("t_shared", JsonBody({Doc({Status, Execute}, "Execute")})),
     MkInput(<<Bearer("t_operator"), None>>, "POST", Path("/_admin", "/"), JsonBody({})),
     MkInput(<<None, None>>, "GET", Path("/healthz", ""), JsonBody({}))}

PipelineConfigs == {Config("bearer", FALSE, TRUE, {}, 1, 1)}

(* An admitted and a denied write and a read of one principal.             *)
LimitInputs ==
    {Post("t_operator", JsonBody({AnonymousQueue})),
     Post("t_operator", JsonBody({AnonymousExecute})),
     Post("t_operator", JsonBody({AnonymousQuery}))}

LimitConfigs == {Config("bearer", FALSE, TRUE, {}, 1, 2)}
-----------------------------------------------------------------------------
(* Inputs of the runs about single statements. *)

OperatorPost(path, body) == MkInput(<<Bearer("t_operator"), None>>, "POST", path, body)

WriteInputs == {OperatorPost(Path("", "/"), JsonBody({AnonymousQueue}))}

(* A token without issuer and audience. *)
BareJwtInputs == {Post("jwt_bare", JsonBody({AnonymousQuery}))}

(* A query over GET whose name an override is about; the body stands for   *)
(* the document in the URL.                                                *)
GetInputs ==
    {MkInput(<<Bearer("t_reader"), None>>, "GET", Path("", "/"),
             JsonBody({Doc({Op("Queue", "query", "indexerStatus")}, "Queue")}))}

AdminGetInputs ==
    {MkInput(<<Bearer("t_reader"), None>>, "GET", Path("/_admin", "/"), JsonBody({}))}

BatchInputs == {Post("t_reader", JsonBody({Unparsable, AnonymousQueue}))}

(* The admin endpoint configured, unlimited, failing closed. *)
AdminConfigs == {Config("bearer", FALSE, TRUE, {"GraphNodeAdmin"}, 0, 0)}

JwtConfigs == {Config("jwt", FALSE, TRUE, {}, 0, 0)}

FailOpenConfigs == {Config("bearer", FALSE, FALSE, {}, 0, 0)}
=============================================================================
