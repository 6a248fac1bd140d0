------------------------------- MODULE Startup -------------------------------
(***************************************************************************)
(* What the gateway makes of its inputs when it starts: the configuration  *)
(* file and the environment (src/src/config.rs), the identity provider's   *)
(* key set (src/src/auth/jwt.rs), the authenticator (src/src/main.rs and   *)
(* src/src/auth/mod.rs) and the TLS files (src/src/tls.rs).                *)
(*                                                                         *)
(* A Result is a set, as in Authn: the one value, or {} for an error.      *)
(* Which error it was only words the message the process exits with.       *)
(*                                                                         *)
(* A configuration file is [parses, upstream, tls, auth, policy,           *)
(* ratelimit]; None stands for a section or a value it does not have, and  *)
(* parses is FALSE for a file that cannot be read or that serde refuses.   *)
(* A secret is [text, var]: its text, and the variable a text env:NAME     *)
(* refers to, None for a literal.  A key set is a sequence of [id, alg,    *)
(* valid].                                                                 *)
(***************************************************************************)
EXTENDS Authn

CONSTANTS
    Pem,                    \* the PEM files: path -> [certs, key], None for no key
    DefaultWritePerMinute,  \* 30 in the code
    DefaultReadPerMinute    \* 600 in the code

(* The algorithms jsonwebtoken can verify with. *)
Algorithm == {"HS256", "HS384", "HS512", "ES256", "ES384", "RS256", "RS384",
              "RS512", "PS256", "PS384", "PS512", "EdDSA"}

ASSUME NoneIsNoAlgorithm == None \notin Algorithm

-----------------------------------------------------------------------------
(* Configuration. *)

(* serde's default of a value that is absent. *)
Or(value, default) == IF value = None THEN default ELSE value

(* Tls and its Default: plain, and no client certificates. *)
DeserializeTls(tls) ==
    IF tls = None
    THEN [enabled |-> FALSE, cert |-> None, key |-> None, require_client_cert |-> FALSE,
          client_ca |-> None]
    ELSE [tls EXCEPT !.enabled = Or(@, FALSE), !.require_client_cert = Or(@, FALSE)]

(* Auth: nobody is anonymous and nobody is known unless the file says so. *)
DeserializeAuth(auth) ==
    [mode |-> auth.mode, allow_anonymous_read |-> Or(auth.allow_anonymous_read, FALSE),
     tokens |-> Or(auth.tokens, <<>>), jwt |-> auth.jwt, mtls |-> Or(auth.mtls, <<>>)]

(* Policy and its Default: fail closed, no overrides. *)
DeserializePolicy(policy) ==
    IF policy = None
    THEN [fail_closed_on_parse_error |-> TRUE, overrides |-> {}]
    ELSE [policy EXCEPT !.fail_closed_on_parse_error = Or(@, TRUE), !.overrides = Or(@, {})]

(* RateLimit and its Default, as a budget per scope. *)
DeserializeRateLimit(ratelimit) ==
    LET write == IF ratelimit = None THEN None ELSE ratelimit.write_per_minute
        read == IF ratelimit = None THEN None ELSE ratelimit.read_per_minute
    IN  [scope \in Scope |-> IF scope = "write" THEN Or(write, DefaultWritePerMinute)
                                              ELSE Or(read, DefaultReadPerMinute)]

(* Config, without its two addresses. *)
Deserialize(file) ==
    [upstream |-> file.upstream, tls |-> DeserializeTls(file.tls),
     auth |-> DeserializeAuth(file.auth), policy |-> DeserializePolicy(file.policy),
     per_minute |-> DeserializeRateLimit(file.ratelimit)]

(* Mutant: a variable that is not set leaves the reference as it stands. *)
ResolveSecretVerbatim(raw, env) ==
    IF raw.var \in DOMAIN env THEN {env[raw.var]} ELSE {raw.text}

(* resolve_secret: a variable that is not set is an error. *)
ResolveSecret(raw, env) ==
    IF raw.var = None THEN {raw.text} ELSE {env[var] : var \in DOMAIN env \cap {raw.var}}

(* The shared secret of [auth.jwt], if there is one. *)
Hs256Secret(auth) == IF auth.jwt = None THEN None ELSE auth.jwt.hs256_secret

(* Config::resolve_secrets: every reference, or none of them. *)
ResolveSecrets(auth, env) ==
    LET secrets == {auth.tokens[i].token : i \in DOMAIN auth.tokens}
                       \cup ({Hs256Secret(auth)} \ {None})
        Value(raw) == CHOOSE value \in ResolveSecret(raw, env) : TRUE
        Resolved(entry) ==
            [name |-> entry.name, token |-> Value(entry.token), scopes |-> entry.scopes]
        jwt == IF Hs256Secret(auth) = None THEN auth.jwt
               ELSE [issuer |-> auth.jwt.issuer, audience |-> auth.jwt.audience,
                     jwks_url |-> auth.jwt.jwks_url, hs256_secret |-> Value(Hs256Secret(auth))]
    IN  IF \A raw \in secrets : ResolveSecret(raw, env) # {}
        THEN {[mode |-> auth.mode, allow_anonymous_read |-> auth.allow_anonymous_read,
               tokens |-> [i \in DOMAIN auth.tokens |-> Resolved(auth.tokens[i])],
               jwt |-> jwt, mtls |-> auth.mtls]}
        ELSE {}

(* Config::load. *)
Load(file, env) ==
    LET config == Deserialize(file)
    IN  IF file.parses
        THEN {[upstream |-> config.upstream, tls |-> config.tls, auth |-> auth,
               policy |-> config.policy, per_minute |-> config.per_minute] :
                  auth \in ResolveSecrets(config.auth, env)}
        ELSE {}

-----------------------------------------------------------------------------
(* The authenticator. *)

(* JwtBackend::with_keys: what the backend works with.  Its Validation is   *)
(* what BuildValidation makes of this.                                     *)
WithKeys(jwt, keys, algorithm) ==
    [keys |-> keys, algorithm |-> algorithm, issuer |-> jwt.issuer, audience |-> jwt.audience]

(* key_algorithm_to_algorithm; a JWK need not advertise one. *)
KeyAlgorithmToAlgorithm(ka) == IF ka \in Algorithm THEN ka ELSE None

(* keys_from_jwks: all keys or an error, and the first algorithm that any  *)
(* of them advertises.                                                     *)
KeysFromJwks(set) ==
    LET advertising == {i \in DOMAIN set : KeyAlgorithmToAlgorithm(set[i].alg) # None}
    IN  {[keys |-> {set[i].id : i \in DOMAIN set}, algorithm |-> set[first].alg] :
            first \in {i \in advertising : /\ \A j \in advertising : i <= j
                                           /\ \A j \in DOMAIN set : set[j].valid}}

(* The variants of Authenticator in one record. *)
MkAuthenticator(auth, jwt) ==
    [mode |-> auth.mode, tokens |-> auth.tokens, mtls |-> auth.mtls, jwt |-> jwt]

(* Authenticator::from_config with StaticTokenBackend::new,                *)
(* MtlsBackend::new and JwtBackend::from_config.                           *)
FromConfig(auth) ==
    IF auth.mode # "jwt" THEN {MkAuthenticator(auth, None)}
    ELSE IF Hs256Secret(auth) = None THEN {}
    ELSE {MkAuthenticator(auth, WithKeys(auth.jwt, {Hs256Secret(auth)}, "HS256"))}

(* build_authenticator: whether the keys have to be fetched. *)
NeedsJwks(auth) == auth.mode = "jwt" /\ auth.jwt # None /\ Hs256Secret(auth) = None

(* JwtBackend::from_jwks on a document that was fetched. *)
FromJwks(auth, set) ==
    {MkAuthenticator(auth, WithKeys(auth.jwt, found.keys, found.algorithm)) :
        found \in KeysFromJwks(set)}

-----------------------------------------------------------------------------
(* TLS. *)

(* The files that a configured path leads to. *)
Read(path) == {Pem[p] : p \in DOMAIN Pem \cap {path}}

(* load_certs: a file without certificates is an error. *)
LoadCerts(path) == {pem.certs : pem \in {p \in Read(path) : p.certs # {}}}

(* load_private_key *)
LoadPrivateKey(path) == {pem.key : pem \in {p \in Read(path) : p.key # None}}

(* load_root_store *)
LoadRootStore(path) == LoadCerts(path)

(* load_server_config: the CAs that client certificates must chain to;     *)
(* with no client authentication there are none.  rustls refuses a private *)
(* key that does not belong to the certificate; both go by one name here.  *)
LoadServerConfig(tls) ==
    LET usable == \E certs \in LoadCerts(tls.cert), key \in LoadPrivateKey(tls.key) :
                      key \in certs
    IN  IF ~usable THEN {}
        ELSE IF tls.require_client_cert
             THEN {[roots |-> roots] : roots \in LoadRootStore(tls.client_ca)}
             ELSE {[roots |-> {}]}

-----------------------------------------------------------------------------
(* What the pipeline works with. *)

(* Proxy::new: the endpoints besides the management API that have one. *)
ProxyNew(upstream) ==
    {target \in {"GraphNodeAdmin", "GraphNodeStatus"} :
        (IF target = "GraphNodeAdmin" THEN upstream.graph_node_admin
                                      ELSE upstream.graph_node_status) # None}

(* AppState::new, in the shape Authenticate and the module Gateway take. *)
AppState(config, authenticator, audit_reads) ==
    [mode |-> authenticator.mode, tokens |-> authenticator.tokens,
     mtls |-> authenticator.mtls, jwt |-> authenticator.jwt,
     allow_anonymous_read |-> config.auth.allow_anonymous_read,
     fail_closed_on_parse_error |-> config.policy.fail_closed_on_parse_error,
     overrides |-> config.policy.overrides,
     audit_reads |-> audit_reads,
     upstreams |-> ProxyNew(config.upstream),
     per_minute |-> config.per_minute]
=============================================================================
