----------------------------- MODULE MCLifecycle -----------------------------
(* An instance of Lifecycle for TLC. *)
EXTENDS Lifecycle

MCNames == {"anonymous", "operator", "jwt"}

-----------------------------------------------------------------------------
(* Key sets, tokens and certificates. *)

Jwk(id, alg) == [id |-> id, alg |-> alg, valid |-> TRUE]

(* Before and after a rotation; k2 advertises no algorithm of a signature, *)
(* k4 another one than k3.                                                 *)
MCDocuments ==
    {<<Jwk("k1", "RS256")>>, <<Jwk("k2", "unknown"), Jwk("k3", "RS256"), Jwk("k4", "ES256")>>}

Claims(key, alg) ==
    [key |-> key, alg |-> alg, iss |-> "idp", aud |-> "gateway", exp |-> 9, nbf |-> 0,
     sub |-> "operator", scopes |-> [type |-> "string", items |-> {"write"}]]

MCJwt ==
    [t \in {"jwt_k1", "jwt_k3", "jwt_k4", "jwt_s1"} |->
        CASE t = "jwt_k1" -> Claims("k1", "RS256")
          [] t = "jwt_k3" -> Claims("k3", "RS256")
          [] t = "jwt_k4" -> Claims("k4", "ES256")
          [] t = "jwt_s1" -> Claims("s1", "HS256")]

(* Writes, with every token there is. *)
MCRequests ==
    {[authorization |-> [scheme |-> "Bearer", token |-> t], scope |-> "write"] :
        t \in {"s1", "s2", "env:SECRET"} \cup DOMAIN MCJwt}

MCCertificates ==
    {[issuer |-> ca, parses |-> TRUE, subjects |-> {"cn_operator"}] : ca \in {"ca1", "ca2"}}
    \cup {[issuer |-> "ca1", parses |-> FALSE, subjects |-> {}]}

MCPem ==
    [path \in {"server.pem", "ca1.pem", "ca2.pem"} |->
        CASE path = "server.pem" -> [certs |-> {"server"}, key |-> "server"]
          [] path = "ca1.pem" -> [certs |-> {"ca1"}, key |-> None]
          [] path = "ca2.pem" -> [certs |-> {"ca2"}, key |-> None]]

-----------------------------------------------------------------------------
(* Configuration files. *)

Secret == [text |-> "env:SECRET", var |-> "SECRET"]

JwtSection(secret, url) ==
    [hs256_secret |-> secret, jwks_url |-> url, issuer |-> "idp", audience |-> "gateway"]

Auth(mode, jwt) ==
    [mode |-> mode, allow_anonymous_read |-> None, jwt |-> jwt,
     tokens |-> IF mode = "bearer"
                THEN <<[name |-> "operator", token |-> Secret, scopes |-> {"write"}]>>
                ELSE None,
     mtls |-> <<[subject |-> "cn_operator", name |-> "operator", scopes |-> {"write"}]>>]

Tls(require_client_cert, client_ca) ==
    [enabled |-> TRUE, cert |-> "server.pem", key |-> "server.pem",
     require_client_cert |-> require_client_cert, client_ca |-> client_ca]

Upstream == [graph_node_admin |-> None, graph_node_status |-> None]

File(auth, tls, write) ==
    [parses |-> TRUE, upstream |-> Upstream, auth |-> auth, tls |-> tls, policy |-> None,
     ratelimit |-> [write_per_minute |-> write, read_per_minute |-> None]]

BearerTls == File(Auth("bearer", None), Tls(None, None), 1)

MCFiles ==
    {File(Auth("bearer", None), None, None), BearerTls,
     File(Auth("jwt", JwtSection(None, "url")), None, 1),
     File(Auth("jwt", JwtSection(Secret, None)), None, 1),
     File(Auth("jwt", None), None, 1),
     File([Auth("mtls", None) EXCEPT !.allow_anonymous_read = TRUE], None, 1),
     File(Auth("mtls", None), Tls(None, None), 1),
     File(Auth("mtls", None), Tls(TRUE, "ca1.pem"), 1),
     File(Auth("mtls", None), Tls(TRUE, "ca2.pem"), 1),
     [BearerTls EXCEPT !.parses = FALSE]}

(* The variable is set, set to another value, or not set. *)
Env(value) == [var \in {"SECRET"} |-> value]
MCEnvs == {Env("s1"), Env("s2"), [var \in {} |-> "s1"]}

TlsFiles == {BearerTls}
OneEnv == {Env("s1")}
=============================================================================
