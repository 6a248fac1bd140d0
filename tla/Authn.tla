-------------------------------- MODULE Authn --------------------------------
(***************************************************************************)
(* Authentication (src/src/auth/, extract_bearer of server.rs and          *)
(* extract_identity of tls.rs): what was presented with a request is       *)
(* turned into a principal, or into a refusal.                             *)
(*                                                                         *)
(* A backend's Result<Principal, AuthError> is a set: the one principal it *)
(* accepts, or {} for an error.  Which error it was only words the audit   *)
(* reason, except MissingCredentials, which Authenticate tests itself.     *)
(***************************************************************************)
EXTENDS Principals, Integers, Sequences

CONSTANTS
    Jwt,        \* the well-formed JWTs: a function from token to its claims
    Leeway      \* clock skew the JWT validation tolerates

ASSUME JwtAssumption ==
    /\ "jwt" \in Names
    /\ \A t \in DOMAIN Jwt :
          /\ Jwt[t].sub \in Names \cup {None}
          /\ Jwt[t].scopes # None =>
                Jwt[t].scopes.items \subseteq GrantedScopes \cup {None}

(* extract_bearer: any other scheme, or an absent header, is no bearer. *)
ExtractBearer(authorization) ==
    IF authorization # None /\ authorization.scheme = "Bearer"
    THEN authorization.token
    ELSE None

(* extract_identity: a leaf that does not parse is no client certificate.  *)
(* CN and SANs are kept as one set: verify matches either.                 *)
ExtractIdentity(certificate) ==
    IF certificate # None /\ certificate.parses
    THEN certificate.subjects
    ELSE None

(* StaticTokenBackend::verify scans every entry: the last match wins. *)
TokenVerify(tokens, presented) ==
    LET matched == {i \in DOMAIN tokens : tokens[i].token = presented}
    IN  {[name |-> tokens[i].name, scopes |-> tokens[i].scopes] :
            i \in {m \in matched : \A other \in matched : other <= m}}

(* MtlsBackend::verify returns from its loop: the first match wins. *)
MtlsVerify(mappings, subjects) ==
    LET matched == {i \in DOMAIN mappings : mappings[i].subject \in subjects}
    IN  {[name |-> mappings[i].name, scopes |-> mappings[i].scopes] :
            i \in {m \in matched : \A other \in matched : m <= other}}

(* build_validation: the one algorithm, issuer and audience of the         *)
(* backend, and not-before is looked at.  The rest stays at the library's  *)
(* defaults.                                                               *)
BuildValidation(jwt, algorithm) ==
    [algorithm |-> algorithm, iss |-> jwt.issuer, aud |-> jwt.audience, validate_nbf |-> TRUE]

(* jsonwebtoken's decode: the algorithm of the validation, a signature by  *)
(* the key, and the claims, where exp alone is required: iss and aud are   *)
(* compared if the token has them.                                         *)
Decodes(token, key, validation, now) ==
    /\ token \in DOMAIN Jwt
    /\ Jwt[token].alg = validation.algorithm
    /\ Jwt[token].key = key
    /\ Jwt[token].iss \in {validation.iss, None}
    /\ Jwt[token].aud \in {validation.aud, None}
    /\ now <= Jwt[token].exp + Leeway
    /\ validation.validate_nbf => Jwt[token].nbf <= now + Leeway

(* extract_scopes: the strings of an array, or the words of a string.      *)
(* Items that are no strings are None here; any other claim has no scopes. *)
ExtractScopes(claim) ==
    IF claim # None /\ claim.type \in {"array", "string"} THEN claim.items \ {None} ELSE {}

(* Mutant: no name for a token without a subject. *)
PrincipalFromClaimsNameless(claims) ==
    [name |-> claims.sub, scopes |-> ExtractScopes(claims.scopes)]

(* principal_from_claims: a token without a subject is called "jwt". *)
PrincipalFromClaims(claims) ==
    [name |-> IF claims.sub = None THEN "jwt" ELSE claims.sub,
     scopes |-> ExtractScopes(claims.scopes)]

(* JwtBackend::verify: any of the keys may accept the token, under the     *)
(* validation that was built with the backend.                             *)
JwtVerify(jwt, token, now) ==
    LET validation == BuildValidation(jwt, jwt.algorithm)
    IN  {PrincipalFromClaims(Jwt[token]) :
            key \in {k \in jwt.keys : Decodes(token, k, validation, now)}}

(* What the active backend looks at; None is MissingCredentials. *)
Presented(config, request) ==
    IF config.mode = "mtls"
    THEN ExtractIdentity(request.certificate)
    ELSE ExtractBearer(request.authorization)

(* The backend that auth.mode selected, on a credential that is there. *)
Verify(config, credential, now) ==
    CASE config.mode = "bearer" -> TokenVerify(config.tokens, credential)
      [] config.mode = "jwt"    -> JwtVerify(config.jwt, credential, now)
      [] config.mode = "mtls"   -> MtlsVerify(config.mtls, credential)

(* Mutant: a bad credential is treated as none. *)
AuthenticateDowngrading(config, request, now) ==
    LET credential == Presented(config, request)
        verified == IF credential = None THEN {} ELSE Verify(config, credential, now)
    IN  IF verified = {} /\ config.allow_anonymous_read THEN {Anonymous} ELSE verified

(* Authenticator::authenticate: only an absent credential is anonymous. *)
Authenticate(config, request, now) ==
    LET credential == Presented(config, request)
    IN  IF credential # None
        THEN Verify(config, credential, now)
        ELSE IF config.allow_anonymous_read THEN {Anonymous} ELSE {}
=============================================================================
