--------------------------- MODULE LifecycleProofs ---------------------------
(***************************************************************************)
(* The safety properties of the process, proved for any number of          *)
(* connections, configuration files, certificates, keys and restarts.  They *)
(* relate a request to what startup read several steps earlier, so none is *)
(* inductive; three invariants, each with the one before it as a part,     *)
(* carry the facts along.                                                  *)
(*                                                                         *)
(* Inv, for IdentityVerified and PlainShutdownDrains: the listener's roots *)
(* are those of the configured file (Listening), a connection's            *)
(* certificate has been checked against them (Vouched), and an mTLS        *)
(* principal implies a certificate (Identified).                           *)
(*                                                                         *)
(* SourceInv, for TypeOK, SecretsCurrent and KeyPublished: what the        *)
(* process works with was made from the deployed file, its environment and *)
(* a key set published since (Origin), and a known caller has one of its   *)
(* secrets or keys (Recognised).                                           *)
(*                                                                         *)
(* AllowanceInv, for BudgetPerProcess: the cell of the running process     *)
(* accounts for all that was admitted, but for a burst for each process    *)
(* before it (Allowance).                                                  *)
(***************************************************************************)
EXTENDS Lifecycle, QuotaProofs

Up == {"serving", "draining"}

(* Enough of the types to reason about a connection's own step. *)
Shape ==
    /\ conn \in [Connections -> ConnStage]
    /\ peer \in [Connections -> Certificates \cup {None}]
    /\ principal = [c \in Connections |-> principal[c]]

(* What startup has established by the time the listener is up. *)
Listening ==
    /\ stage = "binding" => backend.mode = config.auth.mode
    /\ stage \in Up =>
          /\ app.mode = config.auth.mode
          /\ config.tls.enabled => server \in LoadServerConfig(config.tls)
          /\ ~config.tls.enabled => server = None

(* Connections are with a listener that is up, handshakes with a TLS       *)
(* listener, and a client certificate was verified with its roots.         *)
Vouched(c) ==
    /\ conn[c] # "closed" => stage \in Up
    /\ conn[c] = "handshaking" => config.tls.enabled
    /\ peer[c] # None =>
          /\ stage \in Up /\ config.tls.enabled
          /\ peer[c].issuer \in server.roots

(* In mode mtls, somebody is known by a certificate only. *)
Identified(c) ==
    Known(c) => (config.auth.mode = "mtls" => peer[c] # None)

ConnectionInv(c) == Vouched(c) /\ Identified(c)

Inv ==
    /\ Shape
    /\ Listening
    /\ PlainShutdownDrains
    /\ \A c \in Connections : ConnectionInv(c)

-----------------------------------------------------------------------------
(* Every authenticator has the mode of its configuration (from_config,     *)
(* from_jwks).                                                             *)
LEMMA AuthenticatorMode ==
    ASSUME NEW auth, NEW set,
           NEW authenticator \in FromConfig(auth) \cup FromJwks(auth, set)
    PROVE  authenticator.mode = auth.mode
  BY DEF FromConfig, FromJwks, MkAuthenticator

(* The roots of a listener, if it has any, are the certificates of the     *)
(* configured CA file, and it asks for client certificates                 *)
(* (load_server_config).                                                   *)
LEMMA RootsAreConfigured ==
    ASSUME NEW tls, NEW loaded \in LoadServerConfig(tls), NEW ca \in loaded.roots
    PROVE  tls.require_client_cert /\ ca \in Pem[tls.client_ca].certs
PROOF
  <1>1. tls.require_client_cert /\ loaded.roots \in LoadRootStore(tls.client_ca)
    BY DEF LoadServerConfig
  <1>2. loaded.roots = Pem[tls.client_ca].certs
    BY <1>1 DEF LoadRootStore, LoadCerts, Read
  <1> QED  BY <1>1, <1>2

(* Mode mtls accepts somebody only with a certificate (authenticate).      *)
LEMMA MtlsNeedsCertificate ==
    ASSUME NEW c, NEW authorization, app.mode = "mtls",
           NEW p \in Accepted(c, authorization), p # Anonymous
    PROVE  peer[c] # None
PROOF
  <1>1. Presented(app, [authorization |-> authorization, certificate |-> peer[c]])
            = ExtractIdentity(peer[c])
    BY DEF Presented
  <1>2. ExtractIdentity(peer[c]) # None
    BY <1>1 DEF Accepted, Authenticate
  <1> QED  BY <1>2 DEF ExtractIdentity

(* The invariant implies what the run checks. *)
LEMMA InvIdentity == Inv => IdentityVerified
PROOF
  <1> SUFFICES ASSUME Inv, NEW c \in Connections, Known(c), config.auth.mode = "mtls"
               PROVE  /\ config.tls.enabled /\ config.tls.require_client_cert
                      /\ peer[c].issuer \in Pem[config.tls.client_ca].certs
    BY DEF IdentityVerified
  <1>1. peer[c] # None /\ stage \in Up
    BY DEF Inv, ConnectionInv, Vouched, Identified, Known
  <1>2. config.tls.enabled /\ peer[c].issuer \in server.roots
    BY <1>1 DEF Inv, ConnectionInv, Vouched
  <1>3. server \in LoadServerConfig(config.tls)
    BY <1>1, <1>2 DEF Inv, Listening
  <1> QED  BY <1>2, <1>3, RootsAreConfigured

-----------------------------------------------------------------------------
(* Init establishes the invariant: nothing is up. *)
LEMMA InitInv == Init => Inv
  BY DEF Init, Inv, Shape, ConnStage, Listening, PlainShutdownDrains, ConnectionInv, Vouched,
         Identified, Known, Up

(* The end of a process preserves the invariant, if it is no shutdown, or  *)
(* one that leaves no request unanswered or one of a TLS listener.         *)
LEMMA ExitInv ==
    ASSUME Inv, NEW reason, Exit(reason),
           reason \in {"drained", "stopped"} => Taken = {} \/ config.tls.enabled
    PROVE  Inv'
PROOF
  <1>1. Shape' /\ PlainShutdownDrains'
    BY DEF Shape, Exit, ConnStage, PlainShutdownDrains
  <1>2. Listening'
    BY DEF Listening, Exit, Up
  <1>3. ASSUME NEW c \in Connections PROVE ConnectionInv(c)'
    BY DEF Exit, ConnectionInv, Vouched, Identified, Known
  <1> QED  BY <1>1, <1>2, <1>3 DEF Inv

(* Starting and failing to start preserve the invariant: with no process,  *)
(* no connection has a certificate or a request.                           *)
LEMMA StartInv ==
    ASSUME Inv, Start \/ StartFails
    PROVE  Inv'
PROOF
  <1>1. stage = "down" /\ stage' \in {"down", "authenticating"} /\ exit' \in {"none", "config", "setup"}
        /\ UNCHANGED connection
    BY DEF Start, StartFails
  <1>2. Shape' /\ PlainShutdownDrains' /\ Listening'
    BY <1>1 DEF Inv, Shape, connection, PlainShutdownDrains, Listening, Up
  <1>3. ASSUME NEW c \in Connections PROVE ConnectionInv(c)'
    BY <1>1 DEF Inv, ConnectionInv, Vouched, Identified, Known, connection, Up
  <1> QED  BY <1>1, <1>2, <1>3 DEF Inv

(* The authenticator and the listener preserve the invariant: they come    *)
(* from the loaded configuration.                                          *)
LEMMA StartupInv ==
    ASSUME Inv, BuildAuthenticator \/ FetchJwks \/ Bind
    PROVE  Inv'
PROOF
  <1>1. /\ stage \in {"authenticating", "binding"} /\ config' = config
        /\ exit' = exit /\ cut' = cut /\ UNCHANGED connection
    BY DEF BuildAuthenticator, FetchJwks, Bind, Authenticated
  <1>2. Shape' /\ PlainShutdownDrains'
    BY <1>1 DEF Inv, Shape, connection, PlainShutdownDrains
  <1>3. Listening'
    <2>1. CASE BuildAuthenticator \/ FetchJwks
      <3>1. PICK authenticator \in FromConfig(config.auth) \cup FromJwks(config.auth, published) :
                Authenticated(authenticator)
        BY <2>1 DEF BuildAuthenticator, FetchJwks
      <3>2. authenticator.mode = config.auth.mode
        BY AuthenticatorMode
      <3> QED  BY <3>1, <3>2, <1>1 DEF Listening, Authenticated, Up
    <2>2. CASE Bind
      <3>1. backend.mode = config.auth.mode
        BY <2>2 DEF Bind, Inv, Listening
      <3>2. app'.mode = config.auth.mode
        BY <2>2, <3>1 DEF Bind, AppState
      <3> QED  BY <2>2, <3>2, <1>1 DEF Bind, Listening
    <2> QED  BY <2>1, <2>2, <1>1
  <1>4. ASSUME NEW c \in Connections PROVE ConnectionInv(c)'
    BY <1>1 DEF Inv, ConnectionInv, Vouched, Identified, Known, connection, Up
  <1> QED  BY <1>2, <1>3, <1>4 DEF Inv

-----------------------------------------------------------------------------
(* A step of one connection in a process that stays as it is: the          *)
(* invariant has to be checked for that connection only.                   *)
LEMMA ConnectionStep ==
    ASSUME Inv, NEW c \in Connections,
           UNCHANGED <<stage, exit, cut, config, backend, app, server>>,
           Shape',
           \A d \in Connections \ {c} :
               conn'[d] = conn[d] /\ peer'[d] = peer[d] /\ principal'[d] = principal[d],
           ConnectionInv(c)'
    PROVE  Inv'
PROOF
  <1>1. Listening' /\ PlainShutdownDrains'
    BY DEF Inv, Listening, PlainShutdownDrains
  <1>2. ASSUME NEW d \in Connections PROVE ConnectionInv(d)'
    <2>1. CASE d = c
      BY <2>1
    <2>2. CASE d # c
      <3>1. ConnectionInv(d)
        BY DEF Inv
      <3> QED  BY <2>2, <3>1 DEF ConnectionInv, Vouched, Identified, Known
    <2> QED  BY <2>1, <2>2
  <1> QED  BY <1>1, <1>2 DEF Inv

(* Connections that come and go preserve the invariant: only a TLS         *)
(* listener hands a connection to a handshake (serve).                     *)
LEMMA TransportInv ==
    ASSUME Inv, NEW c \in Connections,
           Connect(c) \/ Accept(c) \/ Disconnect(c) \/ CloseIdle(c)
    PROVE  Inv'
PROOF
  <1>1. ConnectionInv(c) /\ Shape
    BY DEF Inv
  <1>2. UNCHANGED <<stage, exit, cut, config, backend, app, server>>
    BY DEF Connect, Accept, Disconnect, CloseIdle, Serving, process
  <1>3. Shape'
    BY <1>1 DEF Connect, Accept, Disconnect, CloseIdle, Goto, Shape, ConnStage
  <1>4. \A d \in Connections \ {c} :
            conn'[d] = conn[d] /\ peer'[d] = peer[d] /\ principal'[d] = principal[d]
    BY <1>1 DEF Connect, Accept, Disconnect, CloseIdle, Goto, Shape
  <1>5. ConnectionInv(c)'
    <2>1. CASE Connect(c)
      BY <2>1, <1>1, <1>2 DEF Connect, Goto, Shape, ConnectionInv, Vouched, Identified, Known, Up
    <2>2. CASE Accept(c)
      <3>1. server # None => config.tls.enabled
        BY <2>2 DEF Accept, Inv, Listening, Up
      <3> QED  BY <2>2, <3>1, <1>1, <1>2 DEF Accept, Goto, Shape, ConnectionInv, Vouched,
                                              Identified, Known, Up
    <2>3. CASE Disconnect(c)
      BY <2>3, <1>1, <1>2 DEF Disconnect, Goto, Shape, ConnectionInv, Vouched, Identified, Known
    <2>4. CASE CloseIdle(c)
      BY <2>4, <1>1, <1>2 DEF CloseIdle, Goto, Shape, ConnectionInv, Vouched, Identified, Known
    <2> QED  BY <2>1, <2>2, <2>3, <2>4
  <1> QED  BY <1>2, <1>3, <1>4, <1>5, ConnectionStep

(* A handshake preserves the invariant: rustls has checked the certificate *)
(* against the listener's roots.                                           *)
LEMMA HandshakeInv ==
    ASSUME Inv, NEW c \in Connections, HandshakeOk(c)
    PROVE  Inv'
PROOF
  <1>1. ConnectionInv(c) /\ Shape
    BY DEF Inv
  <1>2. UNCHANGED <<stage, exit, cut, config, backend, app, server, principal>>
    BY DEF HandshakeOk, Serving, process
  <1>3. PICK certificate \in Certificates \cup {None} :
            /\ Verifies(server.roots, certificate)
            /\ peer' = [peer EXCEPT ![c] = certificate]
    BY DEF HandshakeOk
  <1>4. conn[c] = "handshaking" /\ conn' = [conn EXCEPT ![c] = "open"]
    BY DEF HandshakeOk, Goto
  <1>5. Shape'
    BY <1>1, <1>2, <1>3, <1>4 DEF Shape, ConnStage
  <1>6. peer'[c] = certificate /\ conn'[c] = "open"
    BY <1>1, <1>3, <1>4 DEF Shape
  <1>7. certificate # None => certificate.issuer \in server.roots
    BY <1>3 DEF Verifies
  <1>8. ConnectionInv(c)'
    BY <1>1, <1>2, <1>4, <1>6, <1>7 DEF ConnectionInv, Vouched, Identified, Known
  <1>9. \A d \in Connections \ {c} :
            conn'[d] = conn[d] /\ peer'[d] = peer[d] /\ principal'[d] = principal[d]
    BY <1>1, <1>2, <1>3, <1>4 DEF Shape
  <1> QED  BY <1>2, <1>5, <1>8, <1>9, ConnectionStep

(* Requests preserve the invariant: the backend of mode mtls takes nobody  *)
(* for known without the connection's certificate (handle).                *)
LEMMA RequestInv ==
    ASSUME Inv, NEW c \in Connections,
           Begin(c) \/ Handle(c) \/ Refuse(c) \/ Respond(c)
    PROVE  Inv'
PROOF
  <1>1. ConnectionInv(c) /\ Shape
    BY DEF Inv
  <1>2. UNCHANGED <<stage, exit, cut, config, backend, app, server, peer>>
    BY DEF Begin, Handle, Refuse, Respond, Serving, process
  <1>3. conn[c] # "closed" /\ stage \in Up
    BY <1>1 DEF Begin, Handle, Refuse, Respond, ConnectionInv, Vouched
  <1>4. Shape'
    BY <1>1, <1>2 DEF Begin, Handle, Refuse, Respond, Goto, AfterAnswer, Shape, ConnStage
  <1>5. \A d \in Connections \ {c} :
            conn'[d] = conn[d] /\ peer'[d] = peer[d] /\ principal'[d] = principal[d]
    BY <1>1, <1>2 DEF Begin, Handle, Refuse, Respond, Goto, Shape
  <1>6. ConnectionInv(c)'
    <2>1. CASE Begin(c) \/ Refuse(c) \/ Respond(c)
      <3>1. conn'[c] \in {"receiving", "open", "closed"}
        BY <2>1, <1>1 DEF Begin, Refuse, Respond, Goto, AfterAnswer, Shape
      <3> QED  BY <3>1, <1>1, <1>2, <1>3 DEF ConnectionInv, Vouched, Identified, Known
    <2>2. CASE Handle(c)
      <3>1. PICK request \in Requests :
                \E p \in Accepted(c, request.authorization) :
                    principal' = [principal EXCEPT ![c] = p]
        BY <2>2 DEF Handle
      <3>. PICK p \in Accepted(c, request.authorization) : principal' = [principal EXCEPT ![c] = p]
        BY <3>1
      <3>2. principal'[c] = p /\ conn'[c] = "awaiting"
        BY <2>2, <1>1 DEF Handle, Goto, Shape
      <3>3. app.mode = config.auth.mode
        BY <1>3 DEF Inv, Listening
      <3>4. config.auth.mode = "mtls" /\ p # Anonymous => peer[c] # None
        BY <3>3, MtlsNeedsCertificate
      <3> QED  BY <3>2, <3>4, <1>1, <1>2, <1>3 DEF ConnectionInv, Vouched, Identified, Known
    <2> QED  BY <2>1, <2>2
  <1> QED  BY <1>2, <1>4, <1>5, <1>6, ConnectionStep

(* Ctrl-C at the plain listener preserves the invariant. *)
LEMMA DrainInv ==
    ASSUME Inv, Drain
    PROVE  Inv'
PROOF
  <1>1. /\ stage = "serving" /\ stage' = "draining"
        /\ UNCHANGED <<exit, cut, config, backend, app, server, peer, principal>>
    BY DEF Drain, process
  <1>2. Shape'
    BY <1>1 DEF Inv, Shape, Drain, ConnStage
  <1>3. Listening' /\ PlainShutdownDrains'
    BY <1>1 DEF Inv, Listening, PlainShutdownDrains, Up
  <1>4. ASSUME NEW c \in Connections PROVE ConnectionInv(c)'
    <2>1. conn'[c] \in {conn[c], "closed"}
      BY DEF Drain
    <2>2. ConnectionInv(c)
      BY DEF Inv
    <2> QED  BY <1>1, <2>1, <2>2 DEF ConnectionInv, Vouched, Identified, Known, Up
  <1> QED  BY <1>2, <1>3, <1>4 DEF Inv

(* The ends of a process preserve the invariant: a drained one has no      *)
(* connection left, and only a TLS listener stops at once.                 *)
LEMMA EndInv ==
    ASSUME Inv,
           \/ BuildFails \/ FetchFails \/ BindFails \/ AcceptFails
           \/ Drained \/ Stop \/ Kill
    PROVE  Inv'
PROOF
  <1>1. CASE BuildFails \/ FetchFails \/ BindFails \/ AcceptFails \/ Kill
    <2>1. PICK reason \in {"authenticator", "listener", "accept", "killed"} : Exit(reason)
      BY <1>1 DEF BuildFails, FetchFails, BindFails, AcceptFails, Kill
    <2> QED  BY <2>1, ExitInv
  <1>2. CASE Drained
    <2>1. Taken = {} /\ Exit("drained")
      BY <1>2 DEF Drained, Taken
    <2> QED  BY <2>1, ExitInv
  <1>3. CASE Stop
    <2>1. config.tls.enabled /\ Exit("stopped")
      BY <1>3 DEF Stop, Inv, Listening, Up
    <2> QED  BY <2>1, ExitInv
  <1> QED  BY <1>1, <1>2, <1>3

(* The clock and the identity provider do not touch the process. *)
LEMMA WorldInv ==
    ASSUME Inv, Tick \/ Rotate \/ UNCHANGED vars
    PROVE  Inv'
PROOF
  <1>1. UNCHANGED <<stage, exit, cut, config, backend, app, server, conn, peer, principal>>
    BY DEF Tick, Rotate, vars, process, connection
  <1> QED  BY <1>1 DEF Inv, Shape, Listening, PlainShutdownDrains, ConnectionInv, Vouched,
                       Identified, Known

(* Every step preserves the invariant. *)
LEMMA NextInv == Inv /\ [Next]_vars => Inv'
PROOF
  <1> SUFFICES ASSUME Inv, [Next]_vars
               PROVE  Inv'
    OBVIOUS
  <1>1. CASE Start \/ StartFails
    BY <1>1, StartInv
  <1>2. CASE BuildAuthenticator \/ FetchJwks \/ Bind
    BY <1>2, StartupInv
  <1>3. CASE BuildFails \/ FetchFails \/ BindFails \/ AcceptFails \/ Drained \/ Stop \/ Kill
    BY <1>3, EndInv
  <1>4. ASSUME NEW c \in Connections,
               \/ Connect(c) \/ Accept(c) \/ HandshakeOk(c) \/ Disconnect(c)
               \/ Begin(c) \/ Handle(c) \/ Refuse(c) \/ Respond(c) \/ CloseIdle(c)
        PROVE  Inv'
    <2>1. CASE Connect(c) \/ Accept(c) \/ Disconnect(c) \/ CloseIdle(c)
      BY <2>1, TransportInv
    <2>2. CASE HandshakeOk(c)
      BY <2>2, HandshakeInv
    <2>3. CASE Begin(c) \/ Handle(c) \/ Refuse(c) \/ Respond(c)
      BY <2>3, RequestInv
    <2> QED  BY <1>4, <2>1, <2>2, <2>3
  <1>5. CASE Drain
    BY <1>5, DrainInv
  <1>6. CASE Tick \/ Rotate \/ UNCHANGED vars
    BY <1>6, WorldInv
  <1> QED  BY <1>1, <1>2, <1>3, <1>4, <1>5, <1>6 DEF Next

-----------------------------------------------------------------------------
(* The invariant holds throughout. *)
LEMMA Invariance == Spec => []Inv
  BY InitInv, NextInv, PTL DEF Spec

(* An mTLS principal always comes with a certificate that chains to the    *)
(* configured CA, and a listener that does not verify client certificates  *)
(* knows nobody, through any number of restarts with other files           *)
(* (load_server_config, serve_connection, authenticate).                   *)
THEOREM VerifiedIdentity == Spec => []IdentityVerified
  BY Invariance, InvIdentity, PTL

(* A plain gateway that is asked to shut down has answered every request   *)
(* it has taken when its process ends (with_graceful_shutdown).            *)
THEOREM ShutdownDrains == Spec => []PlainShutdownDrains
PROOF
  <1>1. Inv => PlainShutdownDrains
    BY DEF Inv
  <1> QED  BY <1>1, Invariance, PTL

-----------------------------------------------------------------------------
(* Where the credentials come from: the file and the environment of the    *)
(* last start, the configuration loaded from them, the authenticator built *)
(* from that and from a key set published since, and the state the         *)
(* handlers share.                                                         *)

Origin ==
    /\ stage # "down" =>
          /\ deployed.file \in Files /\ deployed.env \in Envs
          /\ config \in Load(deployed.file, deployed.env)
          /\ published \in offered
    /\ stage \in {"binding"} \cup Up =>
          IF NeedsJwks(config.auth)
          THEN \E document \in offered : backend \in FromJwks(config.auth, document)
          ELSE backend \in FromConfig(config.auth)
    /\ stage \in Up => app = AppState(config, backend, FALSE)

(* Somebody is known by a configured token, or by a JWT one of the keys    *)
(* signed with the algorithm of the backend.                               *)
Recognised(c) ==
    Known(c) =>
        /\ app.mode = "bearer" =>
              \E i \in DOMAIN app.tokens : app.tokens[i].token = token[c].token
        /\ app.mode = "jwt" => /\ Jwt[token[c].token].key \in app.jwt.keys
                               /\ Jwt[token[c].token].alg = app.jwt.algorithm

SourceInv == Inv /\ TypeOK /\ Origin /\ \A c \in Connections : Recognised(c)

(* Config::load keeps what the file says, but for the secrets, each of     *)
(* which it resolves.                                                      *)
LEMMA LoadKeeps ==
    ASSUME NEW file \in Files, NEW env \in Envs, NEW loaded \in Load(file, env),
           NEW auth, auth = DeserializeAuth(file.auth)
    PROVE  /\ loaded.auth.mode = auth.mode /\ loaded.auth.mtls = auth.mtls
           /\ loaded.per_minute = DeserializeRateLimit(file.ratelimit)
           /\ DOMAIN loaded.auth.tokens = DOMAIN auth.tokens
           /\ \A i \in DOMAIN auth.tokens :
                 /\ loaded.auth.tokens[i].name = auth.tokens[i].name
                 /\ loaded.auth.tokens[i].scopes = auth.tokens[i].scopes
                 /\ loaded.auth.tokens[i].token \in ResolveSecret(auth.tokens[i].token, env)
           /\ Hs256Secret(auth) # None =>
                 Hs256Secret(loaded.auth) \in ResolveSecret(Hs256Secret(auth), env)
PROOF
  <1> DEFINE secrets == {auth.tokens[i].token : i \in DOMAIN auth.tokens}
                            \cup ({Hs256Secret(auth)} \ {None})
             Value(raw) == CHOOSE value \in ResolveSecret(raw, env) : TRUE
             jwt == IF Hs256Secret(auth) = None THEN auth.jwt
                    ELSE [issuer |-> auth.jwt.issuer, audience |-> auth.jwt.audience,
                          jwks_url |-> auth.jwt.jwks_url,
                          hs256_secret |-> Value(Hs256Secret(auth))]
  <1>1. /\ loaded.auth \in ResolveSecrets(auth, env)
        /\ loaded.per_minute = DeserializeRateLimit(file.ratelimit)
    BY DEF Load, Deserialize
  <1>2. /\ \A raw \in secrets : ResolveSecret(raw, env) # {}
        /\ loaded.auth =
              [mode |-> auth.mode, allow_anonymous_read |-> auth.allow_anonymous_read,
               tokens |-> [i \in DOMAIN auth.tokens |->
                              [name |-> auth.tokens[i].name,
                               token |-> Value(auth.tokens[i].token),
                               scopes |-> auth.tokens[i].scopes]],
               jwt |-> jwt, mtls |-> auth.mtls]
    BY <1>1 DEF ResolveSecrets
  <1>3. ASSUME NEW raw \in secrets PROVE Value(raw) \in ResolveSecret(raw, env)
    BY <1>2
  <1> HIDE DEF Value
  <1>4. /\ loaded.auth.mode = auth.mode /\ loaded.auth.mtls = auth.mtls
        /\ loaded.auth.jwt = jwt
        /\ DOMAIN loaded.auth.tokens = DOMAIN auth.tokens
        /\ \A i \in DOMAIN auth.tokens :
              /\ loaded.auth.tokens[i].name = auth.tokens[i].name
              /\ loaded.auth.tokens[i].scopes = auth.tokens[i].scopes
              /\ loaded.auth.tokens[i].token = Value(auth.tokens[i].token)
    BY <1>2
  <1>5. ASSUME Hs256Secret(auth) # None
        PROVE  Hs256Secret(loaded.auth) \in ResolveSecret(Hs256Secret(auth), env)
    <2>1. loaded.auth.jwt # None
      BY <1>5, NoneIsNoSection DEF Hs256Secret, DeserializeAuth
    <2>2. Hs256Secret(loaded.auth) = Value(Hs256Secret(auth))
      BY <2>1, <1>4, <1>5 DEF Hs256Secret
    <2> QED  BY <2>2, <1>3, <1>5
  <1> QED  BY <1>1, <1>3, <1>4, <1>5

(* resolve_secret yields a value that the file spells out or that the      *)
(* environment holds, never nothing.                                       *)
LEMMA Resolves ==
    ASSUME NEW raw, raw.text # None, deployed.env \in Envs,
           NEW value \in ResolveSecret(raw, deployed.env)
    PROVE  value # None /\ \A secrets : raw \in secrets => value \in Configured(secrets)
PROOF
  <1>1. CASE raw.var = None
    <2>1. value = raw.text
      BY <1>1 DEF ResolveSecret
    <2> QED  BY <1>1, <2>1 DEF Configured
  <1>2. CASE raw.var # None
    <2>1. raw.var \in DOMAIN deployed.env /\ value = deployed.env[raw.var]
      BY <1>2 DEF ResolveSecret
    <2> QED  BY <2>1, EnvsAssumption DEF Configured
  <1> QED  BY <1>1, <1>2

(* What the handlers of a process that is up work with. *)
LEMMA AppFromFile ==
    ASSUME SourceInv, stage \in Up, NEW auth, auth = DeserializeAuth(deployed.file.auth)
    PROVE  /\ deployed.file \in Files /\ deployed.env \in Envs
           /\ app.mode = auth.mode /\ app.mode \in {"bearer", "jwt", "mtls"}
           /\ app.mtls = auth.mtls
           /\ DOMAIN app.tokens = DOMAIN auth.tokens
           /\ \A i \in DOMAIN auth.tokens :
                 /\ app.tokens[i].name = auth.tokens[i].name
                 /\ app.tokens[i].scopes = auth.tokens[i].scopes
                 /\ app.tokens[i].token \in ResolveSecret(auth.tokens[i].token, deployed.env)
           /\ app.per_minute = DeserializeRateLimit(deployed.file.ratelimit)
           /\ app.per_minute \in [Scope -> Nat]
PROOF
  <1>1. /\ deployed.file \in Files /\ deployed.env \in Envs
        /\ config \in Load(deployed.file, deployed.env)
        /\ app = AppState(config, backend, FALSE)
        /\ \/ backend \in FromConfig(config.auth)
           \/ \E document \in offered : backend \in FromJwks(config.auth, document)
    BY DEF SourceInv, Origin, Up
  <1>2. /\ backend.mode = config.auth.mode /\ backend.tokens = config.auth.tokens
        /\ backend.mtls = config.auth.mtls
    BY <1>1 DEF FromConfig, FromJwks, MkAuthenticator
  <1>3. /\ app.mode = backend.mode /\ app.tokens = backend.tokens /\ app.mtls = backend.mtls
        /\ app.per_minute = config.per_minute
    BY <1>1 DEF AppState
  <1>4. auth.mode \in {"bearer", "jwt", "mtls"}
        /\ DeserializeRateLimit(deployed.file.ratelimit) \in [Scope -> Nat]
    BY <1>1, FilesAssumption
  <1>5. /\ config.auth.mode = auth.mode /\ config.auth.mtls = auth.mtls
        /\ config.per_minute = DeserializeRateLimit(deployed.file.ratelimit)
        /\ DOMAIN config.auth.tokens = DOMAIN auth.tokens
        /\ \A i \in DOMAIN auth.tokens :
              /\ config.auth.tokens[i].name = auth.tokens[i].name
              /\ config.auth.tokens[i].scopes = auth.tokens[i].scopes
              /\ config.auth.tokens[i].token \in ResolveSecret(auth.tokens[i].token, deployed.env)
    BY <1>1, LoadKeeps
  <1>6. /\ app.mode = config.auth.mode /\ app.tokens = config.auth.tokens
        /\ app.mtls = config.auth.mtls /\ app.per_minute = config.per_minute
    BY <1>2, <1>3
  <1>7. deployed.file \in Files /\ deployed.env \in Envs
    BY <1>1
  <1> QED  BY <1>4, <1>5, <1>6, <1>7

(* Whoever the backend accepts has a name and scopes from the              *)
(* configuration or from a verified token (authenticate).                  *)
LEMMA AcceptedIsPrincipal ==
    ASSUME SourceInv, stage \in Up, NEW c, NEW authorization,
           NEW p \in Accepted(c, authorization)
    PROVE  p \in Principal
PROOF
  <1> DEFINE auth == DeserializeAuth(deployed.file.auth)
             request == [authorization |-> authorization, certificate |-> peer[c]]
             credential == Presented(app, request)
  <1>1. CASE credential = None
    BY <1>1, AnonymousIsAName DEF Accepted, Authenticate, Anonymous, Principal, GrantedScopes, Scope
  <1>2. CASE credential # None
    <2>1. p \in Verify(app, credential, now)
      BY <1>2 DEF Accepted, Authenticate
    <2> HIDE DEF credential, request
    <2>2. /\ app.mode \in {"bearer", "jwt", "mtls"} /\ app.mtls = auth.mtls
          /\ deployed.file \in Files /\ DOMAIN app.tokens = DOMAIN auth.tokens
          /\ \A i \in DOMAIN auth.tokens :
                app.tokens[i].name = auth.tokens[i].name /\ app.tokens[i].scopes = auth.tokens[i].scopes
      BY AppFromFile
    <2>3. /\ \A i \in DOMAIN auth.tokens :
                auth.tokens[i].name \in Names /\ auth.tokens[i].scopes \subseteq GrantedScopes
          /\ \A i \in DOMAIN auth.mtls :
                auth.mtls[i].name \in Names /\ auth.mtls[i].scopes \subseteq GrantedScopes
      BY <2>2, FilesAssumption
    <2> HIDE DEF auth
    <2>4. CASE app.mode = "bearer"
      <3>1. p \in TokenVerify(app.tokens, credential)
        BY <2>1, <2>4 DEF Verify
      <3>2. PICK i \in DOMAIN app.tokens :
                p = [name |-> app.tokens[i].name, scopes |-> app.tokens[i].scopes]
        BY <3>1 DEF TokenVerify
      <3> QED  BY <3>2, <2>2, <2>3 DEF Principal
    <2>5. CASE app.mode = "mtls"
      <3>1. p \in MtlsVerify(app.mtls, credential)
        BY <2>1, <2>5 DEF Verify
      <3>2. PICK i \in DOMAIN app.mtls :
                p = [name |-> app.mtls[i].name, scopes |-> app.mtls[i].scopes]
        BY <3>1 DEF MtlsVerify
      <3> QED  BY <3>2, <2>2, <2>3 DEF Principal
    <2>6. CASE app.mode = "jwt"
      <3>1. p \in JwtVerify(app.jwt, credential, now)
        BY <2>1, <2>6 DEF Verify
      <3>2. p = PrincipalFromClaims(Jwt[credential]) /\ credential \in DOMAIN Jwt
        BY <3>1 DEF JwtVerify, Decodes
      <3>3. ExtractScopes(Jwt[credential].scopes) \subseteq GrantedScopes
        BY <3>2, JwtAssumption DEF ExtractScopes
      <3> QED  BY <3>2, <3>3, JwtAssumption DEF PrincipalFromClaims, Principal
    <2> QED  BY <2>2, <2>4, <2>5, <2>6
  <1> QED  BY <1>1, <1>2

(* Whoever the backend accepts without a certificate, but as somebody, has *)
(* shown a configured token or a JWT that one of the keys signed with the  *)
(* backend's algorithm (StaticTokenBackend::verify, JwtBackend::verify).   *)
LEMMA AcceptedIsRecognised ==
    ASSUME NEW c, NEW authorization, NEW p \in Accepted(c, authorization), p # Anonymous
    PROVE  /\ app.mode = "bearer" =>
                 \E i \in DOMAIN app.tokens : app.tokens[i].token = authorization.token
           /\ app.mode = "jwt" => /\ Jwt[authorization.token].key \in app.jwt.keys
                                  /\ Jwt[authorization.token].alg = app.jwt.algorithm
PROOF
  <1> DEFINE credential ==
                 Presented(app, [authorization |-> authorization, certificate |-> peer[c]])
  <1>1. credential # None /\ p \in Verify(app, credential, now)
    BY DEF Accepted, Authenticate
  <1>2. app.mode # "mtls" => credential = authorization.token
    BY <1>1 DEF Presented, ExtractBearer
  <1> HIDE DEF credential
  <1>3. CASE app.mode = "bearer"
    <2>1. p \in TokenVerify(app.tokens, credential)
      BY <1>1, <1>3 DEF Verify
    <2> QED  BY <2>1, <1>2, <1>3 DEF TokenVerify
  <1>4. CASE app.mode = "jwt"
    <2>1. p \in JwtVerify(app.jwt, credential, now)
      BY <1>1, <1>4 DEF Verify
    <2>2. PICK key \in app.jwt.keys :
              Decodes(credential, key, BuildValidation(app.jwt, app.jwt.algorithm), now)
      BY <2>1 DEF JwtVerify
    <2> QED  BY <2>2, <1>2, <1>4 DEF Decodes, BuildValidation
  <1> QED  BY <1>3, <1>4

-----------------------------------------------------------------------------
(* Every step preserves SourceInv. *)

(* One event more is still a history. *)
LEMMA RecordType ==
    ASSUME NEW since \in [Ticks -> Nat], now \in Nat
    PROVE  Record(since) \in [Ticks -> Nat]
  BY DEF Record, Ticks

(* With no process, nobody is known. *)
LEMMA InitSource == Init => SourceInv
PROOF
  <1> SUFFICES ASSUME Init PROVE SourceInv
    OBVIOUS
  <1>1. TypeOK
    <2>1. /\ stage \in Stage /\ exit \in ExitReason /\ cut \subseteq Connections
          /\ metrics \in {"off", "serving", "failed"}
          /\ now \in 0..MaxTime /\ published \in Documents /\ offered \subseteq Documents
      BY LifecycleBounds DEF Init, Stage, ExitReason
    <2>2. /\ full_at \in [Keys -> Nat] /\ conn \in [Connections -> ConnStage]
          /\ peer \in [Connections -> Certificates \cup {None}]
          /\ principal \in [Connections -> Principal \cup {None}]
      BY DEF Init, ConnStage
    <2>3. token \in [Connections -> {request.authorization : request \in Requests} \cup {None}]
      BY DEF Init
    <2>4. started \in [Ticks -> Nat] /\ admitted \in [Keys -> [Ticks -> Nat]]
      BY DEF Init
    <2> QED  BY <2>1, <2>2, <2>3, <2>4 DEF TypeOK
  <1>2. Origin /\ \A c \in Connections : Recognised(c)
    BY DEF Init, Origin, Up, Recognised, Known
  <1> QED  BY <1>1, <1>2, InitInv DEF SourceInv

(* The end of a process: what was known on its connections goes with them. *)
LEMMA ExitSource ==
    ASSUME SourceInv, Inv', NEW reason \in ExitReason, Exit(reason)
    PROVE  SourceInv'
PROOF
  <1>1. TypeOK'
    BY DEF SourceInv, TypeOK, Exit, Taken, Stage, ConnStage, world, history
  <1>2. Origin'
    BY DEF Exit, Origin, Up
  <1>3. ASSUME NEW c \in Connections PROVE Recognised(c)'
    BY DEF Exit, Recognised, Known
  <1> QED  BY <1>1, <1>2, <1>3 DEF SourceInv

(* Starting loads the configuration, and nobody is known yet. *)
LEMMA StartSource ==
    ASSUME SourceInv, Inv', Start \/ StartFails
    PROVE  SourceInv'
PROOF
  <1>1. TypeOK /\ now \in Nat /\ stage = "down" /\ UNCHANGED connection
    BY LifecycleBounds DEF SourceInv, TypeOK, Start, StartFails
  <1>2. ASSUME NEW c \in Connections PROVE Recognised(c)'
    <2>1. conn[c] = "closed"
      BY <1>1 DEF SourceInv, Inv, ConnectionInv, Vouched, Up
    <2> QED  BY <1>1, <2>1 DEF connection, Recognised, Known
  <1>3. Record(started) \in [Ticks -> Nat]
    BY <1>1, RecordType DEF TypeOK
  <1>4. CASE Start
    <2>1. TypeOK'
      BY <1>1, <1>3, <1>4 DEF TypeOK, Start, Stage, ExitReason, connection
    <2>2. PICK file \in Files, env \in Envs :
              /\ deployed' = [file |-> file, env |-> env]
              /\ config' \in Load(file, env)
      BY <1>4 DEF Start
    <2>3. Origin'
      BY <1>4, <2>2 DEF Start, Origin, Up
    <2> QED  BY <1>2, <2>1, <2>3 DEF SourceInv
  <1>5. CASE StartFails
    <2>1. TypeOK'
      BY <1>1, <1>3, <1>5 DEF TypeOK, StartFails, ExitReason, connection, process, world
    <2>2. Origin'
      BY <1>1, <1>5 DEF StartFails, Origin, Up
    <2> QED  BY <1>2, <2>1, <2>2 DEF SourceInv
  <1> QED  BY <1>4, <1>5

(* The authenticator is built from the configuration, and from the key set *)
(* as it is published then; the listener shares it with every handler.     *)
LEMMA StartupSource ==
    ASSUME SourceInv, Inv', BuildAuthenticator \/ FetchJwks \/ Bind
    PROVE  SourceInv'
PROOF
  <1>1. TypeOK /\ Origin
    BY DEF SourceInv
  <1>2. /\ stage \in {"authenticating", "binding"} /\ UNCHANGED connection
        /\ UNCHANGED <<deployed, config, exit, cut, metrics, full_at>>
        /\ UNCHANGED world /\ UNCHANGED history
    BY DEF BuildAuthenticator, FetchJwks, Bind, Authenticated
  <1>3. stage' \in {"binding", "serving"}
    BY DEF BuildAuthenticator, FetchJwks, Bind, Authenticated
  <1>4. TypeOK'
    BY <1>1, <1>2, <1>3 DEF TypeOK, Stage, connection, world, history
  <1>5. ASSUME NEW c \in Connections PROVE Recognised(c)'
    <2>1. conn[c] = "closed"
      BY <1>2 DEF SourceInv, Inv, ConnectionInv, Vouched, Up
    <2> QED  BY <1>2, <2>1 DEF connection, Recognised, Known
  <1>6. /\ deployed'.file \in Files /\ deployed'.env \in Envs
        /\ config' \in Load(deployed'.file, deployed'.env) /\ published' \in offered'
    BY <1>1, <1>2 DEF Origin, world
  <1>7. CASE BuildAuthenticator
    <2>1. ~NeedsJwks(config.auth) /\ backend' \in FromConfig(config.auth) /\ stage' = "binding"
      BY <1>7 DEF BuildAuthenticator, Authenticated
    <2>2. Origin'
      BY <1>2, <1>6, <2>1 DEF Origin, Up
    <2> QED  BY <1>4, <1>5, <2>2 DEF SourceInv
  <1>8. CASE FetchJwks
    <2>1. NeedsJwks(config.auth) /\ backend' \in FromJwks(config.auth, published) /\ stage' = "binding"
      BY <1>8 DEF FetchJwks, Authenticated
    <2>2. Origin'
      BY <1>2, <1>6, <2>1 DEF Origin, Up, world
    <2> QED  BY <1>4, <1>5, <2>2 DEF SourceInv
  <1>9. CASE Bind
    <2>1. /\ stage = "binding" /\ UNCHANGED backend /\ UNCHANGED offered
          /\ app' = AppState(config, backend, FALSE)
      BY <1>9 DEF Bind, world
    <2>2. Origin'
      BY <1>1, <1>2, <1>6, <2>1 DEF Origin, Up
    <2> QED  BY <1>4, <1>5, <2>2 DEF SourceInv
  <1> QED  BY <1>7, <1>8, <1>9

(* A step that leaves what startup made alone, and is right about the      *)
(* connections, preserves SourceInv.                                       *)
LEMMA KeepsSource ==
    ASSUME SourceInv, Inv', TypeOK', stage' = stage \/ (stage \in Up /\ stage' \in Up),
           UNCHANGED <<deployed, config, backend, app>>,
           offered \subseteq offered', published' \in {published} \cup offered',
           \A c \in Connections :
               \/ ~Known(c)'
               \/ Known(c) /\ token'[c] = token[c]
               \/ Recognised(c)'
    PROVE  SourceInv'
PROOF
  <1>1. Origin'
    <2>1. Origin
      BY DEF SourceInv
    <2>2. stage' # "down" => stage # "down"
      BY DEF Up
    <2>3. stage' \in {"binding"} \cup Up => stage \in {"binding"} \cup Up
      OBVIOUS
    <2>4. stage' \in Up => stage \in Up
      OBVIOUS
    <2> QED  BY <2>1, <2>2, <2>3, <2>4 DEF Origin
  <1>2. ASSUME NEW c \in Connections PROVE Recognised(c)'
    <2>1. Recognised(c)
      BY DEF SourceInv
    <2>2. CASE ~Known(c)'
      BY <2>2 DEF Recognised
    <2>3. CASE Known(c) /\ token'[c] = token[c]
      BY <2>1, <2>3 DEF Recognised
    <2> QED  BY <2>2, <2>3
  <1> QED  BY <1>1, <1>2 DEF SourceInv

(* Connections come, go and wait: nobody becomes known. *)
LEMMA TransportSource ==
    ASSUME SourceInv, Inv', NEW c \in Connections,
           \/ Connect(c) \/ Accept(c) \/ HandshakeOk(c) \/ Disconnect(c) \/ CloseIdle(c)
           \/ Begin(c) \/ Refuse(c) \/ Respond(c)
    PROVE  SourceInv'
PROOF
  <1> USE DEF Connect, Accept, HandshakeOk, Disconnect, CloseIdle, Begin, Refuse, Respond
  <1>1. TypeOK
    BY DEF SourceInv
  <1>2. Serving /\ UNCHANGED history
    OBVIOUS
  <1>3. PICK s \in ConnStage \ {"awaiting"} : conn' = [conn EXCEPT ![c] = s]
    BY DEF Goto, AfterAnswer, ConnStage
  <1>4. /\ token' \in {token, [token EXCEPT ![c] = None]}
        /\ principal' \in {principal, [principal EXCEPT ![c] = None]}
        /\ \E certificate \in Certificates \cup {None} :
              peer' \in {peer, [peer EXCEPT ![c] = certificate]}
    OBVIOUS
  <1>5. /\ UNCHANGED <<stage, exit, cut, deployed, config, backend, app, server, metrics, full_at>>
        /\ UNCHANGED <<now, published, offered, started, admitted>>
    BY <1>2 DEF Serving, process, world, history
  <1>6. TypeOK'
    <2>1. conn' \in [Connections -> ConnStage] /\ peer' \in [Connections -> Certificates \cup {None}]
      BY <1>1, <1>3, <1>4 DEF TypeOK
    <2>2. principal' \in [Connections -> Principal \cup {None}]
      BY <1>1, <1>4 DEF TypeOK
    <2>3. token' \in [Connections -> {q.authorization : q \in Requests} \cup {None}]
      BY <1>1, <1>4 DEF TypeOK
    <2> QED  BY <1>1, <1>5, <2>1, <2>2, <2>3 DEF TypeOK
  <1>7. ASSUME NEW d \in Connections PROVE ~Known(d)' \/ (Known(d) /\ token'[d] = token[d])
    BY <1>1, <1>3, <1>4 DEF TypeOK, Known
  <1> QED  BY <1>5, <1>6, <1>7, KeepsSource

(* handle lets a request through: the backend has recognised what came     *)
(* with it, and a limiter that was charged still holds a time.             *)
LEMMA HandleSource ==
    ASSUME SourceInv, Inv', NEW c \in Connections, Handle(c)
    PROVE  SourceInv'
PROOF
  <1>1. TypeOK /\ stage \in Up /\ now \in Nat
    BY LifecycleBounds DEF SourceInv, TypeOK, Inv, ConnectionInv, Vouched, Handle
  <1>2. PICK request \in Requests : \E p \in Accepted(c, request.authorization) :
            LET key == <<request.scope, p.name>>
                n == app.per_minute[request.scope]
            IN  /\ full_at' = IF n = 0 THEN full_at
                              ELSE [full_at EXCEPT ![key] = Charge(n, @, now)]
                /\ admitted' = [admitted EXCEPT ![key] = Record(@)]
                /\ token' = [token EXCEPT ![c] = IF app.mode = "mtls" THEN None
                                              ELSE request.authorization]
                /\ principal' = [principal EXCEPT ![c] = p]
    BY DEF Handle
  <1>3. PICK p \in Accepted(c, request.authorization) :
            LET key == <<request.scope, p.name>>
                n == app.per_minute[request.scope]
            IN  /\ full_at' = IF n = 0 THEN full_at
                              ELSE [full_at EXCEPT ![key] = Charge(n, @, now)]
                /\ admitted' = [admitted EXCEPT ![key] = Record(@)]
                /\ token' = [token EXCEPT ![c] = IF app.mode = "mtls" THEN None
                                              ELSE request.authorization]
                /\ principal' = [principal EXCEPT ![c] = p]
    BY <1>2
  <1> DEFINE key == <<request.scope, p.name>>
             n == app.per_minute[request.scope]
  <1>4. p \in Principal /\ key \in Keys /\ n \in Nat
    BY <1>1, AcceptedIsPrincipal, AppFromFile, RequestsAssumption DEF Principal, Keys
  <1>5. /\ full_at' = IF n = 0 THEN full_at ELSE [full_at EXCEPT ![key] = Charge(n, full_at[key], now)]
        /\ admitted' = [admitted EXCEPT ![key] = Record(admitted[key])]
        /\ token' = [token EXCEPT ![c] = IF app.mode = "mtls" THEN None ELSE request.authorization]
        /\ principal' = [principal EXCEPT ![c] = p]
    BY <1>3
  <1> HIDE DEF key, n
  <1>6. full_at' \in [Keys -> Nat] /\ admitted' \in [Keys -> [Ticks -> Nat]]
    <2>1. n # 0 => Charge(n, full_at[key], now) \in Nat
      BY <1>1, <1>4, ChargeType DEF TypeOK
    <2>2. Record(admitted[key]) \in [Ticks -> Nat]
      BY <1>1, <1>4, RecordType DEF TypeOK
    <2> QED  BY <1>1, <1>4, <1>5, <2>1, <2>2 DEF TypeOK
  <1>7. /\ UNCHANGED <<stage, exit, cut, deployed, config, backend, app, metrics, peer, started>>
        /\ UNCHANGED <<now, published, offered>> /\ conn' = [conn EXCEPT ![c] = "awaiting"]
    BY DEF Handle, Goto, world
  <1>8. TypeOK'
    <2>1. conn' \in [Connections -> ConnStage]
      BY <1>1, <1>7 DEF TypeOK, ConnStage
    <2>2. token' \in [Connections -> {q.authorization : q \in Requests} \cup {None}]
      BY <1>1, <1>5 DEF TypeOK
    <2>3. principal' \in [Connections -> Principal \cup {None}]
      BY <1>1, <1>4, <1>5 DEF TypeOK
    <2> QED  BY <1>1, <1>6, <1>7, <2>1, <2>2, <2>3 DEF TypeOK
  <1>9. ASSUME NEW d \in Connections
        PROVE  ~Known(d)' \/ (Known(d) /\ token'[d] = token[d]) \/ Recognised(d)'
    <2>1. CASE d # c
      BY <2>1, <1>1, <1>5, <1>7 DEF TypeOK, Known
    <2>2. CASE d = c
      <3>1. principal'[c] = p /\ (app.mode # "mtls" => token'[c] = request.authorization)
        BY <1>1, <1>5 DEF TypeOK
      <3>2. CASE p = Anonymous
        BY <2>2, <3>1, <3>2 DEF Known
      <3>3. CASE p # Anonymous
        <4>1. /\ app.mode = "bearer" =>
                    \E i \in DOMAIN app.tokens : app.tokens[i].token = request.authorization.token
              /\ app.mode = "jwt" => /\ Jwt[request.authorization.token].key \in app.jwt.keys
                                     /\ Jwt[request.authorization.token].alg = app.jwt.algorithm
          BY <3>3, AcceptedIsRecognised
        <4> QED  BY <2>2, <3>1, <4>1, <1>7 DEF Recognised
      <3> QED  BY <3>2, <3>3
    <2> QED  BY <2>1, <2>2
  <1> QED  BY <1>7, <1>8, <1>9, KeepsSource

(* Draining, the clock and the identity provider leave what startup made   *)
(* alone: keys published later are not known to the process.               *)
LEMMA WorldSource ==
    ASSUME SourceInv, Inv', Drain \/ Tick \/ Rotate \/ UNCHANGED vars
    PROVE  SourceInv'
PROOF
  <1>1. TypeOK
    BY DEF SourceInv
  <1>2. UNCHANGED <<deployed, config, backend, app, token, principal>>
    BY DEF Drain, Tick, Rotate, vars, process, connection
  <1>3. /\ stage' = stage \/ (stage \in Up /\ stage' \in Up)
        /\ offered \subseteq offered' /\ published' \in {published} \cup offered'
    BY DEF Drain, Tick, Rotate, vars, Up, world
  <1>4. TypeOK'
    <2>1. CASE Drain
      BY <1>1, <2>1 DEF TypeOK, Drain, Stage, ConnStage, process, world, history
    <2>2. CASE Tick
      BY <1>1, <2>2, LifecycleBounds DEF TypeOK, Tick, process, connection, history
    <2>3. CASE Rotate
      BY <1>1, <2>3 DEF TypeOK, Rotate, process, connection, history
    <2>4. CASE UNCHANGED vars
      BY <1>1, <2>4 DEF TypeOK, vars
    <2> QED  BY <2>1, <2>2, <2>3, <2>4
  <1>5. \A c \in Connections : conn'[c] \in {conn[c], "closed"}
    BY <1>1 DEF Drain, Tick, Rotate, vars, connection, TypeOK
  <1>6. ASSUME NEW c \in Connections PROVE ~Known(c)' \/ (Known(c) /\ token'[c] = token[c])
    BY <1>2, <1>5 DEF Known
  <1> QED  BY <1>2, <1>3, <1>4, <1>6, KeepsSource

(* Every step preserves SourceInv. *)
LEMMA NextSource == SourceInv /\ [Next]_vars => SourceInv'
PROOF
  <1> SUFFICES ASSUME SourceInv, [Next]_vars
               PROVE  SourceInv'
    OBVIOUS
  <1>1. Inv'
    BY NextInv DEF SourceInv
  <1>2. CASE Start \/ StartFails
    BY <1>1, <1>2, StartSource
  <1>3. CASE BuildAuthenticator \/ FetchJwks \/ Bind
    BY <1>1, <1>3, StartupSource
  <1>4. CASE BuildFails \/ FetchFails \/ BindFails \/ AcceptFails \/ Drained \/ Stop \/ Kill
    <2>1. PICK reason \in ExitReason : Exit(reason)
      BY <1>4 DEF BuildFails, FetchFails, BindFails, AcceptFails, Drained, Stop, Kill, ExitReason
    <2> QED  BY <1>1, <2>1, ExitSource
  <1>5. ASSUME NEW c \in Connections,
               \/ Connect(c) \/ Accept(c) \/ HandshakeOk(c) \/ Disconnect(c)
               \/ Begin(c) \/ Handle(c) \/ Refuse(c) \/ Respond(c) \/ CloseIdle(c)
        PROVE  SourceInv'
    BY <1>1, <1>5, TransportSource, HandleSource
  <1>6. CASE Drain \/ Tick \/ Rotate \/ UNCHANGED vars
    BY <1>1, <1>6, WorldSource
  <1> QED  BY <1>2, <1>3, <1>4, <1>5, <1>6 DEF Next

(* SourceInv holds throughout. *)
LEMMA Sourced == Spec => []SourceInv
  BY InitSource, NextSource, PTL DEF Spec

(* What is known was configured for this process. *)
LEMMA SourceSecrets == SourceInv => SecretsCurrent
PROOF
  <1> SUFFICES ASSUME SourceInv, NEW c \in Connections, Known(c),
                      NEW auth, auth = DeserializeAuth(deployed.file.auth)
               PROVE  /\ auth.mode = "bearer" =>
                            token[c].token \in
                                Configured({auth.tokens[i].token : i \in DOMAIN auth.tokens})
                      /\ auth.mode = "jwt" /\ Hs256Secret(auth) # None =>
                            Jwt[token[c].token].key \in Configured({Hs256Secret(auth)})
    BY DEF SecretsCurrent
  <1>1. stage \in Up /\ Recognised(c) /\ Origin
    BY DEF SourceInv, Inv, ConnectionInv, Vouched, Known
  <1>2. /\ deployed.file \in Files /\ deployed.env \in Envs /\ app.mode = auth.mode
        /\ DOMAIN app.tokens = DOMAIN auth.tokens
        /\ \A i \in DOMAIN auth.tokens :
              app.tokens[i].token \in ResolveSecret(auth.tokens[i].token, deployed.env)
    BY <1>1, AppFromFile
  <1>3. \A raw \in {auth.tokens[i].token : i \in DOMAIN auth.tokens}
                       \cup ({Hs256Secret(auth)} \ {None}) : raw.text # None
    BY <1>2, FilesAssumption
  <1>4. CASE auth.mode = "bearer"
    <2>1. PICK i \in DOMAIN auth.tokens :
              token[c].token \in ResolveSecret(auth.tokens[i].token, deployed.env)
      BY <1>1, <1>2, <1>4 DEF Recognised
    <2>2. auth.tokens[i].token.text # None
      BY <1>3
    <2> QED  BY <1>2, <1>4, <2>1, <2>2, Resolves
  <1>5. CASE auth.mode = "jwt" /\ Hs256Secret(auth) # None
    <2>1. config \in Load(deployed.file, deployed.env) /\ app = AppState(config, backend, FALSE)
      BY <1>1 DEF Origin, Up
    <2>2. Hs256Secret(config.auth) \in ResolveSecret(Hs256Secret(auth), deployed.env)
      BY <1>2, <1>5, <2>1, LoadKeeps
    <2>3. Hs256Secret(auth).text # None
      BY <1>3, <1>5
    <2>4. /\ Hs256Secret(config.auth) # None
          /\ Hs256Secret(config.auth) \in Configured({Hs256Secret(auth)})
      BY <1>2, <2>2, <2>3, Resolves
    <2>5. backend \in FromConfig(config.auth) /\ config.auth.mode = "jwt"
      <3>1. ~NeedsJwks(config.auth)
        BY <2>4 DEF NeedsJwks
      <3>2. config.auth.mode = app.mode
        BY <1>1 DEF SourceInv, Inv, Listening
      <3> QED  BY <1>1, <1>2, <1>5, <3>1, <3>2 DEF Origin
    <2>6. app.jwt.keys = {Hs256Secret(config.auth)}
      BY <2>1, <2>4, <2>5 DEF FromConfig, MkAuthenticator, WithKeys, AppState
    <2> QED  BY <1>1, <1>2, <1>5, <2>4, <2>6 DEF Recognised
  <1> QED  BY <1>4, <1>5

(* What keys_from_jwks makes of a document: all of its keys, and the       *)
(* first algorithm among those that can verify anything.                   *)
LEMMA FirstAlgorithm ==
    ASSUME NEW document, NEW found \in KeysFromJwks(document),
           NEW usable, usable = {i \in DOMAIN document : document[i].alg \in Algorithm}
    PROVE  /\ found.keys = {document[i].id : i \in DOMAIN document}
           /\ \E i \in usable : document[i].alg = found.algorithm /\ \A j \in usable : i <= j
PROOF
  <1>1. usable = {i \in DOMAIN document : KeyAlgorithmToAlgorithm(document[i].alg) # None}
    BY NoneIsNoAlgorithm DEF KeyAlgorithmToAlgorithm
  <1> QED  BY <1>1 DEF KeysFromJwks

(* A key that is good has been published since the process started, and    *)
(* for the token's algorithm.                                              *)
LEMMA SourceKeys == SourceInv => KeyPublished
PROOF
  <1> DEFINE Usable(document) == {i \in DOMAIN document : document[i].alg \in Algorithm}
  <1> SUFFICES ASSUME SourceInv, NEW c \in Connections, Known(c), NeedsJwks(config.auth)
               PROVE  \E document \in offered :
                          /\ \E i \in DOMAIN document :
                                document[i].id = Jwt[token[c].token].key
                          /\ \E i \in Usable(document) :
                                /\ document[i].alg = Jwt[token[c].token].alg
                                /\ \A j \in Usable(document) : i <= j
    BY DEF KeyPublished
  <1>1. stage \in Up /\ Recognised(c) /\ Origin /\ app.mode = "jwt"
    BY DEF SourceInv, Inv, ConnectionInv, Vouched, Known, Listening, NeedsJwks
  <1>2. PICK document \in offered : backend \in FromJwks(config.auth, document)
    BY <1>1 DEF Origin
  <1>3. PICK found \in KeysFromJwks(document) :
            backend = MkAuthenticator(config.auth, WithKeys(config.auth.jwt, found.keys,
                                                            found.algorithm))
    BY <1>2 DEF FromJwks
  <1>4. backend.jwt.keys = found.keys /\ backend.jwt.algorithm = found.algorithm
    BY <1>3 DEF MkAuthenticator, WithKeys
  <1>5. app.jwt = backend.jwt
    BY <1>1 DEF Origin, AppState
  <1>6. /\ Jwt[token[c].token].key \in found.keys
        /\ Jwt[token[c].token].alg = found.algorithm
    BY <1>1, <1>4, <1>5 DEF Recognised
  <1>7. /\ found.keys = {document[i].id : i \in DOMAIN document}
        /\ \E i \in Usable(document) :
              document[i].alg = found.algorithm /\ \A j \in Usable(document) : i <= j
    BY FirstAlgorithm
  <1> QED  BY <1>6, <1>7

(* Every variable of the process keeps its type, whatever is deployed,     *)
(* whoever connects and however often it is restarted (main).              *)
THEOREM TypeCorrect == Spec => []TypeOK
PROOF
  <1>1. SourceInv => TypeOK
    BY DEF SourceInv
  <1> QED  BY <1>1, Sourced, PTL

(* What a caller is accepted with is a secret that the deployed file       *)
(* spells out or that the environment had at the last start                *)
(* (Config::resolve_secrets).                                              *)
THEOREM SecretsAreCurrent == Spec => []SecretsCurrent
  BY Sourced, SourceSecrets, PTL

(* A JWT is accepted only under a key that the identity provider has       *)
(* published since the process started, in a key set whose first usable    *)
(* algorithm is the token's (build_authenticator, fetch_jwks,              *)
(* keys_from_jwks).                                                        *)
THEOREM KeysArePublished == Spec => []KeyPublished
  BY Sourced, SourceKeys, PTL

-----------------------------------------------------------------------------
(* The budget across restarts.  A limiter that starts anew forgets what    *)
(* was admitted, so BudgetPerProcess counts a burst for each process that  *)
(* may have been up.  It is not inductive: Allowance adds that the cell of *)
(* the running process is late enough for all that was admitted since any  *)
(* time but for one burst for each of the processes before it.             *)

(* h counts events since each tick, none of them later than at. *)
Chronicle(h, at) ==
    /\ h \in [Ticks -> Nat]
    /\ \A a, b \in Ticks : a <= b => h[b] <= h[a]
    /\ \A a \in Ticks : a > at => h[a] = 0

OneSince(h, at) == [t \in Ticks |-> IF t <= at THEN h[t] + 1 ELSE h[t]]

(* UpIn, of a history of starts. *)
UpBy(starts, from, to) ==
    starts[from] - starts[to + 1] + (IF starts[0] - starts[from] > 0 THEN 1 ELSE 0)

OwedByAll(uses, starts, full, burst, t, at) ==
    starts[0] > 0 =>
        \A from \in 0..at :
            uses[from] * t <= (UpBy(starts, from, at) - 1) * burst + Later(full, at) - from

BoundedByAll(uses, starts, burst, t, at) ==
    \A from \in 0..at : \A to \in from..at :
        (uses[from] - uses[to + 1]) * t <= UpBy(starts, from, to) * burst + (to - from)

Allowance(uses, starts, full, n, at) ==
    /\ OwedByAll(uses, starts, full, n * Cell(n), Cell(n), at)
    /\ BoundedByAll(uses, starts, n * Cell(n), Cell(n), at)

(* One event more makes a chronicle. *)
LEMMA OneSinceChronicle ==
    ASSUME NEW at \in 0..MaxTime, NEW h, Chronicle(h, at)
    PROVE  /\ Chronicle(OneSince(h, at), at)
           /\ \A a \in Ticks : a <= at => OneSince(h, at)[a] = h[a] + 1
           /\ \A a \in Ticks : a > at => OneSince(h, at)[a] = 0 /\ h[a] = 0
  BY LifecycleBounds DEF Chronicle, OneSince, Ticks

(* A chronicle stays one as time passes. *)
LEMMA ChronicleLater ==
    ASSUME NEW at \in 0..MaxTime, NEW h, Chronicle(h, at)
    PROVE  Chronicle(h, at + 1)
  BY LifecycleBounds DEF Chronicle, Ticks

(* The number of processes in a window is a number, and does not depend on *)
(* how far beyond the present the window reaches.                          *)
LEMMA UpByType ==
    ASSUME NEW at \in 0..MaxTime, NEW starts, Chronicle(starts, at),
           NEW from \in 0..MaxTime, NEW to \in from..MaxTime
    PROVE  /\ UpBy(starts, from, to) \in Nat
           /\ to >= at /\ from <= at => UpBy(starts, from, to) = UpBy(starts, from, at)
           /\ to >= at /\ starts[0] > 0 => UpBy(starts, from, to) >= 1
PROOF
  <1>1. /\ from \in Ticks /\ to + 1 \in Ticks /\ 0 \in Ticks /\ at + 1 \in Ticks
        /\ from \in Int /\ to \in Int /\ at \in Int /\ from <= to /\ 0 <= from
    BY LifecycleBounds DEF Ticks
  <1>2. /\ starts[from] \in Nat /\ starts[to + 1] \in Nat /\ starts[0] \in Nat
        /\ starts[to + 1] <= starts[from] /\ starts[from] <= starts[0]
        /\ starts[at + 1] = 0 /\ (to >= at => starts[to + 1] = 0)
    BY <1>1 DEF Chronicle
  <1> QED  BY <1>2 DEF UpBy

(* One start more is one process more in the windows that reach the        *)
(* present, and none in those that are over.                               *)
LEMMA UpByMore ==
    ASSUME NEW at \in 0..MaxTime, NEW starts, Chronicle(starts, at),
           NEW from \in 0..at, NEW to \in from..at
    PROVE  UpBy(OneSince(starts, at), from, to)
               = UpBy(starts, from, to) + (IF to = at THEN 1 ELSE 0)
PROOF
  <1> DEFINE more == OneSince(starts, at)
  <1>1. /\ from \in Ticks /\ to + 1 \in Ticks /\ 0 \in Ticks
        /\ from \in Int /\ to \in Int /\ at \in Int /\ from <= at /\ 0 <= at /\ to <= at
    BY LifecycleBounds DEF Ticks
  <1>2. starts[from] \in Nat /\ starts[to + 1] \in Nat /\ starts[0] \in Nat
    BY <1>1 DEF Chronicle
  <1>3. /\ more[from] = starts[from] + 1 /\ more[0] = starts[0] + 1
        /\ to < at => more[to + 1] = starts[to + 1] + 1
        /\ to = at => more[to + 1] = 0 /\ starts[to + 1] = 0
    BY <1>1, OneSinceChronicle
  <1> HIDE DEF more
  <1>4. UpBy(more, from, to) = UpBy(starts, from, to) + (IF to = at THEN 1 ELSE 0)
    BY <1>1, <1>2, <1>3 DEF UpBy
  <1> QED  BY <1>4 DEF more

(* A new process, whatever its cells: its burst is one more. *)
LEMMA AllowanceStart ==
    ASSUME NEW at \in 0..MaxTime, NEW n \in Nat \ {0}, NEW uses, NEW starts,
           Chronicle(uses, at), Chronicle(starts, at), NEW full,
           Allowance(uses, starts, full, n, at), NEW new \in Nat
    PROVE  Allowance(uses, OneSince(starts, at), new, n, at)
PROOF
  <1> DEFINE t == Cell(n)
             burst == n * t
             more == OneSince(starts, at)
  <1>1. t \in Nat /\ burst \in Nat /\ at \in Nat
    BY CellFits, LifecycleBounds
  <1>2. BoundedByAll(uses, starts, burst, t, at)
    BY DEF Allowance
  <1> HIDE DEF t, burst
  <1>3. ASSUME NEW from \in 0..at, NEW to \in from..at
        PROVE  /\ UpBy(starts, from, to) \in Nat /\ UpBy(starts, from, to) * burst \in Nat
               /\ UpBy(more, from, to) = UpBy(starts, from, to) + (IF to = at THEN 1 ELSE 0)
               /\ (uses[from] - uses[to + 1]) * t \in Int
               /\ (uses[from] - uses[to + 1]) * t <= UpBy(starts, from, to) * burst + (to - from)
    <2>1. from \in 0..MaxTime /\ to \in from..MaxTime /\ from \in Ticks /\ to + 1 \in Ticks
      BY LifecycleBounds DEF Ticks
    <2>2. UpBy(starts, from, to) \in Nat
      BY <2>1, UpByType
    <2>3. UpBy(more, from, to) = UpBy(starts, from, to) + (IF to = at THEN 1 ELSE 0)
      BY UpByMore
    <2>4. uses[from] \in Nat /\ uses[to + 1] \in Nat
      BY <2>1 DEF Chronicle
    <2> QED  BY <2>2, <2>3, <2>4, <1>1, <1>2 DEF BoundedByAll
  <1> HIDE DEF more
  <1>4. OwedByAll(uses, more, new, burst, t, at)
    <2> SUFFICES ASSUME NEW from \in 0..at
                 PROVE  uses[from] * t <= (UpBy(more, from, at) - 1) * burst + Later(new, at) - from
      BY DEF OwedByAll
    <2>1. at \in from..at
      BY <1>1
    <2>2. uses[at + 1] = 0 /\ uses[from] \in Nat
      BY <1>1, LifecycleBounds DEF Chronicle, Ticks
    <2>3. (uses[from] - uses[at + 1]) * t = uses[from] * t
      BY <2>2, <1>1
    <2>4. /\ UpBy(starts, from, at) \in Nat /\ UpBy(starts, from, at) * burst \in Nat
          /\ UpBy(more, from, at) = UpBy(starts, from, at) + 1
          /\ (uses[from] - uses[at + 1]) * t \in Int
          /\ (uses[from] - uses[at + 1]) * t <= UpBy(starts, from, at) * burst + (at - from)
      BY <1>3, <2>1
    <2>5. UpBy(more, from, at) - 1 = UpBy(starts, from, at)
      BY <2>4
    <2> DEFINE used == uses[from] * t
               kb == UpBy(starts, from, at) * burst
    <2>6. used \in Int /\ kb \in Nat /\ used <= kb + (at - from)
      BY <2>3, <2>4
    <2> HIDE DEF used, kb
    <2>7. used <= kb + Later(new, at) - from
      BY <2>6, <1>1 DEF Later
    <2> QED  BY <2>5, <2>7 DEF used, kb
  <1>5. BoundedByAll(uses, more, burst, t, at)
    <2> SUFFICES ASSUME NEW from \in 0..at, NEW to \in from..at
                 PROVE  (uses[from] - uses[to + 1]) * t <= UpBy(more, from, to) * burst + (to - from)
      BY DEF BoundedByAll
    <2> DEFINE k == UpBy(starts, from, to)
    <2>1. k \in Nat /\ k * burst \in Nat /\ (k + 1) * burst = k * burst + burst
      BY <1>1, <1>3
    <2>2. UpBy(more, from, to) = k \/ UpBy(more, from, to) = k + 1
      BY <1>3
    <2>3. (uses[from] - uses[to + 1]) * t <= k * burst + (to - from)
          /\ (uses[from] - uses[to + 1]) * t \in Int
      BY <1>3
    <2> DEFINE used == (uses[from] - uses[to + 1]) * t
               kb == k * burst
    <2>4. used \in Int /\ kb \in Nat /\ used <= kb + (to - from)
      BY <2>1, <2>3
    <2>5. UpBy(more, from, to) * burst = kb \/ UpBy(more, from, to) * burst = kb + burst
      BY <2>1, <2>2
    <2> HIDE DEF k, used, kb
    <2>6. used <= UpBy(more, from, to) * burst + (to - from)
      BY <2>4, <2>5, <1>1
    <2> QED  BY <2>6 DEF used
  <1> QED  BY <1>4, <1>5 DEF Allowance, more, burst, t

(* An admission, which its cell had room for. *)
LEMMA AllowanceAdmit ==
    ASSUME NEW at \in 0..MaxTime, NEW n \in Nat \ {0}, NEW uses, NEW starts,
           Chronicle(uses, at), Chronicle(starts, at), starts[0] > 0, NEW full \in Nat,
           Allowance(uses, starts, full, n, at), Conforms(n, full, at)
    PROVE  Allowance(OneSince(uses, at), starts, Charge(n, full, at), n, at)
PROOF
  <1> DEFINE t == Cell(n)
             burst == n * t
             more == OneSince(uses, at)
             new == Charge(n, full, at)
  <1>1. t \in Nat /\ burst \in Nat /\ at \in Nat
    BY CellFits, LifecycleBounds
  <1>2. /\ OwedByAll(uses, starts, full, burst, t, at)
        /\ BoundedByAll(uses, starts, burst, t, at)
    BY DEF Allowance
  <1>3. new \in Nat /\ new = Later(full, at) + t /\ new <= at + burst /\ new >= at
    BY <1>1 DEF Charge, Conforms, Later
  <1> HIDE DEF t, burst, new
  <1>4. ASSUME NEW from \in 0..at
        PROVE  /\ uses[from] \in Nat /\ more[from] = uses[from] + 1 /\ more[at + 1] = 0
               /\ uses[from] * t \in Nat /\ more[from] * t = uses[from] * t + t
               /\ UpBy(starts, from, at) \in Nat
               /\ (UpBy(starts, from, at) - 1) * burst \in Int
               /\ UpBy(starts, from, at) * burst = (UpBy(starts, from, at) - 1) * burst + burst
    <2>1. /\ from \in Ticks /\ at + 1 \in Ticks /\ from <= at
          /\ from \in 0..MaxTime /\ at \in from..MaxTime
      BY LifecycleBounds DEF Ticks
    <2>2. uses[from] \in Nat /\ more[from] = uses[from] + 1 /\ more[at + 1] = 0
      BY <2>1, <1>1, OneSinceChronicle DEF Chronicle
    <2>3. UpBy(starts, from, at) \in Nat
      BY <2>1, UpByType
    <2>4. \A v \in Nat : v * t \in Nat /\ (v + 1) * t = v * t + t
      BY <1>1
    <2>5. \A k \in Nat : (k - 1) * burst \in Int /\ k * burst = (k - 1) * burst + burst
      BY <1>1
    <2> HIDE DEF more
    <2>6. uses[from] * t \in Nat /\ more[from] * t = uses[from] * t + t
      BY <2>2, <2>4
    <2>7. /\ (UpBy(starts, from, at) - 1) * burst \in Int
          /\ UpBy(starts, from, at) * burst = (UpBy(starts, from, at) - 1) * burst + burst
      BY <2>3, <2>5
    <2> QED  BY <2>2, <2>3, <2>6, <2>7
  <1> HIDE DEF more
  <1>5. ASSUME NEW from \in 0..at
        PROVE  more[from] * t <= (UpBy(starts, from, at) - 1) * burst + new - from
    <2> DEFINE used == uses[from] * t
               before == (UpBy(starts, from, at) - 1) * burst
    <2>1. used <= before + Later(full, at) - from
      BY <1>2 DEF OwedByAll
    <2>2. used \in Nat /\ before \in Int /\ more[from] * t = used + t
      BY <1>4
    <2> HIDE DEF used, before
    <2>3. more[from] * t <= before + new - from
      BY <2>1, <2>2, <1>1, <1>3 DEF Later
    <2> QED  BY <2>3 DEF before
  <1>6. OwedByAll(more, starts, new, burst, t, at)
    BY <1>1, <1>3, <1>5 DEF OwedByAll, Later
  <1>7. BoundedByAll(more, starts, burst, t, at)
    <2> SUFFICES ASSUME NEW from \in 0..at, NEW to \in from..at
                 PROVE  (more[from] - more[to + 1]) * t <= UpBy(starts, from, to) * burst + (to - from)
      BY DEF BoundedByAll
    <2>1. CASE to = at
      <3> DEFINE before == (UpBy(starts, from, at) - 1) * burst
                 used == more[from] * t
      <3>1. (more[from] - more[to + 1]) * t = used
        BY <2>1, <1>1, <1>4
      <3>2. used \in Int /\ before \in Int /\ UpBy(starts, from, at) * burst = before + burst
        BY <1>1, <1>4
      <3>3. used <= before + new - from
        BY <1>5
      <3> HIDE DEF before, used
      <3>4. used <= before + burst + (at - from)
        BY <3>2, <3>3, <1>1, <1>3
      <3> QED  BY <2>1, <3>1, <3>2, <3>4
    <2>2. CASE to < at
      <3>1. to + 1 \in 0..at
        BY <2>2, <1>1
      <3>2. more[from] - more[to + 1] = uses[from] - uses[to + 1]
        BY <3>1, <1>4
      <3>3. (uses[from] - uses[to + 1]) * t <= UpBy(starts, from, to) * burst + (to - from)
        BY <1>2 DEF BoundedByAll
      <3> QED  BY <3>2, <3>3
    <2> QED  BY <2>1, <2>2, <1>1
  <1> QED  BY <1>6, <1>7 DEF Allowance, more, burst, t, new

(* Time passes. *)
LEMMA AllowanceTick ==
    ASSUME NEW at \in 0..MaxTime, at < MaxTime, NEW n \in Nat \ {0}, NEW uses, NEW starts,
           Chronicle(uses, at), Chronicle(starts, at), NEW full \in Nat,
           Allowance(uses, starts, full, n, at)
    PROVE  Allowance(uses, starts, full, n, at + 1)
PROOF
  <1> DEFINE t == Cell(n)
             burst == n * t
  <1>1. t \in Nat /\ burst \in Nat /\ at \in Nat
    BY CellFits, LifecycleBounds
  <1>2. /\ OwedByAll(uses, starts, full, burst, t, at)
        /\ BoundedByAll(uses, starts, burst, t, at)
    BY DEF Allowance
  <1> HIDE DEF t, burst
  <1>3. ASSUME NEW from \in 0..(at + 1)
        PROVE  /\ uses[from] \in Nat /\ uses[at + 1] = 0 /\ uses[at + 2] = 0
               /\ UpBy(starts, from, at + 1) \in Nat
               /\ starts[0] > 0 => UpBy(starts, from, at + 1) >= 1
               /\ from <= at => UpBy(starts, from, at + 1) = UpBy(starts, from, at)
    <2>1. /\ from \in Ticks /\ at + 1 \in Ticks /\ at + 2 \in Ticks
          /\ from \in 0..MaxTime /\ at + 1 \in from..MaxTime
      BY LifecycleBounds DEF Ticks
    <2>2. uses[from] \in Nat /\ uses[at + 1] = 0 /\ uses[at + 2] = 0
      BY <2>1, <1>1 DEF Chronicle
    <2> QED  BY <2>1, <2>2, <1>1, UpByType
  <1>4. OwedByAll(uses, starts, full, burst, t, at + 1)
    <2> SUFFICES ASSUME starts[0] > 0, NEW from \in 0..(at + 1)
                 PROVE  uses[from] * t
                          <= (UpBy(starts, from, at + 1) - 1) * burst + Later(full, at + 1) - from
      BY DEF OwedByAll
    <2> DEFINE before == (UpBy(starts, from, at + 1) - 1) * burst
               used == uses[from] * t
    <2>1. before \in Nat /\ used \in Nat
      <3>1. UpBy(starts, from, at + 1) - 1 \in Nat /\ uses[from] \in Nat
        BY <1>3
      <3> QED  BY <3>1, <1>1
    <2>2. CASE from = at + 1
      <3>1. used = 0
        BY <2>2, <1>1, <1>3
      <3> HIDE DEF before, used
      <3>2. used <= before + Later(full, at + 1) - from
        BY <2>1, <2>2, <3>1, <1>1 DEF Later
      <3> QED  BY <3>2 DEF before, used
    <2>3. CASE from \in 0..at
      <3>1. used <= before + Later(full, at) - from
        BY <2>3, <1>2, <1>3 DEF OwedByAll
      <3> HIDE DEF before, used
      <3>2. used <= before + Later(full, at + 1) - from
        BY <2>1, <2>3, <3>1, <1>1 DEF Later
      <3> QED  BY <3>2 DEF before, used
    <2> QED  BY <2>2, <2>3, <1>1
  <1>5. BoundedByAll(uses, starts, burst, t, at + 1)
    <2> SUFFICES ASSUME NEW from \in 0..(at + 1), NEW to \in from..(at + 1)
                 PROVE  (uses[from] - uses[to + 1]) * t <= UpBy(starts, from, to) * burst + (to - from)
      BY DEF BoundedByAll
    <2>1. CASE to <= at
      BY <2>1, <1>1, <1>2 DEF BoundedByAll
    <2>2. CASE to = at + 1 /\ from <= at
      <3> DEFINE used == (uses[from] - uses[at + 1]) * t
                 bound == UpBy(starts, from, at) * burst
      <3>1. used <= bound + (at - from)
        BY <2>2, <1>1, <1>2 DEF BoundedByAll
      <3>2. (uses[from] - uses[to + 1]) * t = used /\ UpBy(starts, from, to) * burst = bound
        BY <2>2, <1>3
      <3>3. used \in Int /\ bound \in Int
        BY <2>2, <1>1, <1>3
      <3> HIDE DEF used, bound
      <3> QED  BY <2>2, <3>1, <3>2, <3>3, <1>1
    <2>3. CASE to = at + 1 /\ from = at + 1
      <3>1. (uses[from] - uses[to + 1]) * t = 0 /\ UpBy(starts, from, to) * burst \in Nat
        BY <2>3, <1>1, <1>3
      <3> QED  BY <2>3, <3>1, <1>1
    <2> QED  BY <2>1, <2>2, <2>3, <1>1
  <1> QED  BY <1>4, <1>5 DEF Allowance, burst, t

(* The bound holds for the windows that are not over, too. *)
LEMMA AllowanceAlways ==
    ASSUME NEW at \in 0..MaxTime, NEW n \in Nat \ {0}, NEW uses, NEW starts,
           Chronicle(uses, at), Chronicle(starts, at), NEW full,
           Allowance(uses, starts, full, n, at),
           NEW from \in 0..MaxTime, NEW to \in from..MaxTime
    PROVE  (uses[from] - uses[to + 1]) * Cell(n)
               <= UpBy(starts, from, to) * (n * Cell(n)) + (to - from)
PROOF
  <1> DEFINE t == Cell(n)
             burst == n * t
  <1>1. t \in Nat /\ burst \in Nat /\ at \in Nat /\ from \in Nat /\ to \in Nat /\ from <= to
    BY CellFits, LifecycleBounds
  <1>2. BoundedByAll(uses, starts, burst, t, at)
    BY DEF Allowance
  <1>3. /\ uses[from] \in Nat
        /\ to >= at => uses[to + 1] = 0
        /\ uses[at + 1] = 0
        /\ from > at => uses[from] = 0
    BY <1>1, LifecycleBounds DEF Chronicle, Ticks
  <1>4. UpBy(starts, from, to) \in Nat
        /\ (to >= at /\ from <= at => UpBy(starts, from, to) = UpBy(starts, from, at))
    BY UpByType
  <1> HIDE DEF t, burst
  <1>5. CASE to <= at
    BY <1>1, <1>2, <1>5 DEF BoundedByAll, t, burst
  <1>6. CASE to > at /\ from <= at
    <2> DEFINE used == (uses[from] - uses[at + 1]) * t
               bound == UpBy(starts, from, at) * burst
    <2>1. used <= bound + (at - from)
      BY <1>1, <1>2, <1>6 DEF BoundedByAll
    <2>2. (uses[from] - uses[to + 1]) * t = used /\ UpBy(starts, from, to) * burst = bound
      BY <1>3, <1>4, <1>6, <1>1
    <2>3. used \in Int /\ bound \in Int
      BY <1>1, <1>3, <1>4, <1>6
    <2> HIDE DEF used, bound
    <2>4. (uses[from] - uses[to + 1]) * t <= UpBy(starts, from, to) * burst + (to - from)
      BY <2>1, <2>2, <2>3, <1>1, <1>6
    <2> QED  BY <2>4 DEF t, burst
  <1>7. CASE from > at
    <2>1. (uses[from] - uses[to + 1]) * t = 0 /\ UpBy(starts, from, to) * burst \in Nat
      BY <1>1, <1>3, <1>4, <1>7
    <2>2. (uses[from] - uses[to + 1]) * t <= UpBy(starts, from, to) * burst + (to - from)
      BY <2>1, <1>1
    <2> QED  BY <2>2 DEF t, burst
  <1> QED  BY <1>1, <1>5, <1>6, <1>7

(* The cell of every budget that all the files agree on keeps its          *)
(* allowance, and no process is up that was not started.                   *)
AllowanceInv ==
    /\ SourceInv
    /\ Chronicle(started, now)
    /\ \A key \in Keys : Chronicle(admitted[key], now)
    /\ stage # "down" => started[0] > 0
    /\ \A key \in Keys : \A n \in Budgets[key[1]] :
          n # 0 /\ Budgets[key[1]] = {n} =>
              Allowance(admitted[key], started, full_at[key], n, now)

(* A budget is a number (the fields of RateLimit are u32).                 *)
LEMMA BudgetType ==
    ASSUME NEW key \in Keys, NEW n \in Budgets[key[1]]
    PROVE  n \in Nat
PROOF
  <1>1. key[1] \in Scope
    BY DEF Keys
  <1>2. PICK file \in Files : n = Deserialize(file).per_minute[key[1]]
    BY <1>1 DEF Budgets
  <1>3. DeserializeRateLimit(file.ratelimit) \in [Scope -> Nat]
    BY FilesAssumption
  <1> QED  BY <1>1, <1>2, <1>3 DEF Deserialize

(* A step that touches neither the histories nor the limiters nor the      *)
(* clock, and starts no process, keeps every allowance.                    *)
LEMMA AllowanceKept ==
    ASSUME AllowanceInv, SourceInv', UNCHANGED <<full_at, now, started, admitted>>,
           stage' # "down" => stage # "down"
    PROVE  AllowanceInv'
PROOF
  <1>1. Chronicle(started, now)' /\ (\A key \in Keys : Chronicle(admitted[key], now))'
    BY DEF AllowanceInv, Chronicle, Ticks
  <1>2. (stage # "down" => started[0] > 0)'
    BY DEF AllowanceInv
  <1>3. ASSUME NEW key \in Keys, NEW n \in Budgets[key[1]], n # 0, Budgets[key[1]] = {n}
        PROVE  Allowance(admitted[key], started, full_at[key], n, now)'
    <2>1. Allowance(admitted[key], started, full_at[key], n, now)
      BY <1>3 DEF AllowanceInv
    <2>2. /\ admitted'[key] = admitted[key] /\ full_at'[key] = full_at[key]
          /\ started' = started /\ now' = now
      OBVIOUS
    <2> QED  BY <2>1, <2>2
  <1> QED  BY <1>1, <1>2, <1>3 DEF AllowanceInv, Budgets

(* Nothing has been admitted at first. *)
LEMMA AllowanceInit == Init => AllowanceInv
PROOF
  <1> SUFFICES ASSUME Init PROVE AllowanceInv
    OBVIOUS
  <1>1. SourceInv
    BY InitSource
  <1>2. /\ started = [t \in Ticks |-> 0] /\ admitted = [key \in Keys |-> [t \in Ticks |-> 0]]
        /\ now = 0 /\ stage = "down"
    BY DEF Init
  <1>3. Chronicle(started, now) /\ \A key \in Keys : Chronicle(admitted[key], now)
    BY <1>2 DEF Chronicle
  <1>4. ASSUME NEW key \in Keys, NEW n \in Budgets[key[1]], n # 0
        PROVE  Allowance(admitted[key], started, full_at[key], n, now)
    <2> DEFINE t == Cell(n)
               burst == n * t
    <2>1. n \in Nat \ {0}
      BY <1>4, BudgetType
    <2>2. t \in Nat /\ burst \in Nat
      BY <2>1, CellFits
    <2> HIDE DEF t, burst
    <2>3. /\ 0 \in Ticks /\ 1 \in Ticks
          /\ started[0] = 0 /\ started[1] = 0 /\ admitted[key][0] = 0 /\ admitted[key][1] = 0
      BY <1>2, LifecycleBounds DEF Ticks
    <2>4. OwedByAll(admitted[key], started, full_at[key], burst, t, now)
      BY <2>3 DEF OwedByAll
    <2>5. BoundedByAll(admitted[key], started, burst, t, now)
      BY <1>2, <2>2, <2>3 DEF BoundedByAll, UpBy
    <2> QED  BY <2>4, <2>5 DEF Allowance, t, burst
  <1> QED  BY <1>1, <1>2, <1>3, <1>4 DEF AllowanceInv

(* A start, successful or not. *)
LEMMA AllowanceStarts ==
    ASSUME AllowanceInv, SourceInv', Start \/ StartFails
    PROVE  AllowanceInv'
PROOF
  <1>1. /\ started' = OneSince(started, now) /\ admitted' = admitted /\ now' = now
        /\ full_at' \in [Keys -> Nat] /\ now \in 0..MaxTime
    BY DEF Start, StartFails, Record, OneSince, process, world, AllowanceInv, SourceInv, TypeOK
  <1>2. Chronicle(started, now) /\ \A key \in Keys : Chronicle(admitted[key], now)
    BY DEF AllowanceInv
  <1>3. Chronicle(started', now) /\ started'[0] > 0
    <2>1. 0 \in Ticks /\ 0 <= now /\ started[0] \in Nat
      BY <1>1, <1>2, LifecycleBounds DEF Ticks, Chronicle
    <2> QED  BY <1>1, <1>2, <2>1, OneSinceChronicle
  <1>4. ASSUME NEW key \in Keys, NEW n \in Budgets[key[1]], n # 0, Budgets[key[1]] = {n}
        PROVE  Allowance(admitted[key], started', full_at'[key], n, now)
    <2>1. Allowance(admitted[key], started, full_at[key], n, now)
      BY <1>4 DEF AllowanceInv
    <2>2. n \in Nat \ {0} /\ full_at'[key] \in Nat
      BY <1>1, <1>4, BudgetType
    <2> QED  BY <1>1, <1>2, <2>1, <2>2, AllowanceStart
  <1> QED  BY <1>1, <1>2, <1>3, <1>4 DEF AllowanceInv, Budgets, Chronicle

(* A tick. *)
LEMMA AllowanceTicks ==
    ASSUME AllowanceInv, SourceInv', Tick
    PROVE  AllowanceInv'
PROOF
  <1>1. /\ now' = now + 1 /\ now < MaxTime /\ now \in 0..MaxTime
        /\ UNCHANGED <<stage, full_at, started, admitted>> /\ full_at \in [Keys -> Nat]
    BY DEF Tick, process, history, AllowanceInv, SourceInv, TypeOK
  <1>2. Chronicle(started, now) /\ \A key \in Keys : Chronicle(admitted[key], now)
    BY DEF AllowanceInv
  <1>3. Chronicle(started, now + 1) /\ \A key \in Keys : Chronicle(admitted[key], now + 1)
    BY <1>1, <1>2, ChronicleLater
  <1>4. ASSUME NEW key \in Keys, NEW n \in Budgets[key[1]], n # 0, Budgets[key[1]] = {n}
        PROVE  Allowance(admitted[key], started, full_at[key], n, now + 1)
    <2>1. Allowance(admitted[key], started, full_at[key], n, now)
      BY <1>4 DEF AllowanceInv
    <2>2. n \in Nat \ {0} /\ full_at[key] \in Nat
      BY <1>1, <1>4, BudgetType
    <2> QED  BY <1>1, <1>2, <2>1, <2>2, AllowanceTick
  <1> QED  BY <1>1, <1>3, <1>4 DEF AllowanceInv, Budgets

(* An admission: its scope's budget is that of the deployed file, and the  *)
(* limiter had room for it.                                                *)
LEMMA AllowanceHandle ==
    ASSUME AllowanceInv, SourceInv', NEW c \in Connections, Handle(c)
    PROVE  AllowanceInv'
PROOF
  <1>1. /\ SourceInv /\ stage \in Up /\ started[0] > 0 /\ now \in 0..MaxTime
        /\ full_at \in [Keys -> Nat] /\ admitted \in [Keys -> [Ticks -> Nat]]
    BY DEF AllowanceInv, SourceInv, TypeOK, Inv, ConnectionInv, Vouched, Handle, Up
  <1>2. PICK request \in Requests : \E p \in Accepted(c, request.authorization) :
            LET key == <<request.scope, p.name>>
                n == app.per_minute[request.scope]
            IN  /\ Admits(p, request.scope)
                /\ full_at' = IF n = 0 THEN full_at
                              ELSE [full_at EXCEPT ![key] = Charge(n, @, now)]
                /\ admitted' = [admitted EXCEPT ![key] = Record(@)]
    BY DEF Handle
  <1>3. PICK p \in Accepted(c, request.authorization) :
            LET key == <<request.scope, p.name>>
                n == app.per_minute[request.scope]
            IN  /\ Admits(p, request.scope)
                /\ full_at' = IF n = 0 THEN full_at
                              ELSE [full_at EXCEPT ![key] = Charge(n, @, now)]
                /\ admitted' = [admitted EXCEPT ![key] = Record(@)]
    BY <1>2
  <1> DEFINE key == <<request.scope, p.name>>
             budget == app.per_minute[request.scope]
  <1>4. request.scope \in Scope /\ p \in Principal
    BY <1>1, AcceptedIsPrincipal, RequestsAssumption
  <1>5. key \in Keys /\ key[1] = request.scope
    BY <1>4 DEF Principal, Keys
  <1>6. budget \in Budgets[key[1]]
    <2>1. /\ deployed.file \in Files
          /\ app.per_minute = DeserializeRateLimit(deployed.file.ratelimit)
      BY <1>1, AppFromFile
    <2>2. budget = Deserialize(deployed.file).per_minute[key[1]]
      BY <1>5, <2>1 DEF Deserialize
    <2> QED  BY <1>4, <1>5, <2>1, <2>2 DEF Budgets
  <1>7. /\ budget = 0 \/ Conforms(budget, full_at[key], now)
        /\ full_at' = IF budget = 0 THEN full_at
                      ELSE [full_at EXCEPT ![key] = Charge(budget, full_at[key], now)]
        /\ admitted' = [admitted EXCEPT ![key] = OneSince(admitted[key], now)]
    BY <1>3 DEF Admits, Record, OneSince
  <1>8. UNCHANGED <<stage, started, now>>
    BY DEF Handle, world
  <1> HIDE DEF key, budget
  <1>9. Chronicle(started, now) /\ \A k \in Keys : Chronicle(admitted[k], now)
    BY DEF AllowanceInv
  <1>10. ASSUME NEW k \in Keys
         PROVE  /\ admitted'[k] = IF k = key THEN OneSince(admitted[k], now) ELSE admitted[k]
                /\ k # key \/ budget = 0 => full_at'[k] = full_at[k]
                /\ k = key /\ budget # 0 => full_at'[k] = Charge(budget, full_at[k], now)
    BY <1>1, <1>5, <1>7
  <1>11. ASSUME NEW k \in Keys PROVE Chronicle(admitted'[k], now)
    BY <1>1, <1>9, <1>10, OneSinceChronicle
  <1>12. ASSUME NEW k \in Keys, NEW n \in Budgets[k[1]], n # 0, Budgets[k[1]] = {n}
         PROVE  Allowance(admitted'[k], started, full_at'[k], n, now)
    <2>1. Allowance(admitted[k], started, full_at[k], n, now)
      BY <1>12 DEF AllowanceInv
    <2>2. CASE k # key
      BY <2>1, <2>2, <1>10
    <2>3. CASE k = key
      <3>1. budget = n /\ n \in Nat \ {0} /\ full_at[k] \in Nat
        BY <2>3, <1>1, <1>6, <1>12, BudgetType
      <3>2. Conforms(n, full_at[k], now)
        BY <2>3, <3>1, <1>7
      <3>3. Allowance(OneSince(admitted[k], now), started, Charge(n, full_at[k], now), n, now)
        BY <2>1, <3>1, <3>2, <1>1, <1>9, AllowanceAdmit
      <3> QED  BY <2>3, <3>1, <3>3, <1>10
    <2> QED  BY <2>2, <2>3
  <1> QED  BY <1>1, <1>8, <1>9, <1>11, <1>12 DEF AllowanceInv, Budgets, Up

(* Every step keeps every allowance. *)
LEMMA NextAllowance == AllowanceInv /\ [Next]_vars => AllowanceInv'
PROOF
  <1> SUFFICES ASSUME AllowanceInv, [Next]_vars
               PROVE  AllowanceInv'
    OBVIOUS
  <1>1. SourceInv'
    BY NextSource DEF AllowanceInv
  <1>2. CASE Start \/ StartFails
    BY <1>1, <1>2, AllowanceStarts
  <1>3. CASE BuildAuthenticator \/ FetchJwks \/ Bind
    <2>1. UNCHANGED <<full_at, now, started, admitted>> /\ stage # "down"
      BY <1>3 DEF BuildAuthenticator, FetchJwks, Authenticated, Bind, world, history
    <2> QED  BY <1>1, <2>1, AllowanceKept
  <1>4. CASE BuildFails \/ FetchFails \/ BindFails \/ AcceptFails \/ Drained \/ Stop \/ Kill
    <2>1. PICK reason \in ExitReason : Exit(reason)
      BY <1>4 DEF BuildFails, FetchFails, BindFails, AcceptFails, Drained, Stop, Kill, ExitReason
    <2>2. UNCHANGED <<full_at, now, started, admitted>> /\ stage' = "down"
      BY <2>1 DEF Exit, world, history
    <2> QED  BY <1>1, <2>2, AllowanceKept
  <1>5. ASSUME NEW c \in Connections,
               \/ Connect(c) \/ Accept(c) \/ HandshakeOk(c) \/ Disconnect(c)
               \/ Begin(c) \/ Refuse(c) \/ Respond(c) \/ CloseIdle(c)
        PROVE  AllowanceInv'
    <2>1. UNCHANGED <<full_at, now, started, admitted, stage>>
      BY <1>5 DEF Connect, Accept, HandshakeOk, Disconnect, Begin, Refuse, Respond, CloseIdle,
                  Serving, process, world, history
    <2> QED  BY <1>1, <2>1, AllowanceKept
  <1>6. ASSUME NEW c \in Connections, Handle(c) PROVE AllowanceInv'
    BY <1>1, <1>6, AllowanceHandle
  <1>7. CASE Tick
    BY <1>1, <1>7, AllowanceTicks
  <1>8. CASE Drain \/ Rotate \/ UNCHANGED vars
    <2>1. UNCHANGED <<full_at, now, started, admitted>> /\ (stage' # "down" => stage # "down")
      BY <1>8 DEF Drain, Rotate, vars, process, world, history
    <2> QED  BY <1>1, <2>1, AllowanceKept
  <1> QED  BY <1>2, <1>3, <1>4, <1>5, <1>6, <1>7, <1>8 DEF Next

(* The allowances imply what the run checks. *)
LEMMA AllowanceBudget == AllowanceInv => BudgetPerProcess
PROOF
  <1> SUFFICES ASSUME AllowanceInv, NEW key \in Keys, NEW from \in 0..MaxTime,
                      NEW n \in Budgets[key[1]], n # 0, Budgets[key[1]] = {n},
                      NEW to \in from..MaxTime
               PROVE  AdmittedIn(key, from, to) * Cell(n)
                          <= UpIn(from, to) * n * Cell(n) + (to - from)
    BY DEF BudgetPerProcess
  <1>1. /\ now \in 0..MaxTime /\ Chronicle(started, now) /\ Chronicle(admitted[key], now)
        /\ Allowance(admitted[key], started, full_at[key], n, now)
    BY DEF AllowanceInv, SourceInv, TypeOK
  <1>2. n \in Nat \ {0} /\ Cell(n) \in Nat
    BY BudgetType, CellFits
  <1>3. (admitted[key][from] - admitted[key][to + 1]) * Cell(n)
            <= UpBy(started, from, to) * (n * Cell(n)) + (to - from)
    BY <1>1, <1>2, AllowanceAlways
  <1>4. UpIn(from, to) = UpBy(started, from, to)
    <2>1. from - 1 + 1 = from
      BY LifecycleBounds
    <2> QED  BY <2>1 DEF UpIn, UpBy, StartedIn
  <1>5. UpBy(started, from, to) \in Nat
    BY <1>1, UpByType
  <1>6. UpBy(started, from, to) * n * Cell(n) = UpBy(started, from, to) * (n * Cell(n))
    BY <1>2, <1>5, ProductAssociates
  <1> QED  BY <1>3, <1>4, <1>6 DEF AdmittedIn

(* Across any number of restarts, in any window, a principal gets what     *)
(* replenishes in it and one burst for each process that may have been up  *)
(* (AppState::new starts with full buckets, and the clones of the Router   *)
(* share them).                                                            *)
THEOREM BudgetAcrossRestarts == Spec => []BudgetPerProcess
PROOF
  <1>1. Spec => []AllowanceInv
    BY AllowanceInit, NextAllowance, PTL DEF Spec
  <1> QED  BY <1>1, AllowanceBudget, PTL
=============================================================================
