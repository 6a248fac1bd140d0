---------------------------- MODULE GatewayProofs ----------------------------
(***************************************************************************)
(* What the pipeline guarantees to the upstream, proved for any number of  *)
(* concurrent requests, any inputs and any configurations.                 *)
(*                                                                         *)
(* MutationNeedsWrite speaks of the upstream and the credential only.  Inv *)
(* carries the chain between them, stage by stage: the principal of a      *)
(* request is one its credential is entitled to, its classification is the *)
(* one its body demands, and beyond stage 4 no scope is missing.  All      *)
(* three must survive the other requests' steps, the handler's being       *)
(* dropped, and the upstream's acting later.                               *)
(***************************************************************************)
EXTENDS Gateway, QuotaProofs

(* The stages a handler is in after authentication, after classification   *)
(* and after authorization.                                                *)
Forwarding == {"limiting", "forwarding", "awaiting", "unroutable"}
Authorizing == {"authorizing"} \cup Forwarding
Handling == {"reading_body", "classifying"} \cup Authorizing

(* The stages in which the upstream cannot know of the request. *)
Inside == {"idle", "reading_body", "classifying", "authorizing", "limiting",
           "forwarding", "unroutable"}

(* The principal is one the presented credential stood for at some time. *)
Traced(r) ==
    \/ \E time \in 0..MaxTime : principal[r] \in Holders(config, request[r], time)
    \/ /\ principal[r] = Anonymous
       /\ ~Carries(config, request[r])
       /\ config.allow_anonymous_read

Authenticated(r) ==
    request[r] \in Inputs /\ principal[r] \in Principal /\ Traced(r)

RequestInv(r) ==
    /\ pc[r] = "idle" => request[r] = None /\ principal[r] = None
    /\ pc[r] \in Inside => upstream[r] = "none"
    /\ principal[r] # None => Authenticated(r)
    /\ pc[r] \in Handling \/ upstream[r] # "none" => Authenticated(r)
    /\ pc[r] \in Authorizing \/ upstream[r] # "none" => classification[r] \in Classified(r)
    /\ pc[r] \in Forwarding \/ upstream[r] # "none" => MissingScopes(r) = {}

Inv == TypeOK /\ \A r \in Requests : RequestInv(r)

-----------------------------------------------------------------------------
(* What a credential can stand for is a principal. *)
LEMMA HoldersType ==
    ASSUME NEW c \in Configs, NEW input, NEW time
    PROVE  Holders(c, input, time) \subseteq Principal
PROOF
  <1>1. c.mode \in {"bearer", "jwt", "mtls"}
    BY ConfigsAssumption
  <1>2. CASE ~Carries(c, input)
    BY <1>2 DEF Holders
  <1>3. CASE Carries(c, input) /\ c.mode = "bearer"
    <2>1. \A i \in DOMAIN c.tokens :
             c.tokens[i].name \in Names /\ c.tokens[i].scopes \subseteq GrantedScopes
      BY ConfigsAssumption
    <2> QED  BY <1>3, <2>1 DEF Holders, Principal
  <1>4. CASE Carries(c, input) /\ c.mode = "mtls"
    <2>1. \A i \in DOMAIN c.mtls :
             c.mtls[i].name \in Names /\ c.mtls[i].scopes \subseteq GrantedScopes
      BY ConfigsAssumption
    <2> QED  BY <1>4, <2>1 DEF Holders, Principal
  <1>5. CASE Carries(c, input) /\ c.mode = "jwt"
    <2>1. \A t \in DOMAIN Jwt : ExtractScopes(Jwt[t].scopes) \subseteq GrantedScopes
      BY JwtAssumption DEF ExtractScopes
    <2>2. \A t \in DOMAIN Jwt : (IF Jwt[t].sub = None THEN "jwt" ELSE Jwt[t].sub) \in Names
      BY JwtAssumption
    <2> QED  BY <1>5, <2>1, <2>2 DEF Holders, Principal
  <1> QED  BY <1>1, <1>2, <1>3, <1>4, <1>5

(* Authentication is exact: it accepts a credential as whom it stands for  *)
(* at that time, and a request without one as anonymous where that is      *)
(* allowed (Authenticator::authenticate, all three backends).              *)
LEMMA AuthenticateExact ==
    ASSUME NEW c \in Configs, NEW input \in Inputs, NEW time
    PROVE  Authenticate(c, input, time) =
               IF Carries(c, input) THEN Holders(c, input, time)
               ELSE IF c.allow_anonymous_read THEN {Anonymous} ELSE {}
PROOF
  <1> DEFINE credential == Presented(c, input)
  <1>1. c.mode \in {"bearer", "jwt", "mtls"}
    BY ConfigsAssumption
  <1>2. /\ input.authorization # None => input.authorization.token # None
        /\ input.certificate # None => input.certificate.subjects # None
    BY InputsAssumption
  <1>3. CASE ~Carries(c, input)
    <2>1. credential = None
      BY <1>3 DEF Carries, Presented, ExtractBearer, ExtractIdentity
    <2> QED  BY <1>3, <2>1 DEF Authenticate
  <1>4. CASE Carries(c, input)
    <2>1. credential # None
      BY <1>2, <1>4 DEF Carries, Presented, ExtractBearer, ExtractIdentity
    <2>2. Authenticate(c, input, time) = Verify(c, credential, time)
      BY <2>1 DEF Authenticate
    <2>3. CASE c.mode = "bearer"
      <3>1. credential = input.authorization.token
        BY <1>4, <2>3 DEF Carries, Presented, ExtractBearer
      <3>2. Verify(c, credential, time) = TokenVerify(c.tokens, credential)
        BY <2>3 DEF Verify
      <3>3. TokenVerify(c.tokens, credential) = Holders(c, input, time)
        BY <1>4, <2>3, <3>1 DEF TokenVerify, Holders
      <3> QED  BY <1>4, <2>2, <3>2, <3>3
    <2>4. CASE c.mode = "mtls"
      <3>1. credential = input.certificate.subjects
        BY <1>4, <2>4 DEF Carries, Presented, ExtractIdentity
      <3>2. Verify(c, credential, time) = MtlsVerify(c.mtls, credential)
        BY <2>4 DEF Verify
      <3>3. MtlsVerify(c.mtls, credential) = Holders(c, input, time)
        BY <1>4, <2>4, <3>1 DEF MtlsVerify, Holders
      <3> QED  BY <1>4, <2>2, <3>2, <3>3
    <2>5. CASE c.mode = "jwt"
      <3>1. credential = input.authorization.token
        BY <1>4, <2>5 DEF Carries, Presented, ExtractBearer
      <3>2. Verify(c, credential, time) = JwtVerify(c.jwt, credential, time)
        BY <2>5 DEF Verify
      <3>3. ASSUME NEW key \in c.jwt.keys
            PROVE  Decodes(credential, key, BuildValidation(c.jwt, c.jwt.algorithm), time)
                     <=> /\ credential \in DOMAIN Jwt /\ Jwt[credential].key = key
                         /\ ValidAt(Jwt[credential], c.jwt, time)
        BY DEF Decodes, BuildValidation, ValidAt
      <3>4. PrincipalFromClaims(Jwt[credential]) =
              [name |-> IF Jwt[credential].sub = None THEN "jwt" ELSE Jwt[credential].sub,
               scopes |-> ExtractScopes(Jwt[credential].scopes)]
        BY DEF PrincipalFromClaims
      <3>5. JwtVerify(c.jwt, credential, time) =
              IF credential \in DOMAIN Jwt /\ ValidAt(Jwt[credential], c.jwt, time)
              THEN {PrincipalFromClaims(Jwt[credential])} ELSE {}
        <4>1. ValidAt(Jwt[credential], c.jwt, time) => Jwt[credential].key \in c.jwt.keys
          BY DEF ValidAt
        <4> QED  BY <3>3, <4>1 DEF JwtVerify
      <3>6. Holders(c, input, time) =
              IF credential \in DOMAIN Jwt /\ ValidAt(Jwt[credential], c.jwt, time)
              THEN {PrincipalFromClaims(Jwt[credential])} ELSE {}
        BY <1>4, <2>5, <3>1, <3>4 DEF Holders
      <3> QED  BY <1>4, <2>2, <3>2, <3>5, <3>6
    <2> QED  BY <1>1, <2>3, <2>4, <2>5
  <1> QED  BY <1>3, <1>4

(* A principal authentication accepts is one the credential stands for, or *)
(* the anonymous one where there is no credential.                         *)
LEMMA AuthenticateSound ==
    ASSUME NEW c \in Configs, NEW input \in Inputs, NEW time,
           NEW p \in Authenticate(c, input, time)
    PROVE  /\ p \in Principal
           /\ \/ p \in Holders(c, input, time)
              \/ p = Anonymous /\ ~Carries(c, input) /\ c.allow_anonymous_read
PROOF
  <1>1. Anonymous \in Principal
    BY AnonymousIsAName DEF Anonymous, Principal, GrantedScopes, Scope
  <1> QED  BY <1>1, AuthenticateExact, HoldersType

(* What a principal has of its credential, the credential grants. *)
LEMMA HolderGrants ==
    ASSUME NEW c \in Configs, NEW input, NEW time \in 0..MaxTime,
           NEW p \in Holders(c, input, time)
    PROVE  p.scopes \subseteq GrantsOf(c, input)
PROOF
  <1>1. p.scopes \subseteq GrantedScopes
    BY HoldersType DEF Principal
  <1> QED  BY <1>1 DEF GrantsOf

(* The classifier looks at every operation a server could run: whatever    *)
(* operationName says, ToClassify leaves none of them out (classify).      *)
LEMMA ExecutableIsClassified ==
    ASSUME NEW req
    PROVE  Executable(req) \subseteq ToClassify(req)
  BY DEF Executable, ToClassify

(* What a server could run of a batch is in the batch's classification     *)
(* (classify).                                                             *)
LEMMA ExecutableInClassification ==
    ASSUME NEW body, NEW op \in ExecutableOperations(body)
    PROVE  op \in Classification(body).operations
PROOF
  <1>1. PICK req \in body.requests : op \in Executable(req)
    BY DEF ExecutableOperations
  <1>2. op \in ToClassify(req)
    BY <1>1, ExecutableIsClassified
  <1> QED  BY <1>2 DEF Classification

(* classify_request never takes a mutation for a read, unless it fails     *)
(* open.                                                                   *)
LEMMA MutationIsWrite ==
    ASSUME NEW input, NEW fail_closed,
           NEW c \in ClassifyRequest(input.method, Route(input.path), input.body, fail_closed),
           Mutates(input),
           fail_closed \/ Classifiable(input.body) \/ Route(input.path) = "GraphNodeAdmin"
    PROVE  c.scope = "write"
PROOF
  <1>1. input.method # "GET"
    BY DEF Mutates
  <1>2. CASE Route(input.path) = "GraphNodeAdmin"
    BY <1>1, <1>2 DEF ClassifyRequest, WriteOnly
  <1>3. CASE Route(input.path) # "GraphNodeAdmin"
    <2>1. c = Classification(input.body)
      BY <1>1, <1>3 DEF ClassifyRequest
    <2>2. PICK op \in ExecutableOperations(input.body) : op.kind = "mutation"
      BY <1>3 DEF Mutates
    <2>3. op \in Classification(input.body).operations
      BY <2>2, ExecutableInClassification
    <2> QED  BY <2>1, <2>2, <2>3 DEF Classification, KindScope
  <1> QED  BY <1>2, <1>3

(* A classification is well formed. *)
LEMMA ClassifiedType ==
    ASSUME NEW input \in Inputs, NEW method, NEW target, NEW fail_closed,
           NEW c \in ClassifyRequest(method, target, input.body, fail_closed)
    PROVE  c \in ClassificationType
PROOF
  <1>1. ReadOnly \in ClassificationType /\ WriteOnly \in ClassificationType
    BY DEF ReadOnly, WriteOnly, ClassificationType, Scope
  <1>2. Classification(input.body) \in ClassificationType
    <2>1. \A req \in input.body.requests : ToClassify(req) \subseteq OperationInfo
      BY InputsAssumption DEF ToClassify
    <2>2. UNION {ToClassify(req) : req \in input.body.requests} \subseteq OperationInfo
      BY <2>1
    <2> QED  BY <2>2 DEF Classification, ClassificationType, Scope
  <1> QED  BY <1>1, <1>2 DEF ClassifyRequest
-----------------------------------------------------------------------------
(* A step of r leaves the pipeline state of the other requests alone. *)
OnlyTouches(r) ==
    /\ config' = config
    /\ \A q \in Requests \ {r} :
          /\ pc'[q] = pc[q] /\ request'[q] = request[q] /\ principal'[q] = principal[q]
          /\ classification'[q] = classification[q] /\ upstream'[q] = upstream[q]

(* A request keeps its invariant through the steps of other handlers, and  *)
(* when its own handler ends without touching its results.                 *)
LEMMA Frame ==
    ASSUME NEW r \in Requests, RequestInv(r), config' = config,
           pc'[r] = pc[r] \/ pc'[r] \in {"answered", "cancelled"},
           request'[r] = request[r], principal'[r] = principal[r],
           classification'[r] = classification[r],
           upstream'[r] = upstream[r] \/ upstream[r] # "none"
    PROVE  RequestInv(r)'
  BY DEF RequestInv, Inside, Authenticated, Traced, Classified, MissingScopes, Authorizing,
         Forwarding, Handling

(* It is enough to show the types and the invariant of the stepping        *)
(* request.                                                                *)
LEMMA StepInv ==
    ASSUME Inv, NEW r \in Requests, OnlyTouches(r), TypeOK', RequestInv(r)'
    PROVE  Inv'
PROOF
  <1>1. ASSUME NEW q \in Requests, q # r PROVE RequestInv(q)'
    BY <1>1, Frame DEF Inv, OnlyTouches
  <1> QED  BY <1>1 DEF Inv

(* Answering and emitting keep the types. *)
LEMMA AnswerType ==
    ASSUME TypeOK, NEW r \in Requests, NEW status \in Statuses \cup GatewayStatus,
           NEW from \in {"gateway", "upstream"}, Answer(r, status, from)
    PROVE  /\ pc' \in [Requests -> Stage]
           /\ response' \in [Requests -> Response \cup {None}]
  BY DEF TypeOK, Answer, Goto, Stage, Response

(* AuditSink::emit keeps the audit trail well typed, lost line or not. *)
LEMMA EmitType ==
    ASSUME TypeOK, NEW r \in Requests, NEW line \in Line, Emit(r, line)
    PROVE  audit' \in [Requests -> Seq(Line)] /\ lost' \subseteq Requests
PROOF
  <1>1. Append(audit[r], line) \in Seq(Line)
    BY DEF TypeOK
  <1> QED  BY <1>1 DEF TypeOK, Emit

(* Incrementing a metrics counter keeps the counters well typed. *)
LEMMA CountType ==
    ASSUME TypeOK, NEW c \in Counter, Count(c)
    PROVE  counters' \in [Counter -> Nat]
  BY DEF TypeOK, Count

(* The audit line of an unclassified request is well formed. *)
LEMMA BareLineType ==
    ASSUME NEW name \in Names \cup {"-"}, NEW outcome \in Outcome
    PROVE  BareLine(name, outcome) \in Line
  BY DEF BareLine, Line

(* The audit line of a classified request is well formed. *)
LEMMA ClassifiedLineType ==
    ASSUME NEW r \in Requests, Inv, pc[r] \in Authorizing,
           NEW outcome \in Outcome, NEW status \in Statuses \cup {None}
    PROVE  /\ classification[r] \in ClassificationType
           /\ ClassifiedLine(r, outcome, status) \in Line
PROOF
  <1>1. /\ request[r] \in Inputs /\ principal[r] \in Principal
        /\ classification[r] \in Classified(r)
    BY DEF Inv, RequestInv, Inside, Authenticated, Handling
  <1>2. classification[r] \in ClassificationType
    BY <1>1, ClassifiedType DEF Classified
  <1>3. TopFields(classification[r]) \in SUBSET Fields
    BY <1>2 DEF TopFields, ClassificationType, OperationInfo
  <1>4. principal[r].name \in Names /\ classification[r].scope \in Scope
    BY <1>1, <1>2 DEF Principal, ClassificationType
  <1> QED  BY <1>2, <1>3, <1>4 DEF ClassifiedLine, Line

-----------------------------------------------------------------------------
(* One lemma per action. *)

(* A probe of /healthz or /readyz preserves the invariant: it has no       *)
(* principal and goes nowhere.                                             *)
LEMMA ProbeInv ==
    ASSUME Inv, NEW r \in Requests, Probe(r)
    PROVE  Inv'
PROOF
  <1>1. PICK input \in Inputs :
            /\ request' = [request EXCEPT ![r] = input]
            /\ Answer(r, IF input.method \in {"GET", "HEAD"} THEN "200" ELSE "405", "gateway")
    BY DEF Probe
  <1>2. TypeOK /\ pc[r] = "idle"
    BY DEF Inv, Probe
  <1>3. TypeOK'
    BY <1>1, <1>2, AnswerType DEF TypeOK, Probe, shared, GatewayStatus
  <1>4. OnlyTouches(r)
    BY <1>1, <1>2 DEF TypeOK, OnlyTouches, Probe, Answer, Goto, shared
  <1>5. RequestInv(r)'
    <2>1. principal'[r] = None /\ upstream'[r] = "none" /\ pc'[r] = "answered"
      BY <1>1, <1>2 DEF Inv, RequestInv, Inside, Probe, Answer, Goto, TypeOK
    <2> QED  BY <2>1 DEF RequestInv, Inside, Handling, Authorizing, Forwarding
  <1> QED  BY <1>3, <1>4, <1>5, StepInv

(* Authentication preserves the invariant: the principal is traced to the  *)
(* credential.                                                             *)
LEMMA AcceptInv ==
    ASSUME Inv, NEW r \in Requests, Accept(r)
    PROVE  Inv'
PROOF
  <1>0. PICK input \in Inputs :
            /\ request' = [request EXCEPT ![r] = input]
            /\ \E p \in Authenticate(config, input, now) :
                  principal' = [principal EXCEPT ![r] = p]
    BY DEF Accept
  <1>1. PICK p \in Authenticate(config, input, now) :
            principal' = [principal EXCEPT ![r] = p]
    BY <1>0
  <1>2. TypeOK /\ pc[r] = "idle" /\ config \in Configs /\ now \in 0..MaxTime
    BY DEF Inv, Accept, TypeOK
  <1>3. /\ p \in Principal
        /\ \/ p \in Holders(config, input, now)
           \/ p = Anonymous /\ ~Carries(config, input) /\ config.allow_anonymous_read
    BY <1>2, AuthenticateSound
  <1>4. TypeOK'
    BY <1>0, <1>1, <1>2, <1>3 DEF TypeOK, Accept, Goto, Stage, shared
  <1>5. OnlyTouches(r)
    BY <1>0, <1>1, <1>2 DEF TypeOK, OnlyTouches, Accept, Goto, shared
  <1>6. RequestInv(r)'
    <2>1. /\ config' = config /\ request'[r] = input /\ principal'[r] = p
          /\ upstream'[r] = "none" /\ pc'[r] = "reading_body"
      BY <1>0, <1>1, <1>2 DEF Inv, RequestInv, Inside, Accept, Goto, TypeOK, shared
    <2>2. Authenticated(r)'
      BY <2>1, <1>2, <1>3 DEF Authenticated, Traced
    <2> QED  BY <2>1, <2>2 DEF RequestInv, Inside, Handling, Authorizing, Forwarding
  <1> QED  BY <1>4, <1>5, <1>6, StepInv

(* A 401 preserves the invariant: no principal is set. *)
LEMMA UnauthorizedInv ==
    ASSUME Inv, NEW r \in Requests, Unauthorized(r)
    PROVE  Inv'
PROOF
  <1>1. PICK input \in Inputs : request' = [request EXCEPT ![r] = input]
    BY DEF Unauthorized
  <1>2. TypeOK /\ pc[r] = "idle"
    BY DEF Inv, Unauthorized
  <1>3. BareLine("-", "auth_failed") \in Line
    BY BareLineType DEF Outcome
  <1>4. audit' \in [Requests -> Seq(Line)] /\ lost' \subseteq Requests
    BY <1>2, <1>3, EmitType DEF Unauthorized
  <1>5. counters' \in [Counter -> Nat]
    BY <1>2, CountType DEF Unauthorized, Counter
  <1>6. pc' \in [Requests -> Stage] /\ response' \in [Requests -> Response \cup {None}]
    BY <1>2, AnswerType DEF Unauthorized, GatewayStatus
  <1>7. TypeOK'
    BY <1>1, <1>2, <1>4, <1>5, <1>6 DEF TypeOK, Unauthorized
  <1>8. OnlyTouches(r)
    BY <1>1, <1>2 DEF TypeOK, OnlyTouches, Unauthorized, Answer, Goto
  <1>9. RequestInv(r)'
    <2>1. principal'[r] = None /\ upstream'[r] = "none" /\ pc'[r] = "answered"
      BY <1>1, <1>2 DEF Inv, RequestInv, Inside, Unauthorized, Answer, Goto, TypeOK
    <2> QED  BY <2>1 DEF RequestInv, Inside, Handling, Authorizing, Forwarding
  <1> QED  BY <1>7, <1>8, <1>9, StepInv

(* Reading the body preserves the invariant. *)
LEMMA ReadBodyInv ==
    ASSUME Inv, NEW r \in Requests, ReadBody(r)
    PROVE  Inv'
PROOF
  <1>1. TypeOK /\ pc[r] = "reading_body" /\ RequestInv(r)
    BY DEF Inv, ReadBody
  <1>2. TypeOK'
    BY <1>1 DEF TypeOK, ReadBody, Goto, Stage, shared
  <1>3. OnlyTouches(r)
    BY <1>1 DEF TypeOK, OnlyTouches, ReadBody, Goto, shared
  <1>4. pc'[r] = "classifying"
    BY <1>1 DEF ReadBody, Goto, TypeOK
  <1>5. RequestInv(r)'
    BY <1>1, <1>4 DEF RequestInv, Inside, ReadBody, shared, Handling, Authorizing, Forwarding,
       Authenticated, Traced, Classified, MissingScopes
  <1> QED  BY <1>2, <1>3, <1>5, StepInv

(* A 413 preserves the invariant. *)
LEMMA BodyFailsInv ==
    ASSUME Inv, NEW r \in Requests, BodyFails(r)
    PROVE  Inv'
PROOF
  <1>1. TypeOK /\ RequestInv(r)
    BY DEF Inv
  <1>2. TypeOK'
    BY <1>1, AnswerType DEF TypeOK, BodyFails, GatewayStatus, shared
  <1>3. OnlyTouches(r)
    BY <1>1 DEF TypeOK, OnlyTouches, BodyFails, Answer, Goto, shared
  <1>4. pc'[r] = "answered"
    BY <1>1 DEF BodyFails, Answer, Goto, TypeOK
  <1>5. RequestInv(r)'
    BY <1>1, <1>4, Frame DEF BodyFails, shared
  <1> QED  BY <1>2, <1>3, <1>5, StepInv

(* Classification preserves the invariant: the result is the one           *)
(* classify_request gives for this request.                                *)
LEMMA ClassifyOkInv ==
    ASSUME Inv, NEW r \in Requests, ClassifyOk(r)
    PROVE  Inv'
PROOF
  <1>1. TypeOK /\ pc[r] = "classifying" /\ RequestInv(r)
    BY DEF Inv, ClassifyOk
  <1>2. PICK c \in Classified(r) : classification' = [classification EXCEPT ![r] = c]
    BY DEF ClassifyOk
  <1>3. Authenticated(r)
    BY <1>1 DEF RequestInv, Inside, Handling
  <1>4. c \in ClassificationType
    BY <1>2, <1>3, ClassifiedType DEF Authenticated, Classified
  <1>5. TypeOK'
    BY <1>1, <1>2, <1>4 DEF TypeOK, ClassifyOk, Goto, Stage, shared
  <1>6. OnlyTouches(r)
    BY <1>1, <1>2 DEF TypeOK, OnlyTouches, ClassifyOk, Goto, shared
  <1>7. RequestInv(r)'
    <2>1. /\ pc'[r] = "authorizing" /\ classification'[r] = c
          /\ config' = config /\ request' = request /\ principal' = principal
          /\ upstream' = upstream
      BY <1>1, <1>2 DEF ClassifyOk, Goto, TypeOK, shared
    <2>2. Classified(r)' = Classified(r) /\ Authenticated(r)'
      BY <2>1, <1>3 DEF Classified, Authenticated, Traced
    <2>3. upstream[r] = "none"
      BY <1>1 DEF RequestInv, Inside
    <2> QED  BY <2>1, <2>2, <2>3, <1>2 DEF RequestInv, Inside, Handling, Authorizing, Forwarding
  <1> QED  BY <1>5, <1>6, <1>7, StepInv

(* A 400 preserves the invariant. *)
LEMMA RejectInv ==
    ASSUME Inv, NEW r \in Requests, Reject(r)
    PROVE  Inv'
PROOF
  <1>1. TypeOK /\ RequestInv(r)
    BY DEF Inv
  <1>2. BareLine(principal[r].name, "rejected") \in Line
    <2>1. principal[r] \in Principal
      BY <1>1 DEF Reject, RequestInv, Handling, Authenticated
    <2> QED  BY <2>1, BareLineType DEF Principal, Outcome
  <1>3. audit' \in [Requests -> Seq(Line)] /\ lost' \subseteq Requests
    BY <1>1, <1>2, EmitType DEF Reject
  <1>4. counters' \in [Counter -> Nat]
    BY <1>1, CountType DEF Reject, Counter
  <1>5. pc' \in [Requests -> Stage] /\ response' \in [Requests -> Response \cup {None}]
    BY <1>1, AnswerType DEF Reject, GatewayStatus
  <1>6. TypeOK'
    BY <1>1, <1>3, <1>4, <1>5 DEF TypeOK, Reject
  <1>7. OnlyTouches(r)
    BY <1>1 DEF TypeOK, OnlyTouches, Reject, Answer, Goto
  <1>8. pc'[r] = "answered"
    BY <1>1 DEF Reject, Answer, Goto, TypeOK
  <1>9. RequestInv(r)'
    BY <1>1, <1>8, Frame DEF Reject
  <1> QED  BY <1>6, <1>7, <1>9, StepInv

(* Authorization preserves the invariant: from here on no required scope   *)
(* is missing.                                                             *)
LEMMA AuthorizeOkInv ==
    ASSUME Inv, NEW r \in Requests, AuthorizeOk(r)
    PROVE  Inv'
PROOF
  <1>1. TypeOK /\ pc[r] = "authorizing" /\ RequestInv(r)
    BY DEF Inv, AuthorizeOk
  <1>2. TypeOK'
    BY <1>1 DEF TypeOK, AuthorizeOk, Goto, Stage, shared
  <1>3. OnlyTouches(r)
    BY <1>1 DEF TypeOK, OnlyTouches, AuthorizeOk, Goto, shared
  <1>4. pc'[r] = "limiting" /\ MissingScopes(r) = {}
    BY <1>1 DEF AuthorizeOk, Goto, TypeOK
  <1>5. RequestInv(r)'
    BY <1>1, <1>4 DEF RequestInv, Inside, AuthorizeOk, shared, Handling, Authorizing,
       Forwarding, Authenticated, Traced, Classified, MissingScopes
  <1> QED  BY <1>2, <1>3, <1>5, StepInv

(* A 403 preserves the invariant: nothing was sent. *)
LEMMA DenyInv ==
    ASSUME Inv, NEW r \in Requests, Deny(r)
    PROVE  Inv'
PROOF
  <1>1. TypeOK /\ RequestInv(r)
    BY DEF Inv
  <1>2. ClassifiedLine(r, "denied", None) \in Line
    BY ClassifiedLineType DEF Deny, Authorizing, Forwarding, Outcome
  <1>3. audit' \in [Requests -> Seq(Line)] /\ lost' \subseteq Requests
    BY <1>1, <1>2, EmitType DEF Deny
  <1>4. counters' \in [Counter -> Nat]
    BY <1>1, CountType DEF Deny, Counter
  <1>5. pc' \in [Requests -> Stage] /\ response' \in [Requests -> Response \cup {None}]
    BY <1>1, AnswerType DEF Deny, GatewayStatus
  <1>6. TypeOK'
    BY <1>1, <1>3, <1>4, <1>5 DEF TypeOK, Deny
  <1>7. OnlyTouches(r)
    BY <1>1 DEF TypeOK, OnlyTouches, Deny, Answer, Goto
  <1>8. pc'[r] = "answered"
    BY <1>1 DEF Deny, Answer, Goto, TypeOK
  <1>9. RequestInv(r)'
    BY <1>1, <1>8, Frame DEF Deny
  <1> QED  BY <1>6, <1>7, <1>9, StepInv

(* The limiter's admission preserves the invariant: charging a cell keeps  *)
(* it a time.                                                              *)
LEMMA LimitOkInv ==
    ASSUME Inv, NEW r \in Requests, LimitOk(r)
    PROVE  Inv'
PROOF
  <1>1. TypeOK /\ pc[r] = "limiting" /\ RequestInv(r) /\ now \in Nat
    BY GatewayBounds DEF Inv, LimitOk, TypeOK
  <1>2. classification[r] \in ClassificationType /\ principal[r] \in Principal
    <2>1. classification[r] \in ClassificationType
      BY <1>1, ClassifiedLineType DEF Authorizing, Forwarding, Outcome
    <2> QED  BY <2>1, <1>1 DEF RequestInv, Handling, Authorizing, Forwarding, Authenticated
  <1>3. Key(r) \in Keys /\ Budget(r) \in Nat
    BY <1>1, <1>2, ConfigsAssumption
    DEF Key, Keys, Budget, ClassificationType, Principal, TypeOK
  <1>4. full_at' \in [Keys -> Nat]
    <2>1. Budget(r) # 0 => Charge(Budget(r), full_at[Key(r)], now) \in Nat
      BY <1>1, <1>3, ChargeType DEF TypeOK
    <2> QED  BY <2>1, <1>1, <1>3 DEF LimitOk, TypeOK
  <1>5. TypeOK'
    BY <1>1, <1>4 DEF TypeOK, LimitOk, Goto, Stage
  <1>6. OnlyTouches(r)
    BY <1>1 DEF TypeOK, OnlyTouches, LimitOk, Goto
  <1>7. pc'[r] = "forwarding"
    BY <1>1 DEF LimitOk, Goto, TypeOK
  <1>8. RequestInv(r)'
    BY <1>1, <1>7 DEF RequestInv, Inside, LimitOk, Handling, Authorizing,
       Forwarding, Authenticated, Traced, Classified, MissingScopes
  <1> QED  BY <1>5, <1>6, <1>8, StepInv

(* A 429 preserves the invariant: nothing was sent. *)
LEMMA LimitExceededInv ==
    ASSUME Inv, NEW r \in Requests, LimitExceeded(r)
    PROVE  Inv'
PROOF
  <1>1. TypeOK /\ RequestInv(r)
    BY DEF Inv
  <1>2. ClassifiedLine(r, "rate_limited", None) \in Line
    BY ClassifiedLineType DEF LimitExceeded, Authorizing, Forwarding, Outcome
  <1>3. audit' \in [Requests -> Seq(Line)] /\ lost' \subseteq Requests
    BY <1>1, <1>2, EmitType DEF LimitExceeded
  <1>4. counters' \in [Counter -> Nat]
    BY <1>1, CountType DEF LimitExceeded, Counter
  <1>5. pc' \in [Requests -> Stage] /\ response' \in [Requests -> Response \cup {None}]
    BY <1>1, AnswerType DEF LimitExceeded, GatewayStatus
  <1>6. TypeOK'
    BY <1>1, <1>3, <1>4, <1>5 DEF TypeOK, LimitExceeded
  <1>7. OnlyTouches(r)
    BY <1>1 DEF TypeOK, OnlyTouches, LimitExceeded, Answer, Goto
  <1>8. pc'[r] = "answered"
    BY <1>1 DEF LimitExceeded, Answer, Goto, TypeOK
  <1>9. RequestInv(r)'
    BY <1>1, <1>8, Frame DEF LimitExceeded
  <1> QED  BY <1>6, <1>7, <1>9, StepInv

(* Sending preserves the invariant: the sender has been authorized. *)
LEMMA ForwardInv ==
    ASSUME Inv, NEW r \in Requests, Forward(r)
    PROVE  Inv'
PROOF
  <1>1. TypeOK /\ pc[r] = "forwarding" /\ RequestInv(r)
    BY DEF Inv, Forward
  <1>2. TypeOK'
    BY <1>1 DEF TypeOK, Forward, Goto, Stage, shared
  <1>3. OnlyTouches(r)
    BY <1>1 DEF TypeOK, OnlyTouches, Forward, Goto, shared
  <1>4. pc'[r] = "awaiting"
    BY <1>1 DEF Forward, Goto, TypeOK
  <1>5. RequestInv(r)'
    BY <1>1, <1>4 DEF RequestInv, Inside, Forward, shared, Handling, Authorizing,
       Forwarding, Authenticated, Traced, Classified, MissingScopes
  <1> QED  BY <1>2, <1>3, <1>5, StepInv

(* A target without an upstream preserves the invariant: nothing was sent. *)
LEMMA NoUpstreamInv ==
    ASSUME Inv, NEW r \in Requests, NoUpstream(r)
    PROVE  Inv'
PROOF
  <1>1. TypeOK /\ pc[r] = "forwarding" /\ RequestInv(r)
    BY DEF Inv, NoUpstream
  <1>2. TypeOK'
    BY <1>1 DEF TypeOK, NoUpstream, Goto, Stage, shared, ProxyError
  <1>3. OnlyTouches(r)
    BY <1>1 DEF TypeOK, OnlyTouches, NoUpstream, Goto, shared
  <1>4. pc'[r] = "unroutable"
    BY <1>1 DEF NoUpstream, Goto, TypeOK
  <1>5. RequestInv(r)'
    BY <1>1, <1>4 DEF RequestInv, Inside, NoUpstream, shared, Handling, Authorizing,
       Forwarding, Authenticated, Traced, Classified, MissingScopes
  <1> QED  BY <1>2, <1>3, <1>5, StepInv

(* The upstream's own steps preserve the invariant: only what was sent is  *)
(* executed or answered.                                                   *)
LEMMA UpstreamInv ==
    ASSUME Inv, NEW r \in Requests, Upstream(r)
    PROVE  Inv'
PROOF
  <1>1. TypeOK /\ RequestInv(r)
    BY DEF Inv
  <1>2. /\ upstream' = upstream \/ upstream' = [upstream EXCEPT ![r] = "executed"]
        /\ upstream' = upstream \/ upstream[r] = "sent"
        /\ result' \in [Requests -> Statuses \cup ProxyError \cup {None}]
        /\ UNCHANGED shared
        /\ UNCHANGED <<pc, request, principal, classification, checked, response>>
    BY <1>1 DEF Upstream, UpstreamExecutes, UpstreamAnswers, UpstreamFails, TypeOK, ProxyError
  <1>3. TypeOK'
    BY <1>1, <1>2 DEF TypeOK, shared
  <1>4. OnlyTouches(r)
    BY <1>1, <1>2 DEF TypeOK, OnlyTouches, shared
  <1>5. RequestInv(r)'
    BY <1>1, <1>2, Frame DEF shared
  <1> QED  BY <1>3, <1>4, <1>5, StepInv

(* Relaying the upstream's response preserves the invariant. *)
LEMMA RelayInv ==
    ASSUME Inv, NEW r \in Requests, Relay(r)
    PROVE  Inv'
PROOF
  <1>1. TypeOK /\ RequestInv(r)
    BY DEF Inv
  <1>2. ClassifiedLine(r, "allowed", result[r]) \in Line
    BY ClassifiedLineType DEF Relay, Authorizing, Forwarding, Outcome
  <1>3. audit' \in [Requests -> Seq(Line)] /\ lost' \subseteq Requests
    <2>1. CASE Emit(r, ClassifiedLine(r, "allowed", result[r]))
      BY <2>1, <1>1, <1>2, EmitType
    <2>2. CASE UNCHANGED <<audit, lost>>
      BY <2>2, <1>1 DEF TypeOK
    <2> QED  BY <2>1, <2>2 DEF Relay
  <1>4. counters' \in [Counter -> Nat]
    BY <1>1, CountType DEF Relay, Counter
  <1>5. pc' \in [Requests -> Stage] /\ response' \in [Requests -> Response \cup {None}]
    BY <1>1, AnswerType DEF Relay
  <1>6. TypeOK'
    BY <1>1, <1>3, <1>4, <1>5 DEF TypeOK, Relay
  <1>7. OnlyTouches(r)
    BY <1>1 DEF TypeOK, OnlyTouches, Relay, Answer, Goto
  <1>8. pc'[r] = "answered"
    BY <1>1 DEF Relay, Answer, Goto, TypeOK
  <1>9. RequestInv(r)'
    BY <1>1, <1>8, Frame DEF Relay
  <1> QED  BY <1>6, <1>7, <1>9, StepInv

(* A 404 or 502 preserves the invariant. *)
LEMMA FailInv ==
    ASSUME Inv, NEW r \in Requests, Fail(r)
    PROVE  Inv'
PROOF
  <1>1. TypeOK /\ RequestInv(r)
    BY DEF Inv
  <1>2. ClassifiedLine(r, "allowed", None) \in Line
    BY ClassifiedLineType DEF Fail, Authorizing, Forwarding, Outcome
  <1>3. audit' \in [Requests -> Seq(Line)] /\ lost' \subseteq Requests
    BY <1>1, <1>2, EmitType DEF Fail
  <1>4. counters' \in [Counter -> Nat]
    BY <1>1, CountType DEF Fail, Counter
  <1>5. pc' \in [Requests -> Stage] /\ response' \in [Requests -> Response \cup {None}]
    BY <1>1, AnswerType DEF Fail, GatewayStatus
  <1>6. TypeOK'
    BY <1>1, <1>3, <1>4, <1>5 DEF TypeOK, Fail
  <1>7. OnlyTouches(r)
    BY <1>1 DEF TypeOK, OnlyTouches, Fail, Answer, Goto
  <1>8. pc'[r] = "answered"
    BY <1>1 DEF Fail, Answer, Goto, TypeOK
  <1>9. RequestInv(r)'
    BY <1>1, <1>8, Frame DEF Fail
  <1> QED  BY <1>6, <1>7, <1>9, StepInv

(* Dropping a handler at an await preserves the invariant; what it sent    *)
(* stays sent.                                                             *)
LEMMA CancelInv ==
    ASSUME Inv, NEW r \in Requests, Cancel(r)
    PROVE  Inv'
PROOF
  <1>1. TypeOK /\ RequestInv(r)
    BY DEF Inv
  <1>2. TypeOK'
    BY <1>1 DEF TypeOK, Cancel, Goto, Stage, shared
  <1>3. OnlyTouches(r)
    BY <1>1 DEF TypeOK, OnlyTouches, Cancel, Goto, shared
  <1>4. pc'[r] = "cancelled"
    BY <1>1 DEF Cancel, Goto, TypeOK
  <1>5. RequestInv(r)'
    BY <1>1, <1>4, Frame DEF Cancel, shared
  <1> QED  BY <1>2, <1>3, <1>5, StepInv

(* The passing of time preserves the invariant. *)
LEMMA TickInv ==
    ASSUME Inv, Tick
    PROVE  Inv'
PROOF
  <1>1. TypeOK'
    BY GatewayBounds DEF Inv, TypeOK, Tick, handler
  <1>2. ASSUME NEW r \in Requests PROVE RequestInv(r)'
    BY Frame DEF Inv, Tick, handler
  <1> QED  BY <1>1, <1>2 DEF Inv

(* A step that changes nothing preserves the invariant. *)
LEMMA StutterInv ==
    ASSUME Inv, UNCHANGED vars
    PROVE  Inv'
PROOF
  <1>1. TypeOK'
    BY DEF Inv, TypeOK, vars
  <1>2. ASSUME NEW r \in Requests PROVE RequestInv(r)'
    BY Frame DEF Inv, vars
  <1> QED  BY <1>1, <1>2 DEF Inv

(* The gateway starts in the invariant (AppState::new, no request yet). *)
LEMMA InitInv == Init => Inv
PROOF
  <1> SUFFICES ASSUME Init PROVE Inv
    OBVIOUS
  <1>1. TypeOK
    BY GatewayBounds DEF Init, TypeOK, Stage
  <1>2. ASSUME NEW r \in Requests PROVE RequestInv(r)
    BY DEF Init, RequestInv, Inside, Handling, Authorizing, Forwarding
  <1> QED  BY <1>1, <1>2 DEF Inv

(* Every step of the gateway preserves the invariant. *)
LEMMA NextInv == Inv /\ [Next]_vars => Inv'
PROOF
  <1> SUFFICES ASSUME Inv, [Next]_vars PROVE Inv'
    OBVIOUS
  <1>1. ASSUME NEW r \in Requests, Arrive(r) PROVE Inv'
    BY <1>1, ProbeInv, AcceptInv, UnauthorizedInv DEF Arrive
  <1>2. ASSUME NEW r \in Requests, Body(r) PROVE Inv'
    BY <1>2, ReadBodyInv, BodyFailsInv DEF Body
  <1>3. ASSUME NEW r \in Requests, Step(r) PROVE Inv'
    BY <1>3, ClassifyOkInv, RejectInv, AuthorizeOkInv, DenyInv, LimitOkInv,
       LimitExceededInv, ForwardInv, NoUpstreamInv, RelayInv, FailInv DEF Step
  <1>4. ASSUME NEW r \in Requests, Upstream(r) PROVE Inv'
    BY <1>4, UpstreamInv
  <1>5. ASSUME NEW r \in Requests, Cancel(r) PROVE Inv'
    BY <1>5, CancelInv
  <1>6. CASE Tick
    BY <1>6, TickInv
  <1>7. CASE UNCHANGED vars
    BY <1>7, StutterInv
  <1> QED  BY <1>1, <1>2, <1>3, <1>4, <1>5, <1>6, <1>7 DEF Next, Quiescent

-----------------------------------------------------------------------------
(* The invariant implies that mutations come with write. *)
LEMMA InvMutation == Inv => MutationNeedsWrite
PROOF
  <1> SUFFICES ASSUME Inv, NEW r \in Requests,
                      upstream[r] = "executed", Mutates(request[r]),
                      config.fail_closed_on_parse_error \/ Classifiable(request[r].body)
                          \/ Route(request[r].path) = "GraphNodeAdmin"
               PROVE  "write" \in GrantsOf(config, request[r])
    BY DEF MutationNeedsWrite
  <1>1. /\ Authenticated(r) /\ classification[r] \in Classified(r)
        /\ MissingScopes(r) = {}
    BY DEF Inv, RequestInv
  <1>2. classification[r].scope = "write"
    BY <1>1, MutationIsWrite DEF Classified
  <1>3. Satisfies(principal[r], "write")
    BY <1>1, <1>2 DEF MissingScopes, Missing, Required
  <1>4. "write" \in principal[r].scopes
    BY <1>3 DEF Satisfies
  <1>5. principal[r] # Anonymous
    BY <1>4 DEF Anonymous
  <1>6. PICK time \in 0..MaxTime : principal[r] \in Holders(config, request[r], time)
    BY <1>1, <1>5 DEF Authenticated, Traced
  <1>7. principal[r].scopes \subseteq GrantsOf(config, request[r])
    BY <1>6, HolderGrants DEF Inv, TypeOK
  <1> QED  BY <1>4, <1>7

(* What authorize has not found missing of a classified operation is what  *)
(* the policy asks for it (authorize, override_matches).                   *)
LEMMA RequiredMeetsPolicy ==
    ASSUME NEW p, NEW body, NEW overrides, NEW op \in ExecutableOperations(body),
           \A scope \in Required(Classification(body), overrides) : Satisfies(p, scope)
    PROVE  PolicyMet(p, op, overrides)
PROOF
  <1>1. op \in Classification(body).operations
    BY ExecutableInClassification
  <1>2. Classification(body).scope \in Required(Classification(body), overrides)
    BY DEF Required
  <1>3. Satisfies(p, IF op.kind = "mutation" THEN "write" ELSE "read")
    <2>1. CASE op.kind = "mutation"
      <3>1. Classification(body).scope = "write"
        BY <1>1, <2>1 DEF Classification, KindScope
      <3> QED  BY <1>2, <2>1, <3>1
    <2>2. CASE op.kind # "mutation"
      <3>1. Classification(body).scope \in {"read", "write"}
        BY DEF Classification
      <3> QED  BY <1>2, <2>2, <3>1 DEF Satisfies
    <2> QED  BY <2>1, <2>2
  <1>4. ASSUME NEW ov \in overrides, Concerns(ov, op), NEW scope \in ov.require_scopes
        PROVE  Satisfies(p, scope)
    <2>1. OverrideMatches(ov, op)
      BY <1>4 DEF Concerns, OverrideMatches
    <2>2. scope \in Required(Classification(body), overrides)
      BY <1>1, <1>4, <2>1 DEF Required
    <2> QED  BY <2>2
  <1> QED  BY <1>3, <1>4 DEF PolicyMet

(* A governed request is classified by its operations, or not at all.      *)
LEMMA GovernedClassification ==
    ASSUME NEW r \in Requests, Governed(config, request[r]),
           classification[r] \in Classified(r)
    PROVE  classification[r] = Classification(request[r].body)
  BY DEF Governed, Classified, ClassifyRequest

(* The invariant implies that the overrides are enforced. *)
LEMMA InvOverrides == Inv => OverridesEnforced
PROOF
  <1> SUFFICES ASSUME Inv, NEW r \in Requests,
                      upstream[r] = "executed", Governed(config, request[r]),
                      NEW op \in ExecutableOperations(request[r].body)
               PROVE  PolicyMet(principal[r], op, config.overrides)
    BY DEF OverridesEnforced
  <1>1. classification[r] \in Classified(r) /\ MissingScopes(r) = {}
    BY DEF Inv, RequestInv
  <1>2. classification[r] = Classification(request[r].body)
    BY <1>1, GovernedClassification
  <1>3. \A scope \in Required(Classification(request[r].body), config.overrides) :
           Satisfies(principal[r], scope)
    BY <1>1, <1>2 DEF MissingScopes, Missing
  <1> QED  BY <1>3, RequiredMeetsPolicy

(* A step that leaves the request and the principal of r alone identifies  *)
(* nobody anew.                                                            *)
LEMMA IdentifiedStutters ==
    ASSUME NEW r, request'[r] = request[r], principal'[r] = principal[r]
    PROVE  Identified(r)
  BY DEF Identified

(* The three ways to arrive identify the caller as they should. *)
LEMMA ArrivalIdentifies ==
    ASSUME Inv, NEW r \in Requests, Arrive(r), NEW q \in Requests
    PROVE  Identified(q)
PROOF
  <1>1. /\ TypeOK /\ pc[r] = "idle" /\ config \in Configs
        /\ request[r] = None /\ principal[r] = None
    BY DEF Inv, TypeOK, RequestInv, Arrive, Probe, Accept, Unauthorized
  <1>2. CASE q # r
    <2>1. request'[q] = request[q] /\ principal'[q] = principal[q]
      BY <1>1, <1>2 DEF Arrive, Probe, Accept, Unauthorized, TypeOK
    <2> QED  BY <2>1, IdentifiedStutters
  <1>3. CASE q = r /\ Probe(r)
    <2>1. /\ request'[r].path.prefix = "/healthz" /\ principal'[r] = principal[r]
      BY <1>1, <1>3 DEF Probe, TypeOK
    <2> QED  BY <1>3, <2>1 DEF Identified
  <1>4. CASE q = r /\ Accept(r)
    <2>1. PICK input \in Inputs :
              /\ request' = [request EXCEPT ![r] = input]
              /\ \E p \in Authenticate(config, input, now) :
                    principal' = [principal EXCEPT ![r] = p]
      BY <1>4 DEF Accept
    <2>2. PICK p \in Authenticate(config, input, now) :
              principal' = [principal EXCEPT ![r] = p]
      BY <2>1
    <2>3. \/ p \in Holders(config, input, now)
          \/ p = Anonymous /\ ~Carries(config, input) /\ config.allow_anonymous_read
      BY <1>1, AuthenticateSound
    <2>4. request'[r] = input /\ principal'[r] = p /\ input # None
      BY <1>1, <2>1, <2>2, InputsAssumption DEF TypeOK
    <2> QED  BY <1>1, <1>4, <2>3, <2>4 DEF Identified
  <1>5. CASE q = r /\ Unauthorized(r)
    <2>1. PICK input \in Inputs :
              /\ request' = [request EXCEPT ![r] = input]
              /\ Authenticate(config, input, now) = {}
      BY <1>5 DEF Unauthorized
    <2>2. /\ Holders(config, input, now) = {}
          /\ Carries(config, input) \/ ~config.allow_anonymous_read
      <3>1. CASE Carries(config, input)
        BY <1>1, <2>1, <3>1, AuthenticateExact
      <3>2. CASE ~Carries(config, input)
        <4>1. ~config.allow_anonymous_read
          BY <1>1, <2>1, <3>2, AuthenticateExact
        <4> QED  BY <3>2, <4>1 DEF Holders
      <3> QED  BY <3>1, <3>2
    <2>3. request'[r] = input /\ principal'[r] = None /\ input # None
      BY <1>1, <1>5, <2>1, InputsAssumption DEF Unauthorized, TypeOK
    <2>4. Refused(r, "401")'
      <3>1. response'[r] = [status |-> "401", from |-> "gateway"]
        BY <1>1, <1>5 DEF Unauthorized, Answer, TypeOK
      <3>2. [status |-> "401", from |-> "gateway"] \in Response
        BY DEF Response, GatewayStatus
      <3> QED  BY <3>1, <3>2, NoneIsNoValue DEF Refused
    <2> QED  BY <1>1, <1>5, <2>2, <2>3, <2>4 DEF Identified
  <1> QED  BY <1>2, <1>3, <1>4, <1>5 DEF Arrive

(* Every step identifies whom it has to, and nobody else. *)
LEMMA NextIdentifies ==
    ASSUME Inv, [Next]_vars, NEW q \in Requests
    PROVE  Identified(q)
PROOF
  <1>1. ASSUME NEW r \in Requests, Arrive(r) PROVE Identified(q)
    BY <1>1, ArrivalIdentifies
  <1>2. ASSUME NEW r \in Requests, Body(r) \/ Step(r) \/ Upstream(r) \/ Cancel(r)
        PROVE  UNCHANGED <<request, principal>>
    BY <1>2 DEF Body, ReadBody, BodyFails, Step, ClassifyOk, Reject, AuthorizeOk, Deny, LimitOk,
                LimitExceeded, Forward, NoUpstream, Relay, Fail, Upstream, UpstreamExecutes,
                UpstreamAnswers, UpstreamFails, Cancel
  <1>3. ASSUME Tick \/ UNCHANGED vars PROVE UNCHANGED <<request, principal>>
    BY <1>3 DEF Tick, handler, vars
  <1>4. ASSUME UNCHANGED <<request, principal>> PROVE Identified(q)
    BY <1>4, IdentifiedStutters
  <1> QED  BY <1>1, <1>2, <1>3, <1>4 DEF Next, Quiescent

-----------------------------------------------------------------------------
(* The invariant holds of every behaviour of the gateway. *)
THEOREM Invariance == Spec => []Inv
  <1>1. Inv /\ [Next]_vars => Inv'
    BY NextInv
  <1> QED  BY <1>1, InitInv, PTL DEF Spec

(* The pipeline's state keeps its type. *)
THEOREM TypeCorrect == Spec => []TypeOK
  <1>1. Inv => TypeOK
    BY DEF Inv
  <1> QED  BY <1>1, Invariance, PTL

(* The upstream never executes a mutation for a credential that has not    *)
(* been granted write, however requests interleave, fail or are dropped.   *)
THEOREM NoUnauthorizedMutation == Spec => []MutationNeedsWrite
  BY Invariance, InvMutation, PTL

(* Whichever operations of a GraphQL POST run upstream, the caller had the *)
(* scope of their kind and what the overrides on their names and root      *)
(* fields require.  It says nothing of GET and of the admin endpoint,      *)
(* where handle applies no overrides, nor of unreadable bodies on a        *)
(* gateway that fails open.                                                *)
THEOREM PostPolicyEnforced == Spec => []OverridesEnforced
  BY Invariance, InvOverrides, PTL

(* A request is handled as the one its credential stands for when it       *)
(* arrives, anonymously if it has none and may do without, and refused     *)
(* otherwise (Authenticator::authenticate and the three backends).         *)
THEOREM CredentialsHonoured == Spec => CredentialHonoured
  <1>1. Inv /\ [Next]_vars => [\A r \in Requests : Identified(r)]_vars
    BY NextIdentifies
  <1> QED  BY <1>1, Invariance, PTL DEF Spec, CredentialHonoured
=============================================================================
