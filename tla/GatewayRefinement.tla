-------------------------- MODULE GatewayRefinement --------------------------
(***************************************************************************)
(* The pipeline implements AccessGate, for any number of requests, any     *)
(* inputs and any configurations.                                          *)
(*                                                                         *)
(* A step of a handler is a step of the gate for the same request, or      *)
(* leaves the gate as it is.  The one that needs an argument is LimitOk,   *)
(* which grants passage: Inv says what authentication, classification and  *)
(* authorization have established by then, and InvEntitled that this is    *)
(* what entitles a request.  Every other step maps by the shape of its     *)
(* action.                                                                 *)
(***************************************************************************)
EXTENDS GatewayProofs

(* What the gate's variables stand for. *)
verdictMap == [r \in Requests |-> Verdict(pc[r])]
entitledMap == {r \in Requests : request[r] # None /\ Entitled(config, request[r])}
linesMap == [r \in Requests |-> Len(audit[r])]

(* A handler's step to another stage decides on its request alone. *)
LEMMA GotoDecides ==
    ASSUME TypeOK, NEW r \in Requests, NEW stage, Goto(r, stage)
    PROVE  verdictMap' = [verdictMap EXCEPT ![r] = Verdict(stage)]
  BY DEF TypeOK, Goto, verdictMap

(* A step between stages of one verdict leaves the verdicts alone. *)
LEMMA GotoStutters ==
    ASSUME TypeOK, NEW r \in Requests, NEW stage, Goto(r, stage),
           Verdict(stage) = Verdict(pc[r])
    PROVE  verdictMap' = verdictMap
  BY DEF TypeOK, Goto, verdictMap

(* Who is entitled depends on requests and configuration only. *)
LEMMA EntitledStutters ==
    ASSUME config' = config, request' = request
    PROVE  entitledMap' = entitledMap
  BY DEF entitledMap

(* An arriving request is entitled or not; nobody else is affected. *)
LEMMA EntitledAppears ==
    ASSUME TypeOK, NEW r \in Requests, request[r] = None, config' = config,
           NEW input, request' = [request EXCEPT ![r] = input]
    PROVE  entitledMap' = entitledMap \/ entitledMap' = entitledMap \cup {r}
  BY DEF TypeOK, entitledMap

(* AuditSink::emit writes at most one line, about the request at hand. *)
LEMMA EmitWritesAtMostOne ==
    ASSUME TypeOK, NEW r \in Requests, NEW line, Emit(r, line)
    PROVE  linesMap' = linesMap \/ linesMap' = [linesMap EXCEPT ![r] = @ + 1]
PROOF
  <1>1. CASE audit' = audit
    BY <1>1 DEF linesMap
  <1>2. CASE audit' = [audit EXCEPT ![r] = Append(@, line)]
    <2>1. audit[r] \in Seq(Line)
      BY DEF TypeOK
    <2>2. Len(Append(audit[r], line)) = Len(audit[r]) + 1
      BY <2>1
    <2> QED  BY <1>2, <2>2 DEF TypeOK, linesMap
  <1> QED  BY <1>1, <1>2 DEF Emit

(* A request that authentication, classification and authorization have    *)
(* let through is entitled to pass (handle, stages 1 to 4).                *)
LEMMA InvEntitled ==
    ASSUME Inv, NEW r \in Requests, pc[r] \in Forwarding
    PROVE  r \in entitledMap
PROOF
  <1> DEFINE c == config
             input == request[r]
             p == principal[r]
             anonymous == c.allow_anonymous_read /\ ~Carries(c, input)
             holder == [scopes |-> GrantsOf(c, input)
                                      \cup (IF anonymous THEN {"read"} ELSE {})]
  <1>1. /\ input \in Inputs /\ input # None /\ Traced(r)
        /\ classification[r] \in Classified(r) /\ MissingScopes(r) = {}
    BY InputsAssumption DEF Inv, RequestInv, Handling, Authorizing, Authenticated
  <1>2. p.scopes \subseteq holder.scopes
    <2>1. CASE \E time \in 0..MaxTime : p \in Holders(c, input, time)
      BY <2>1, HolderGrants DEF Inv, TypeOK
    <2>2. CASE p = Anonymous /\ anonymous
      BY <2>2 DEF Anonymous
    <2> QED  BY <1>1, <2>1, <2>2 DEF Traced
  <1>3. ASSUME NEW scope \in Required(classification[r], c.overrides)
        PROVE  Satisfies(holder, scope)
    BY <1>1, <1>2 DEF MissingScopes, Missing, Satisfies
  <1>4. classification[r].scope \in Required(classification[r], c.overrides)
    BY DEF Required
  <1>5. Satisfies(holder, "read")
    <2>1. classification[r] \in ClassificationType
      BY <1>1, ClassifiedType DEF Classified
    <2>2. classification[r].scope \in Scope
      BY <2>1 DEF ClassificationType
    <2> QED  BY <2>2, <1>3, <1>4 DEF Scope, Satisfies
  <1>6. ASSUME input.method # "GET", Route(input.path) = "GraphNodeAdmin"
        PROVE  Satisfies(holder, "write")
    <2>1. classification[r].scope = "write"
      BY <1>1, <1>6 DEF Classified, ClassifyRequest, WriteOnly
    <2> QED  BY <2>1, <1>3, <1>4
  <1>7. ASSUME Governed(c, input), NEW op \in ExecutableOperations(input.body)
        PROVE  PolicyMet(holder, op, c.overrides)
    <2>1. classification[r] = Classification(input.body)
      BY <1>1, <1>7, GovernedClassification
    <2> QED  BY <2>1, <1>3, RequiredMeetsPolicy
  <1>8. Entitled(c, input)
    BY <1>5, <1>6, <1>7 DEF Entitled
  <1> QED  BY <1>1, <1>8 DEF entitledMap

-----------------------------------------------------------------------------
(* The gate's actions, in terms of what its variables stand for. *)

(* The gate's arrivals. *)
LEMMA GateAppears ==
    ASSUME NEW r \in Requests, verdictMap[r] = "absent", upstream' = upstream,
           entitledMap' = entitledMap \/ entitledMap' = entitledMap \cup {r}
    PROVE  /\ verdictMap' = [verdictMap EXCEPT ![r] = "open"] /\ linesMap' = linesMap =>
                 Gate!Arrive(r)
           /\ verdictMap' = [verdictMap EXCEPT ![r] = "closed"]
              /\ (linesMap' = linesMap \/ linesMap' = [linesMap EXCEPT ![r] = @ + 1]) =>
                 Gate!TurnAway(r)
  BY DEF Gate!Arrive, Gate!TurnAway, Gate!Appear, Gate!Decide, Gate!WriteAtMostOne,
         verdictMap, entitledMap, linesMap

(* The gate's verdicts on a request that is there. *)
LEMMA GateDecides ==
    ASSUME NEW r \in Requests, upstream' = upstream, entitledMap' = entitledMap
    PROVE  /\ verdictMap[r] = "open" /\ r \in entitledMap /\ linesMap' = linesMap
              /\ verdictMap' = [verdictMap EXCEPT ![r] = "granted"] =>
                 Gate!Grant(r)
           /\ verdictMap[r] \in {"open", "granted"}
              /\ verdictMap' = [verdictMap EXCEPT ![r] = "closed"]
              /\ (linesMap' = linesMap \/ linesMap' = [linesMap EXCEPT ![r] = @ + 1]) =>
                 Gate!Close(r)
  BY DEF Gate!Grant, Gate!Close, Gate!Decide, Gate!WriteAtMostOne,
         verdictMap, entitledMap, linesMap

(* What happens upstream. *)
LEMMA GateActs ==
    ASSUME NEW r \in Requests, verdictMap' = verdictMap, entitledMap' = entitledMap,
           linesMap' = linesMap
    PROVE  /\ verdictMap[r] = "granted" /\ upstream[r] = "none"
              /\ upstream' = [upstream EXCEPT ![r] = "sent"] => Gate!Send(r)
           /\ upstream[r] = "sent" /\ upstream' = [upstream EXCEPT ![r] = "executed"] =>
                 Gate!Execute(r)
           /\ upstream' = upstream => UNCHANGED Gate!gate
  BY DEF Gate!Send, Gate!Execute, Gate!gate, verdictMap, entitledMap, linesMap

-----------------------------------------------------------------------------
(* Each step of the pipeline is a step of the gate, or none of its         *)
(* business.                                                               *)
GateStep == Gate!Next \/ UNCHANGED Gate!gate

(* The verdict of the stage a request is in. *)
LEMMA VerdictOf ==
    ASSUME NEW r \in Requests
    PROVE  verdictMap[r] = Verdict(pc[r])
  BY DEF verdictMap

(* A request arrives: it is let in, or turned away with or without a line  *)
(* (stage 1 of handle, and the probes of build_router).                    *)
LEMMA ArriveMaps ==
    ASSUME Inv, NEW r \in Requests, Arrive(r)
    PROVE  GateStep
PROOF
  <1>1. TypeOK /\ pc[r] = "idle" /\ request[r] = None
    BY DEF Inv, RequestInv, Arrive, Probe, Accept, Unauthorized
  <1>2. verdictMap[r] = "absent"
    BY <1>1, VerdictOf DEF Verdict
  <1>3. upstream' = upstream /\ config' = config
    BY DEF Arrive, Probe, Accept, Unauthorized, shared
  <1>4. entitledMap' = entitledMap \/ entitledMap' = entitledMap \cup {r}
    <2>1. PICK input \in Inputs : request' = [request EXCEPT ![r] = input]
      BY DEF Arrive, Probe, Accept, Unauthorized
    <2> QED  BY <2>1, <1>1, <1>3, EntitledAppears
  <1>5. CASE Accept(r)
    <2>1. verdictMap' = [verdictMap EXCEPT ![r] = "open"]
      <3>1. Verdict("reading_body") = "open"
        BY DEF Verdict
      <3> QED  BY <3>1, <1>1, <1>5, GotoDecides DEF Accept
    <2>2. linesMap' = linesMap
      BY <1>5 DEF Accept, shared, linesMap
    <2>3. Gate!Arrive(r)
      BY <2>1, <2>2, <1>2, <1>3, <1>4, GateAppears
    <2> QED  BY <2>3 DEF GateStep, Gate!Next
  <1>6. CASE Probe(r) \/ Unauthorized(r)
    <2>1. verdictMap' = [verdictMap EXCEPT ![r] = "closed"]
      <3>1. Goto(r, "answered")
        BY <1>6 DEF Probe, Unauthorized, Answer
      <3>2. Verdict("answered") = "closed"
        BY DEF Verdict
      <3> QED  BY <3>1, <3>2, <1>1, GotoDecides
    <2>2. linesMap' = linesMap \/ linesMap' = [linesMap EXCEPT ![r] = @ + 1]
      <3>1. CASE Probe(r)
        BY <3>1 DEF Probe, shared, linesMap
      <3>2. CASE Unauthorized(r)
        BY <3>2, <1>1, EmitWritesAtMostOne DEF Unauthorized
      <3> QED  BY <3>1, <3>2, <1>6
    <2>3. Gate!TurnAway(r)
      BY <2>1, <2>2, <1>2, <1>3, <1>4, GateAppears
    <2> QED  BY <2>3 DEF GateStep, Gate!Next
  <1> QED  BY <1>5, <1>6 DEF Arrive

(* A handler ends, with an answer or by being dropped, with at most one    *)
(* audit line: the gate closes (every return of handle but the first).     *)
Ends(r) ==
    BodyFails(r) \/ Reject(r) \/ Deny(r) \/ LimitExceeded(r) \/ Relay(r) \/ Fail(r) \/ Cancel(r)

(* The ends of a handler close the gate on its request. *)
LEMMA EndsMaps ==
    ASSUME Inv, NEW r \in Requests, Ends(r)
    PROVE  GateStep
PROOF
  <1>1. TypeOK
    BY DEF Inv
  <1>2. verdictMap[r] \in {"open", "granted"}
    <2>1. pc[r] \in {"reading_body", "classifying", "authorizing", "limiting",
                     "awaiting", "unroutable"}
      BY DEF Ends, BodyFails, Reject, Deny, LimitExceeded, Relay, Fail, Cancel
    <2> QED  BY <2>1, VerdictOf DEF Verdict
  <1>3. entitledMap' = entitledMap /\ upstream' = upstream
    BY EntitledStutters
    DEF Ends, BodyFails, Reject, Deny, LimitExceeded, Relay, Fail, Cancel, shared
  <1>4. verdictMap' = [verdictMap EXCEPT ![r] = "closed"]
    <2>1. Goto(r, "answered") \/ Goto(r, "cancelled")
      BY DEF Ends, BodyFails, Reject, Deny, LimitExceeded, Relay, Fail, Cancel, Answer
    <2>2. Verdict("answered") = "closed" /\ Verdict("cancelled") = "closed"
      BY DEF Verdict
    <2> QED  BY <2>1, <2>2, <1>1, GotoDecides
  <1>5. linesMap' = linesMap \/ linesMap' = [linesMap EXCEPT ![r] = @ + 1]
    <2>1. audit' = audit \/ \E line : Emit(r, line)
      BY DEF Ends, BodyFails, Reject, Deny, LimitExceeded, Relay, Fail, Cancel, shared
    <2>2. CASE audit' = audit
      BY <2>2 DEF linesMap
    <2> QED  BY <2>1, <2>2, <1>1, EmitWritesAtMostOne
  <1>6. Gate!Close(r)
    BY <1>2, <1>3, <1>4, <1>5, GateDecides
  <1> QED  BY <1>6 DEF GateStep, Gate!Next

(* The limiter's admission is where passage is granted, to a request that  *)
(* is entitled to it (stage 4b of handle).                                 *)
LEMMA LimitOkMaps ==
    ASSUME Inv, NEW r \in Requests, LimitOk(r)
    PROVE  GateStep
PROOF
  <1>1. TypeOK /\ pc[r] = "limiting"
    BY DEF Inv, LimitOk
  <1>2. verdictMap[r] = "open" /\ Verdict("forwarding") = "granted"
    BY <1>1, VerdictOf DEF Verdict
  <1>3. r \in entitledMap
    BY <1>1, InvEntitled DEF Forwarding
  <1>4. verdictMap' = [verdictMap EXCEPT ![r] = "granted"]
    BY <1>1, <1>2, GotoDecides DEF LimitOk
  <1>5. entitledMap' = entitledMap /\ upstream' = upstream /\ linesMap' = linesMap
    BY EntitledStutters DEF LimitOk, linesMap
  <1>6. Gate!Grant(r)
    BY <1>2, <1>3, <1>4, <1>5, GateDecides
  <1> QED  BY <1>6 DEF GateStep, Gate!Next

(* A request is sent once, and what was sent is executed at most once      *)
(* (Proxy::forward and the upstream).                                      *)
LEMMA SendMaps ==
    ASSUME Inv, NEW r \in Requests, Forward(r) \/ UpstreamExecutes(r)
    PROVE  GateStep
PROOF
  <1>1. TypeOK
    BY DEF Inv
  <1>2. entitledMap' = entitledMap /\ linesMap' = linesMap
    BY EntitledStutters DEF Forward, UpstreamExecutes, shared, linesMap
  <1>3. verdictMap' = verdictMap
    <2>1. CASE Forward(r)
      <3>1. Verdict("awaiting") = Verdict(pc[r])
        BY <2>1 DEF Forward, Verdict
      <3> QED  BY <3>1, <2>1, <1>1, GotoStutters DEF Forward
    <2>2. CASE UpstreamExecutes(r)
      BY <2>2 DEF UpstreamExecutes, verdictMap
    <2> QED  BY <2>1, <2>2
  <1>4. CASE Forward(r)
    <2>1. verdictMap[r] = "granted" /\ upstream[r] = "none"
      BY <1>4, VerdictOf DEF Forward, Verdict, Inv, RequestInv, Inside
    <2>2. Gate!Send(r)
      BY <2>1, <1>2, <1>3, <1>4, GateActs DEF Forward
    <2> QED  BY <2>2 DEF GateStep, Gate!Next
  <1>5. CASE UpstreamExecutes(r)
    <2>1. Gate!Execute(r)
      BY <1>2, <1>3, <1>5, GateActs DEF UpstreamExecutes
    <2> QED  BY <2>1 DEF GateStep, Gate!Next
  <1> QED  BY <1>4, <1>5

(* The stages in between are internal: body, classification,               *)
(* authorization, an unconfigured target, and the upstream's answer.       *)
LEMMA InternalMaps ==
    ASSUME Inv, NEW r \in Requests,
           ReadBody(r) \/ ClassifyOk(r) \/ AuthorizeOk(r) \/ NoUpstream(r)
               \/ UpstreamAnswers(r) \/ UpstreamFails(r)
    PROVE  GateStep
PROOF
  <1>1. TypeOK
    BY DEF Inv
  <1>2. entitledMap' = entitledMap /\ linesMap' = linesMap /\ upstream' = upstream
    BY EntitledStutters DEF ReadBody, ClassifyOk, AuthorizeOk, NoUpstream, UpstreamAnswers,
       UpstreamFails, shared, linesMap
  <1>3. verdictMap' = verdictMap
    <2>1. CASE pc' = pc
      BY <2>1 DEF verdictMap
    <2>2. CASE ReadBody(r) \/ ClassifyOk(r) \/ AuthorizeOk(r) \/ NoUpstream(r)
      <3>1. PICK stage : Goto(r, stage) /\ Verdict(stage) = Verdict(pc[r])
        BY <2>2 DEF ReadBody, ClassifyOk, AuthorizeOk, NoUpstream, Verdict
      <3> QED  BY <3>1, <1>1, GotoStutters
    <2> QED  BY <2>1, <2>2 DEF UpstreamAnswers, UpstreamFails
  <1> QED  BY <1>2, <1>3, GateActs DEF GateStep

(* The gateway starts with the gate empty (AppState::new). *)
LEMMA InitMaps == Init => Gate!Init
  BY DEF Init, Gate!Init, Verdict

(* Every step of the gateway is one of the gate's, or a stutter. *)
LEMMA NextMaps == Inv /\ [Next]_vars => [Gate!Next]_(Gate!gate)
PROOF
  <1> SUFFICES ASSUME Inv, [Next]_vars PROVE GateStep
    BY DEF GateStep
  <1>1. ASSUME NEW r \in Requests, Arrive(r) PROVE GateStep
    BY <1>1, ArriveMaps
  <1>2. ASSUME NEW r \in Requests, Body(r) \/ Step(r) \/ Upstream(r) \/ Cancel(r)
        PROVE  GateStep
    BY <1>2, EndsMaps, LimitOkMaps, SendMaps, InternalMaps DEF Body, Step, Upstream, Ends
  <1>3. CASE Tick \/ UNCHANGED vars
    <2>1. config' = config /\ request' = request /\ upstream' = upstream /\ pc' = pc
             /\ audit' = audit
      BY <1>3 DEF Tick, handler, vars
    <2> QED  BY <2>1, EntitledStutters DEF GateStep, Gate!gate, entitledMap
  <1> QED  BY <1>1, <1>2, <1>3 DEF Next, Quiescent

(* The pipeline implements the abstract gate: only entitled requests pass, *)
(* each is sent at most once, and its audit line, at most one, is written  *)
(* as its handler ends.                                                    *)
THEOREM Refinement == Spec => ImplementsAccessGate
  <1>1. Inv /\ [Next]_vars => [Gate!Next]_(Gate!gate)
    BY NextMaps
  <1> QED  BY <1>1, InitMaps, Invariance, PTL DEF Spec, ImplementsAccessGate, Gate!Spec
=============================================================================
