-------------------------- MODULE GatewayAuditProofs --------------------------
(***************************************************************************)
(* The gateway's record of what it did, proved for any number of           *)
(* concurrent requests: the audit line of every refusal and of every       *)
(* answered write, and the metrics.                                        *)
(*                                                                         *)
(* None of the three properties is inductive.  A refusal's line is the one *)
(* line of its request only because a handler writes nothing before the    *)
(* step it ends in; a counter is the number of requests that ended in its  *)
(* way only because a handler ends once.  AuditInv says how a handler that *)
(* has ended can have ended, and that one that has not left nothing        *)
(* behind; Tallied, that each counter counts the handlers that ended in    *)
(* its way.  Tallied carries the finiteness of those sets along: there may *)
(* be infinitely many requests, but only finitely many have ended.         *)
(***************************************************************************)
EXTENDS GatewayProofs, FiniteSetTheorems

(* The line a classified request leaves after stage 5. *)
AllowedLine(r) ==
    ClassifiedLine(r, "allowed", IF result[r] \in Statuses THEN result[r] ELSE None)

(* Ways a handler ends: without a decision (a probe, a 413), refused, or   *)
(* with what became of the request upstream.                               *)
EndsUndecided(r) ==
    /\ response[r].from = "gateway" /\ response[r].status \in {"200", "405", "413"}
    /\ upstream[r] = "none" /\ result[r] = None

EndsRefused(r, status) ==
    /\ response[r].from = "gateway" /\ response[r].status = status
    /\ upstream[r] = "none" /\ result[r] = None
    /\ r \notin lost =>
          \E line \in Line :
             /\ audit[r] = <<line>>
             /\ line.outcome = RefusalOutcome[status]
             /\ line.principal = IF status = "401" THEN "-" ELSE principal[r].name

EndsForwarded(r) ==
    /\ result[r] # None
    /\ response[r] = IF result[r] \in Statuses
                     THEN [status |-> result[r], from |-> "upstream"]
                     ELSE [status |-> IF result[r] = "NoUpstream" THEN "404" ELSE "502",
                           from |-> "gateway"]
    /\ r \notin lost /\ (classification[r].scope = "write" \/ result[r] \notin Statuses) =>
          audit[r] = <<AllowedLine(r)>>

AuditInv(r) ==
    /\ pc[r] = "answered" =>
          /\ response[r] # None
          /\ \/ EndsUndecided(r) \/ EndsForwarded(r)
             \/ \E status \in DOMAIN RefusalOutcome : EndsRefused(r, status)
    /\ pc[r] # "answered" => response[r] = None /\ audit[r] = <<>> /\ r \notin lost
    /\ result[r] # None => pc[r] \in {"awaiting", "unroutable", "answered", "cancelled"}

(* The requests each counter counts. *)
CountedBy(r, counter) ==
    \/ counter = "auth_failures" /\ Refused(r, "401")
    \/ counter = "parse_errors" /\ Refused(r, "400")
    \/ counter = "authz_denied" /\ Refused(r, "403")
    \/ counter = "rate_limited" /\ Refused(r, "429")
    \/ counter = "requests" /\ pc[r] = "answered" /\ result[r] # None

Counted(counter) == {r \in Requests : CountedBy(r, counter)}

Tallied ==
    \A c \in Counter : IsFiniteSet(Counted(c)) /\ counters[c] = Cardinality(Counted(c))

RecordInv == Inv /\ (\A r \in Requests : AuditInv(r)) /\ Tallied
-----------------------------------------------------------------------------
(* A step of r's handler, or of the upstream on r's behalf. *)
Acts(r) == Arrive(r) \/ Body(r) \/ Step(r) \/ Upstream(r) \/ Cancel(r)

(* The record of the other requests is left alone. *)
Spares(r) ==
    \A q \in Requests \ {r} :
        /\ pc'[q] = pc[q] /\ principal'[q] = principal[q]
        /\ classification'[q] = classification[q] /\ upstream'[q] = upstream[q]
        /\ result'[q] = result[q] /\ response'[q] = response[q]
        /\ audit'[q] = audit[q] /\ (q \in lost' <=> q \in lost)

(* AuditSink::emit writes, or loses, the line of its own request only. *)
LEMMA EmitSpares ==
    ASSUME TypeOK, NEW r \in Requests, NEW line, Emit(r, line)
    PROVE  \A q \in Requests \ {r} : audit'[q] = audit[q] /\ (q \in lost' <=> q \in lost)
  BY DEF TypeOK, Emit

(* Handlers share the sink and the counters, but no step of one touches    *)
(* what another has recorded.                                              *)
LEMMA ActsSpares ==
    ASSUME TypeOK, NEW r \in Requests, Acts(r)
    PROVE  Spares(r)
PROOF
  <1> USE DEF TypeOK, Spares, shared, Goto, Answer
  <1>1. CASE Probe(r) \/ Accept(r) \/ ReadBody(r) \/ BodyFails(r) \/ Cancel(r)
    BY <1>1 DEF Probe, Accept, ReadBody, BodyFails, Cancel
  <1>2. CASE ClassifyOk(r) \/ AuthorizeOk(r) \/ LimitOk(r) \/ Forward(r) \/ NoUpstream(r)
    BY <1>2 DEF ClassifyOk, AuthorizeOk, LimitOk, Forward, NoUpstream
  <1>3. CASE Upstream(r)
    BY <1>3 DEF Upstream, UpstreamExecutes, UpstreamAnswers, UpstreamFails
  <1>4. CASE Unauthorized(r)
    BY <1>4, EmitSpares DEF Unauthorized
  <1>5. CASE Reject(r)
    BY <1>5, EmitSpares DEF Reject
  <1>6. CASE Deny(r)
    BY <1>6, EmitSpares DEF Deny
  <1>7. CASE LimitExceeded(r)
    BY <1>7, EmitSpares DEF LimitExceeded
  <1>8. CASE Relay(r)
    BY <1>8, EmitSpares DEF Relay
  <1>9. CASE Fail(r)
    BY <1>9, EmitSpares DEF Fail
  <1> QED  BY <1>1, <1>2, <1>3, <1>4, <1>5, <1>6, <1>7, <1>8, <1>9
           DEF Acts, Arrive, Body, Step

(* A request whose record a step leaves alone keeps its AuditInv. *)
LEMMA AuditFrame ==
    ASSUME NEW q \in Requests, AuditInv(q),
           pc'[q] = pc[q], principal'[q] = principal[q],
           classification'[q] = classification[q], upstream'[q] = upstream[q],
           result'[q] = result[q], response'[q] = response[q],
           audit'[q] = audit[q], q \in lost' <=> q \in lost
    PROVE  AuditInv(q)'
  BY DEF AuditInv, EndsUndecided, EndsRefused, EndsForwarded, AllowedLine, ClassifiedLine

(* ... and stays with the counters that count it. *)
LEMMA CountedFrame ==
    ASSUME NEW q \in Requests, NEW c,
           pc'[q] = pc[q], result'[q] = result[q], response'[q] = response[q]
    PROVE  CountedBy(q, c)' <=> CountedBy(q, c)
  BY DEF CountedBy, Refused

(* A step that ends no handler, or ends it uncounted, keeps the tally. *)
LEMMA TallySame ==
    ASSUME Tallied, NEW r \in Requests, Spares(r), counters' = counters,
           \A c \in Counter : CountedBy(r, c)' <=> CountedBy(r, c)
    PROVE  Tallied'
PROOF
  <1> SUFFICES ASSUME NEW c \in Counter
               PROVE  IsFiniteSet(Counted(c))' /\ counters'[c] = Cardinality(Counted(c))'
    BY DEF Tallied
  <1>1. ASSUME NEW q \in Requests PROVE CountedBy(q, c)' <=> CountedBy(q, c)
    <2>1. CASE q = r
      BY <2>1
    <2>2. CASE q # r
      BY <2>2, CountedFrame DEF Spares
    <2> QED  BY <2>1, <2>2
  <1>2. Counted(c)' = Counted(c)
    BY <1>1 DEF Counted
  <1> QED  BY <1>2 DEF Tallied

(* A step in which one more handler ends in a counter's way, and counts    *)
(* itself there, keeps the tally.                                          *)
LEMMA TallyOne ==
    ASSUME TypeOK, Tallied, NEW r \in Requests, Spares(r), NEW counter \in Counter,
           Count(counter), CountedBy(r, counter)',
           \A c \in Counter : ~CountedBy(r, c),
           \A c \in Counter \ {counter} : ~CountedBy(r, c)'
    PROVE  Tallied'
PROOF
  <1> SUFFICES ASSUME NEW c \in Counter
               PROVE  IsFiniteSet(Counted(c))' /\ counters'[c] = Cardinality(Counted(c))'
    BY DEF Tallied
  <1>1. ASSUME NEW q \in Requests \ {r} PROVE CountedBy(q, c)' <=> CountedBy(q, c)
    BY CountedFrame DEF Spares
  <1>2. /\ IsFiniteSet(Counted(c)) /\ counters[c] = Cardinality(Counted(c))
        /\ r \notin Counted(c)
    BY DEF Tallied, Counted
  <1>3. CASE c = counter
    <2>1. Counted(c)' = Counted(c) \cup {r}
      BY <1>1, <1>3 DEF Counted
    <2>2. counters'[c] = counters[c] + 1
      BY <1>3 DEF Count, TypeOK
    <2> QED  BY <1>2, <2>1, <2>2, FS_AddElement
  <1>4. CASE c # counter
    <2>1. Counted(c)' = Counted(c)
      BY <1>1, <1>4 DEF Counted
    <2>2. counters'[c] = counters[c]
      BY <1>4 DEF Count, TypeOK
    <2> QED  BY <1>2, <2>1, <2>2
  <1> QED  BY <1>3, <1>4
-----------------------------------------------------------------------------
(* One lemma for each way a step can affect the record. *)

(* It is enough to show the record of the stepping request and the tally. *)
LEMMA StepRecord ==
    ASSUME RecordInv, NEW r \in Requests, Acts(r), AuditInv(r)', Tallied'
    PROVE  RecordInv'
PROOF
  <1>1. Spares(r)
    BY ActsSpares DEF RecordInv, Inv
  <1>2. ASSUME NEW q \in Requests, q # r PROVE AuditInv(q)'
    BY <1>1, <1>2, AuditFrame DEF RecordInv, Spares
  <1>3. Next
    BY DEF Acts, Next
  <1>4. Inv'
    BY <1>3, NextInv DEF RecordInv
  <1> QED  BY <1>2, <1>4 DEF RecordInv

(* A request whose handler has not ended is counted nowhere. *)
LEMMA NotYetCounted ==
    ASSUME NEW r \in Requests, AuditInv(r), pc[r] # "answered", NEW c
    PROVE  ~CountedBy(r, c)
  BY DEF AuditInv, CountedBy, Refused

(* A handler that goes on to its next stage, or is dropped, records        *)
(* nothing.                                                                *)
LEMMA GoesOn ==
    ASSUME RecordInv, NEW r \in Requests, Acts(r),
           pc[r] # "answered", pc'[r] # "answered",
           UNCHANGED <<counters, audit, lost, response>>,
           result'[r] # None => pc'[r] \in {"awaiting", "unroutable", "cancelled"}
    PROVE  RecordInv'
PROOF
  <1>1. AuditInv(r) /\ Spares(r) /\ Tallied
    BY ActsSpares DEF RecordInv, Inv
  <1>2. AuditInv(r)'
    BY <1>1 DEF AuditInv
  <1>3. \A c \in Counter : ~CountedBy(r, c)
    BY <1>1, NotYetCounted
  <1>4. \A c \in Counter : ~CountedBy(r, c)'
    BY <1>1 DEF AuditInv, CountedBy, Refused
  <1>5. Tallied'
    BY <1>1, <1>3, <1>4, TallySame
  <1> QED  BY <1>2, <1>5, StepRecord

(* A handler that ends without a decision records nothing. *)
LEMMA EndsUncounted ==
    ASSUME RecordInv, NEW r \in Requests, Acts(r), pc[r] \in {"idle", "reading_body"},
           NEW status \in {"200", "405", "413"}, Answer(r, status, "gateway"),
           UNCHANGED <<counters, audit, lost, upstream, result>>
    PROVE  RecordInv'
PROOF
  <1>1. AuditInv(r) /\ RequestInv(r) /\ Spares(r) /\ Tallied /\ TypeOK
    BY ActsSpares DEF RecordInv, Inv
  <1>2. /\ pc'[r] = "answered" /\ result'[r] = None /\ upstream'[r] = "none"
        /\ response'[r] = [status |-> status, from |-> "gateway"]
    BY <1>1 DEF Answer, Goto, TypeOK, AuditInv, RequestInv, Inside
  <1>3. response'[r] # None
    BY <1>2, NoneIsNoValue DEF Response, GatewayStatus
  <1>4. EndsUndecided(r)'
    BY <1>2 DEF EndsUndecided
  <1>5. AuditInv(r)'
    BY <1>2, <1>3, <1>4 DEF AuditInv
  <1>6. \A c \in Counter : ~CountedBy(r, c)
    BY <1>1, NotYetCounted
  <1>7. \A c \in Counter : ~CountedBy(r, c)'
    BY <1>2 DEF CountedBy, Refused
  <1>8. Tallied'
    BY <1>1, <1>6, <1>7, TallySame
  <1> QED  BY <1>5, <1>8, StepRecord
(* The counter a refusal with that status goes to. *)
RefusalCounter ==
    [s \in DOMAIN RefusalOutcome |->
        CASE s = "401" -> "auth_failures" [] s = "400" -> "parse_errors"
          [] s = "403" -> "authz_denied" [] s = "429" -> "rate_limited"]

(* A handler that refuses leaves one line, unless the sink fails, and one  *)
(* count.                                                                  *)
LEMMA Refuses ==
    ASSUME RecordInv, NEW r \in Requests, Acts(r),
           pc[r] \in {"idle", "classifying", "authorizing", "limiting"},
           NEW status \in DOMAIN RefusalOutcome, NEW line \in Line,
           line.outcome = RefusalOutcome[status],
           line.principal = IF status = "401" THEN "-" ELSE principal[r].name,
           Emit(r, line), Count(RefusalCounter[status]), Answer(r, status, "gateway"),
           UNCHANGED <<principal, upstream, result>>
    PROVE  RecordInv'
PROOF
  <1>1. AuditInv(r) /\ RequestInv(r) /\ Spares(r) /\ Tallied /\ TypeOK
    BY ActsSpares DEF RecordInv, Inv
  <1>s. status \in {"401", "400", "403", "429"}
    BY DEF RefusalOutcome
  <1>2. /\ pc'[r] = "answered" /\ result'[r] = None /\ upstream'[r] = "none"
        /\ response'[r] = [status |-> status, from |-> "gateway"]
    BY <1>1 DEF Answer, Goto, TypeOK, AuditInv, RequestInv, Inside
  <1>3. response'[r] # None
    BY <1>2, <1>s, NoneIsNoValue DEF Response, GatewayStatus
  <1>4. r \notin lost' => audit'[r] = <<line>>
    BY <1>1 DEF Emit, AuditInv, TypeOK
  <1>5. EndsRefused(r, status)'
    BY <1>2, <1>4 DEF EndsRefused
  <1>6. AuditInv(r)'
    BY <1>2, <1>3, <1>5 DEF AuditInv
  <1>7. \A c \in Counter : ~CountedBy(r, c)
    BY <1>1, NotYetCounted
  <1>8. \A c \in Counter : CountedBy(r, c)' <=> c = RefusalCounter[status]
    BY <1>2, <1>3, <1>s DEF CountedBy, Refused, RefusalCounter, RefusalOutcome
  <1>9. RefusalCounter[status] \in Counter
    BY <1>s DEF RefusalCounter, RefusalOutcome, Counter
  <1>10. Tallied'
    BY <1>1, <1>7, <1>8, <1>9, TallyOne
  <1> QED  BY <1>6, <1>10, StepRecord

(* A handler that answers with the outcome of forward() counts it, and     *)
(* leaves one line about a write or a failure, unless the sink fails.      *)
LEMMA Completes ==
    ASSUME RecordInv, NEW r \in Requests, Acts(r),
           pc[r] \in {"awaiting", "unroutable"}, result[r] # None,
           NEW status, NEW from, Answer(r, status, from),
           IF result[r] \in Statuses
           THEN status = result[r] /\ from = "upstream"
           ELSE /\ status = IF result[r] = "NoUpstream" THEN "404" ELSE "502"
                /\ from = "gateway",
           classification[r].scope = "write" \/ result[r] \notin Statuses
               => Emit(r, AllowedLine(r)),
           Count("requests"), UNCHANGED <<principal, classification, result>>
    PROVE  RecordInv'
PROOF
  <1>1. AuditInv(r) /\ RequestInv(r) /\ Spares(r) /\ Tallied /\ TypeOK
    BY ActsSpares DEF RecordInv, Inv
  <1>2. /\ pc'[r] = "answered" /\ result'[r] = result[r]
        /\ response'[r] = [status |-> status, from |-> from]
    BY <1>1 DEF Answer, Goto, TypeOK
  <1>3. response'[r] # None
    <2>1. status \in Statuses \cup GatewayStatus /\ from \in {"gateway", "upstream"}
      BY DEF GatewayStatus
    <2> QED  BY <2>1, <1>2, NoneIsNoValue DEF Response
  <1>4. /\ r \notin lost'
        /\ classification[r].scope = "write" \/ result[r] \notin Statuses
        => audit'[r] = <<AllowedLine(r)>>
    BY <1>1 DEF Emit, AuditInv, TypeOK
  <1>5. AllowedLine(r)' = AllowedLine(r)
    BY DEF AllowedLine, ClassifiedLine
  <1>6. EndsForwarded(r)'
    BY <1>2, <1>4, <1>5 DEF EndsForwarded
  <1>7. AuditInv(r)'
    BY <1>2, <1>3, <1>6 DEF AuditInv
  <1>8. \A c \in Counter : ~CountedBy(r, c)
    BY <1>1, NotYetCounted
  <1>9. \A c \in Counter : CountedBy(r, c)' <=> c = "requests"
    <2>1. from = "gateway" => status \in {"404", "502"}
      OBVIOUS
    <2> QED  BY <1>2, <2>1 DEF CountedBy, Refused, Counter
  <1>10. Tallied'
    BY <1>1, <1>8, <1>9, TallyOne DEF Counter
  <1> QED  BY <1>7, <1>10, StepRecord
-----------------------------------------------------------------------------
(* Every action affects the record in one of those ways. *)

(* Arrival: a probe is answered unrecorded, a 401 is recorded (stage 1 of  *)
(* handle).                                                                *)
LEMMA ArriveRecord ==
    ASSUME RecordInv, NEW r \in Requests, Arrive(r)
    PROVE  RecordInv'
PROOF
  <1>1. TypeOK /\ Acts(r) /\ AuditInv(r)
    BY DEF RecordInv, Inv, Acts
  <1>2. CASE Probe(r)
    <2>1. \E status \in {"200", "405", "413"} : Answer(r, status, "gateway")
      BY <1>2 DEF Probe
    <2> QED  BY <1>1, <1>2, <2>1, EndsUncounted DEF Probe, shared
  <1>3. CASE Accept(r)
    <2>1. /\ pc[r] = "idle" /\ pc'[r] = "reading_body" /\ result'[r] = result[r]
          /\ UNCHANGED <<counters, audit, lost, response>>
      BY <1>1, <1>3 DEF Accept, Goto, TypeOK, shared
    <2>2. result[r] = None
      BY <1>1, <2>1 DEF AuditInv
    <2> QED  BY <1>1, <2>1, <2>2, GoesOn
  <1>4. CASE Unauthorized(r)
    <2> DEFINE line == BareLine("-", "auth_failed")
    <2>1. /\ line \in Line /\ line.outcome = RefusalOutcome["401"] /\ line.principal = "-"
          /\ "401" \in DOMAIN RefusalOutcome /\ RefusalCounter["401"] = "auth_failures"
      BY BareLineType DEF BareLine, Outcome, RefusalOutcome, RefusalCounter
    <2> HIDE DEF line
    <2>2. /\ pc[r] = "idle" /\ Emit(r, line) /\ Count("auth_failures")
          /\ Answer(r, "401", "gateway") /\ UNCHANGED <<principal, upstream, result>>
      BY <1>4 DEF Unauthorized, line
    <2> QED  BY <1>1, <2>1, <2>2, Refuses
  <1> QED  BY <1>2, <1>3, <1>4 DEF Arrive

(* The body: a 413 is not recorded (stage 2 of handle). *)
LEMMA BodyRecord ==
    ASSUME RecordInv, NEW r \in Requests, Body(r)
    PROVE  RecordInv'
PROOF
  <1>1. TypeOK /\ Acts(r) /\ AuditInv(r)
    BY DEF RecordInv, Inv, Acts
  <1>2. CASE ReadBody(r)
    <2>1. /\ pc[r] = "reading_body" /\ pc'[r] = "classifying" /\ result'[r] = result[r]
          /\ UNCHANGED <<counters, audit, lost, response>>
      BY <1>1, <1>2 DEF ReadBody, Goto, TypeOK, shared
    <2>2. result[r] = None
      BY <1>1, <2>1 DEF AuditInv
    <2> QED  BY <1>1, <2>1, <2>2, GoesOn
  <1>3. CASE BodyFails(r)
    BY <1>1, <1>3, EndsUncounted DEF BodyFails, shared
  <1> QED  BY <1>2, <1>3 DEF Body

(* Classification, authorization and the limiter: what they let through is *)
(* recorded later, what they refuse at once (stages 3 to 4b of handle).    *)
LEMMA DecisionRecord ==
    ASSUME RecordInv, NEW r \in Requests,
           \/ ClassifyOk(r) \/ Reject(r) \/ AuthorizeOk(r) \/ Deny(r)
           \/ LimitOk(r) \/ LimitExceeded(r)
    PROVE  RecordInv'
PROOF
  <1>1. TypeOK /\ Inv /\ Acts(r) /\ AuditInv(r)
    BY DEF RecordInv, Inv, Acts, Step
  <1>2. CASE ClassifyOk(r) \/ AuthorizeOk(r) \/ LimitOk(r)
    <2>1. /\ pc[r] \in {"classifying", "authorizing", "limiting"}
          /\ pc'[r] \in {"authorizing", "limiting", "forwarding"}
          /\ result'[r] = result[r] /\ UNCHANGED <<counters, audit, lost, response>>
      BY <1>1, <1>2 DEF ClassifyOk, AuthorizeOk, LimitOk, Goto, TypeOK, shared
    <2>2. result[r] = None
      BY <1>1, <2>1 DEF AuditInv
    <2> QED  BY <1>1, <2>1, <2>2, GoesOn
  <1>3. CASE Reject(r)
    <2> DEFINE line == BareLine(principal[r].name, "rejected")
    <2>0. principal[r].name \in Names
      BY <1>1, <1>3 DEF Reject, Inv, RequestInv, Handling, Authenticated, Principal
    <2>1. /\ line \in Line /\ line.outcome = RefusalOutcome["400"]
          /\ line.principal = principal[r].name
          /\ "400" \in DOMAIN RefusalOutcome /\ RefusalCounter["400"] = "parse_errors"
      BY <2>0, BareLineType DEF BareLine, Outcome, RefusalOutcome, RefusalCounter
    <2> HIDE DEF line
    <2>2. /\ pc[r] = "classifying" /\ Emit(r, line) /\ Count("parse_errors")
          /\ Answer(r, "400", "gateway") /\ UNCHANGED <<principal, upstream, result>>
      BY <1>3 DEF Reject, line
    <2> QED  BY <1>1, <2>1, <2>2, Refuses
  <1>4. CASE Deny(r)
    <2> DEFINE line == ClassifiedLine(r, "denied", None)
    <2>1. /\ pc[r] = "authorizing" /\ Emit(r, line) /\ Count("authz_denied")
          /\ Answer(r, "403", "gateway") /\ UNCHANGED <<principal, upstream, result>>
      BY <1>4 DEF Deny
    <2>2. line \in Line
      BY <1>1, <2>1, ClassifiedLineType DEF Authorizing, Outcome
    <2>3. /\ line.outcome = RefusalOutcome["403"] /\ line.principal = principal[r].name
          /\ "403" \in DOMAIN RefusalOutcome /\ RefusalCounter["403"] = "authz_denied"
      BY DEF ClassifiedLine, RefusalOutcome, RefusalCounter
    <2> HIDE DEF line
    <2> QED  BY <1>1, <2>1, <2>2, <2>3, Refuses
  <1>5. CASE LimitExceeded(r)
    <2> DEFINE line == ClassifiedLine(r, "rate_limited", None)
    <2>1. /\ pc[r] = "limiting" /\ Emit(r, line) /\ Count("rate_limited")
          /\ Answer(r, "429", "gateway") /\ UNCHANGED <<principal, upstream, result>>
      BY <1>5 DEF LimitExceeded
    <2>2. line \in Line
      BY <1>1, <2>1, ClassifiedLineType DEF Authorizing, Forwarding, Outcome
    <2>3. /\ line.outcome = RefusalOutcome["429"] /\ line.principal = principal[r].name
          /\ "429" \in DOMAIN RefusalOutcome /\ RefusalCounter["429"] = "rate_limited"
      BY DEF ClassifiedLine, RefusalOutcome, RefusalCounter
    <2> HIDE DEF line
    <2> QED  BY <1>1, <2>1, <2>2, <2>3, Refuses
  <1> QED  BY <1>2, <1>3, <1>4, <1>5

(* Forwarding and what comes of it (stage 5 of handle). *)
LEMMA ForwardRecord ==
    ASSUME RecordInv, NEW r \in Requests,
           Forward(r) \/ NoUpstream(r) \/ Relay(r) \/ Fail(r)
    PROVE  RecordInv'
PROOF
  <1>1. TypeOK /\ Acts(r) /\ AuditInv(r)
    BY DEF RecordInv, Inv, Acts, Step
  <1>2. CASE Forward(r) \/ NoUpstream(r)
    <2>1. /\ pc[r] = "forwarding" /\ pc'[r] \in {"awaiting", "unroutable"}
          /\ UNCHANGED <<counters, audit, lost, response>>
      BY <1>1, <1>2 DEF Forward, NoUpstream, Goto, TypeOK, shared
    <2> QED  BY <1>1, <2>1, GoesOn
  <1>3. CASE Relay(r)
    <2>1. /\ pc[r] = "awaiting" /\ result[r] \in Statuses /\ Count("requests")
          /\ Answer(r, result[r], "upstream")
          /\ UNCHANGED <<principal, classification, result>>
      BY <1>3 DEF Relay
    <2>2. classification[r].scope = "write" => Emit(r, AllowedLine(r))
      BY <1>3 DEF Relay, AllowedLine
    <2> QED  BY <1>1, <2>1, <2>2, StatusesAssumption, Completes
  <1>4. CASE Fail(r)
    <2>1. result[r] \notin Statuses /\ result[r] # None
      BY <1>4, StatusesAssumption DEF Fail, ProxyError
    <2>2. /\ pc[r] \in {"awaiting", "unroutable"} /\ Count("requests")
          /\ Answer(r, IF result[r] = "NoUpstream" THEN "404" ELSE "502", "gateway")
          /\ Emit(r, AllowedLine(r)) /\ UNCHANGED <<principal, classification, result>>
      BY <1>4, <2>1 DEF Fail, AllowedLine
    <2> QED  BY <1>1, <2>1, <2>2, Completes
  <1> QED  BY <1>2, <1>3, <1>4

(* The upstream's steps and a dropped handler leave no record; what was    *)
(* sent may still execute after its handler has ended.                     *)
LEMMA OutsideRecord ==
    ASSUME RecordInv, NEW r \in Requests, Upstream(r) \/ Cancel(r)
    PROVE  RecordInv'
PROOF
  <1>1. TypeOK /\ Acts(r) /\ AuditInv(r) /\ Spares(r) /\ Tallied
    BY ActsSpares DEF RecordInv, Inv, Acts
  <1>2. CASE UpstreamAnswers(r) \/ UpstreamFails(r)
    <2>1. /\ pc[r] = "awaiting" /\ pc'[r] = pc[r]
          /\ UNCHANGED <<counters, audit, lost, response>>
      BY <1>2 DEF UpstreamAnswers, UpstreamFails, shared
    <2> QED  BY <1>1, <2>1, GoesOn
  <1>3. CASE Cancel(r)
    <2>1. /\ pc[r] \in {"reading_body", "awaiting"} /\ pc'[r] = "cancelled"
          /\ UNCHANGED <<counters, audit, lost, response>>
      BY <1>1, <1>3 DEF Cancel, Goto, TypeOK, shared
    <2> QED  BY <1>1, <2>1, GoesOn
  <1>4. CASE UpstreamExecutes(r)
    <2>1. /\ upstream[r] = "sent"
          /\ UNCHANGED <<pc, principal, classification, result, response, counters, audit, lost>>
      BY <1>4 DEF UpstreamExecutes, shared
    <2>2. AuditInv(r)'
      BY <1>1, <2>1 DEF AuditInv, EndsUndecided, EndsRefused, EndsForwarded, AllowedLine,
         ClassifiedLine
    <2>3. \A c \in Counter : CountedBy(r, c)' <=> CountedBy(r, c)
      BY <2>1, CountedFrame
    <2>4. Tallied'
      BY <1>1, <2>1, <2>3, TallySame
    <2> QED  BY <1>1, <2>2, <2>4, StepRecord
  <1> QED  BY <1>2, <1>3, <1>4 DEF Upstream

(* A step that leaves every request and counter alone keeps the record. *)
LEMMA IdleRecord ==
    ASSUME RecordInv, [Next]_vars, UNCHANGED <<counters, audit, lost>>, UNCHANGED handler
    PROVE  RecordInv'
PROOF
  <1>1. Inv'
    BY NextInv DEF RecordInv
  <1>2. ASSUME NEW q \in Requests PROVE AuditInv(q)'
    BY AuditFrame DEF RecordInv, handler
  <1>3. ASSUME NEW c \in Counter PROVE Counted(c)' = Counted(c)
    BY CountedFrame DEF Counted, handler
  <1>4. Tallied'
    BY <1>3 DEF RecordInv, Tallied
  <1> QED  BY <1>1, <1>2, <1>4 DEF RecordInv

(* Nothing is recorded when the gateway starts (AppState::new). *)
LEMMA InitRecord == Init => RecordInv
PROOF
  <1> SUFFICES ASSUME Init PROVE RecordInv
    OBVIOUS
  <1>1. ASSUME NEW r \in Requests PROVE AuditInv(r)
    BY DEF Init, AuditInv
  <1>2. ASSUME NEW c \in Counter
        PROVE  IsFiniteSet(Counted(c)) /\ counters[c] = Cardinality(Counted(c))
    <2>1. Counted(c) = {} /\ counters[c] = 0
      BY DEF Init, Counted, CountedBy, Refused
    <2> QED  BY <2>1, FS_EmptySet
  <1> QED  BY <1>1, <1>2, InitInv DEF RecordInv, Tallied

(* Every step of the gateway keeps the record. *)
LEMMA NextRecord == RecordInv /\ [Next]_vars => RecordInv'
PROOF
  <1> SUFFICES ASSUME RecordInv, [Next]_vars PROVE RecordInv'
    OBVIOUS
  <1>1. ASSUME NEW r \in Requests, Acts(r) PROVE RecordInv'
    BY <1>1, ArriveRecord, BodyRecord, DecisionRecord, ForwardRecord, OutsideRecord
       DEF Acts, Step
  <1>2. CASE Tick
    BY <1>2, IdleRecord DEF Tick
  <1>3. CASE UNCHANGED vars
    BY <1>3, IdleRecord DEF vars, handler
  <1> QED  BY <1>1, <1>2, <1>3 DEF Next, Quiescent, Acts

-----------------------------------------------------------------------------
(* The record is right in every behaviour of the gateway. *)
THEOREM Recorded == Spec => []RecordInv
  <1>1. RecordInv /\ [Next]_vars => RecordInv'
    BY NextRecord
  <1> QED  BY <1>1, InitRecord, PTL DEF Spec

(* The record contains every refusal. *)
LEMMA RecordRefusals == RecordInv => RefusalContained
PROOF
  <1> SUFFICES ASSUME RecordInv, NEW r \in Requests, NEW s \in DOMAIN RefusalOutcome,
                      Refused(r, s)
               PROVE  /\ upstream[r] = "none" /\ pc[r] = "answered"
                      /\ r \notin lost =>
                           /\ Len(audit[r]) = 1
                           /\ audit[r][1].outcome = RefusalOutcome[s]
                           /\ audit[r][1].principal =
                                  IF s = "401" THEN "-" ELSE principal[r].name
    BY DEF RefusalContained
  <1>1. AuditInv(r) /\ s \in {"401", "400", "403", "429"}
    BY DEF RecordInv, RefusalOutcome
  <1>2. pc[r] = "answered"
    BY <1>1 DEF AuditInv, Refused
  <1>3. ~EndsUndecided(r) /\ ~EndsForwarded(r)
    BY <1>1 DEF EndsUndecided, EndsForwarded, Refused
  <1>4. EndsRefused(r, s)
    BY <1>1, <1>2, <1>3 DEF AuditInv, EndsRefused, Refused
  <1> QED  BY <1>2, <1>4 DEF EndsRefused

(* The record contains every answered write. *)
LEMMA RecordWrites == RecordInv => WriteRecorded
PROOF
  <1> SUFFICES ASSUME RecordInv, NEW r \in Requests,
                      pc[r] = "answered", upstream[r] # "none", Mutates(request[r]),
                      config.fail_closed_on_parse_error \/ Classifiable(request[r].body),
                      r \notin lost
               PROVE  /\ Len(audit[r]) = 1
                      /\ audit[r][1].outcome = "allowed"
                      /\ audit[r][1].principal = principal[r].name
                      /\ Route(request[r].path) # "GraphNodeAdmin" =>
                            \A op \in ExecutableOperations(request[r].body) :
                                op.top_level_fields \subseteq audit[r][1].fields
                      /\ audit[r][1].upstream_status =
                            IF response[r].from = "upstream" THEN response[r].status ELSE None
    BY DEF WriteRecorded
  <1>1. AuditInv(r) /\ classification[r] \in Classified(r)
    BY DEF RecordInv, Inv, RequestInv
  <1>2. classification[r].scope = "write"
    BY <1>1, MutationIsWrite DEF Classified
  <1>3. EndsForwarded(r)
    BY <1>1 DEF AuditInv, EndsUndecided, EndsRefused
  <1>4. audit[r] = <<AllowedLine(r)>>
    BY <1>2, <1>3 DEF EndsForwarded
  <1>5. Len(audit[r]) = 1 /\ audit[r][1] = AllowedLine(r)
    BY <1>4
  <1>6. AllowedLine(r).upstream_status =
            IF response[r].from = "upstream" THEN response[r].status ELSE None
    BY <1>3 DEF EndsForwarded, AllowedLine, ClassifiedLine
  <1>7. ASSUME Route(request[r].path) # "GraphNodeAdmin",
               NEW op \in ExecutableOperations(request[r].body)
        PROVE  op.top_level_fields \subseteq AllowedLine(r).fields
    <2>1. classification[r] = Classification(request[r].body)
      BY <1>1, <1>7 DEF Classified, ClassifyRequest, Mutates
    <2>2. op \in classification[r].operations
      BY <2>1, ExecutableInClassification
    <2> QED  BY <2>2 DEF AllowedLine, ClassifiedLine, TopFields
  <1> QED  BY <1>5, <1>6, <1>7 DEF AllowedLine, ClassifiedLine

(* The record contains the metrics. *)
LEMMA RecordMetrics == RecordInv => MetricsAccount
PROOF
  <1> SUFFICES ASSUME RecordInv PROVE MetricsAccount
    OBVIOUS
  <1>1. \A c \in Counter : counters[c] = Cardinality(Counted(c))
    BY DEF RecordInv, Tallied
  <1>2. /\ Counted("auth_failures") = {r \in Requests : Refused(r, "401")}
        /\ Counted("parse_errors") = {r \in Requests : Refused(r, "400")}
        /\ Counted("authz_denied") = {r \in Requests : Refused(r, "403")}
        /\ Counted("rate_limited") = {r \in Requests : Refused(r, "429")}
        /\ Counted("requests") = {r \in Requests : pc[r] = "answered" /\ result[r] # None}
    BY DEF Counted, CountedBy
  <1> QED  BY <1>1, <1>2 DEF MetricsAccount, Counter

(* A refused request never reaches the upstream and leaves one line, with  *)
(* the verdict and the name, however requests interleave.                  *)
THEOREM RefusalsContained == Spec => []RefusalContained
  BY Recorded, RecordRefusals, PTL

(* Every answered write is on record once, with its caller, its root       *)
(* fields and its outcome, unless the sink lost the line.                  *)
THEOREM WritesRecorded == Spec => []WriteRecorded
  BY Recorded, RecordWrites, PTL

(* The counters never drift from the answers they count. *)
THEOREM MetricsTally == Spec => []MetricsAccount
  BY Recorded, RecordMetrics, PTL
==============================================================================
