-------------------------- MODULE GatewayLimitProofs --------------------------
(***************************************************************************)
(* The budgets of the gateway as its clients see them, proved for any      *)
(* number of concurrent requests, any budgets and any length of the        *)
(* minute: what the limiter admits is bounded over every window, and it    *)
(* refuses nobody early.                                                   *)
(*                                                                         *)
(* Both properties count requests by the time they were checked, and say   *)
(* nothing of the cell the next decision depends on.  BudgetInv ties the   *)
(* two together for each principal and scope (WindowInv of QuotaProofs),   *)
(* and adds that a request joins the history once: it has not been checked *)
(* before the limiter, and is not classified anew, renamed or refused with *)
(* a 429 after it.                                                         *)
(***************************************************************************)
EXTENDS GatewayAuditProofs

(* The requests admitted under a key, and those of them since some time. *)
Admitted(r, scope, name) ==
    /\ checked[r] # None
    /\ ~Refused(r, "429")
    /\ classification[r].scope = scope
    /\ principal[r].name = name

Since(scope, name, from) ==
    {r \in Requests : Admitted(r, scope, name) /\ checked[r] >= from}

(* The history of a key's cell. *)
Uses(scope, name) == [from \in Int |-> Cardinality(Since(scope, name, from))]

(* A request that has not come to the limiter has not been checked. *)
Ahead == {"idle", "reading_body", "classifying", "authorizing", "limiting"}

CheckedInv(r) ==
    /\ pc[r] \in Ahead => checked[r] = None
    /\ checked[r] # None => checked[r] \in 0..now

(* A 429 was given when the budget of its key was spent. *)
ThrottledInv(r) ==
    Refused(r, "429") =>
        /\ checked[r] \in 0..now /\ Budget(r) # 0
        /\ \E scope \in Scope, name \in Names :
              /\ classification[r].scope = scope /\ principal[r].name = name
              /\ SpentAt(Uses(scope, name), Budget(r), checked[r])

LimitInv(scope, name) ==
    /\ IsFiniteSet(Since(scope, name, 0))
    /\ config.per_minute[scope] # 0 =>
          WindowInv(Uses(scope, name), full_at[<<scope, name>>], config.per_minute[scope], now)

BudgetInv ==
    /\ RecordInv
    /\ \A r \in Requests : CheckedInv(r) /\ ThrottledInv(r)
    /\ \A scope \in Scope, name \in Names : LimitInv(scope, name)

-----------------------------------------------------------------------------
(* What the history is made of. *)

(* Later starts count fewer requests, and nothing was checked in the       *)
(* future.                                                                 *)
LEMMA SinceShrinks ==
    ASSUME BudgetInv, NEW scope \in Scope, NEW name \in Names, NEW from \in Int
    PROVE  /\ IsFiniteSet(Since(scope, name, from))
           /\ Cardinality(Since(scope, name, from)) \in Nat
           /\ \A to \in Int : from <= to => Since(scope, name, to) \subseteq Since(scope, name, from)
           /\ from > now => Since(scope, name, from) = {}
           /\ \A r \in Since(scope, name, from) : checked[r] \in 0..now
PROOF
  <1>1. \A r \in Requests : checked[r] # None => checked[r] \in 0..now
    BY DEF BudgetInv, CheckedInv
  <1>2. now \in Nat
    BY GatewayBounds DEF BudgetInv, RecordInv, Inv, TypeOK
  <1>3. Since(scope, name, from) \subseteq Since(scope, name, 0)
    BY <1>1, <1>2 DEF Since, Admitted
  <1>4. IsFiniteSet(Since(scope, name, from))
    BY <1>3, FS_Subset DEF BudgetInv, LimitInv
  <1>5. \A to \in Int : from <= to => Since(scope, name, to) \subseteq Since(scope, name, from)
    BY <1>1, <1>2 DEF Since, Admitted
  <1>6. from > now => Since(scope, name, from) = {}
    BY <1>1, <1>2 DEF Since, Admitted
  <1>7. \A r \in Since(scope, name, from) : checked[r] \in 0..now
    BY <1>1 DEF Since, Admitted
  <1> QED  BY <1>4, <1>5, <1>6, <1>7, FS_CardinalityType

(* Uses is a history in the sense of QuotaProofs. *)
LEMMA UsesHistory ==
    ASSUME BudgetInv, NEW scope \in Scope, NEW name \in Names
    PROVE  History(Uses(scope, name), now)
PROOF
  <1> DEFINE u == Uses(scope, name)
  <1>1. u \in [Int -> Nat]
    BY SinceShrinks DEF Uses
  <1>2. ASSUME NEW a \in Int, NEW b \in Int, a <= b PROVE u[b] <= u[a]
    <2>1. IsFiniteSet(Since(scope, name, a)) /\ Since(scope, name, b) \subseteq Since(scope, name, a)
      BY <1>2, SinceShrinks
    <2> QED  BY <2>1, FS_Subset DEF Uses
  <1>3. ASSUME NEW a \in Int, a > now PROVE u[a] = 0
    BY <1>3, SinceShrinks, FS_EmptySet DEF Uses
  <1> QED  BY <1>1, <1>2, <1>3 DEF History

(* The requests of a window are those since its start but those after its  *)
(* end.                                                                    *)
LEMMA WindowCount ==
    ASSUME BudgetInv, NEW scope \in Scope, NEW name \in Names,
           NEW from \in Int, NEW to \in Int, from <= to
    PROVE  Cardinality(AdmittedWithin(scope, name, from, to))
               = Uses(scope, name)[from] - Uses(scope, name)[to + 1]
PROOF
  <1> DEFINE S == Since(scope, name, from)
             T == Since(scope, name, to + 1)
  <1>1. IsFiniteSet(S) /\ T \subseteq S /\ \A r \in S : checked[r] \in Int
    BY SinceShrinks
  <1>2. \A r \in Requests : checked[r] # None => checked[r] \in Int
    BY DEF BudgetInv, CheckedInv
  <1>3. AdmittedWithin(scope, name, from, to) = S \ T
    BY <1>2 DEF AdmittedWithin, Since, Admitted
  <1>4. S \cap T = T
    BY <1>1
  <1> HIDE DEF S, T
  <1>5. Cardinality(S \ T) = Cardinality(S) - Cardinality(T)
    BY <1>1, <1>4, FS_Difference
  <1> QED  BY <1>3, <1>5 DEF Uses, S, T
-----------------------------------------------------------------------------
(* How a step may change the history. *)

(* The step does not change whether and when q was admitted. *)
Keeps(q, scope, name) ==
    /\ Admitted(q, scope, name)' <=> Admitted(q, scope, name)
    /\ Admitted(q, scope, name) => checked'[q] = checked[q]

(* If it changes that for nobody, the history of the key stays. *)
LEMMA UsesSame ==
    ASSUME NEW scope, NEW name, \A q \in Requests : Keeps(q, scope, name)
    PROVE  /\ Since(scope, name, 0)' = Since(scope, name, 0)
           /\ Uses(scope, name)' = Uses(scope, name)
PROOF
  <1>1. \A from \in Int : Since(scope, name, from)' = Since(scope, name, from)
    BY DEF Keeps, Since
  <1> QED  BY <1>1 DEF Uses

(* A step of r keeps the part of every other request. *)
LEMMA OthersKeep ==
    ASSUME NEW r \in Requests, Spares(r), NEW q \in Requests \ {r}, NEW scope, NEW name,
           checked'[q] = checked[q]
    PROVE  Keeps(q, scope, name)
  BY DEF Spares, Keeps, Admitted, Refused

(* A step of r other than the limiter's leaves the cells, and what r has   *)
(* been checked as, alone.                                                 *)
LEMMA BesidesLimiter ==
    ASSUME RecordInv, NEW r \in Requests, CheckedInv(r), Acts(r), ~LimitOk(r), ~LimitExceeded(r)
    PROVE  /\ UNCHANGED <<config, now, full_at, checked>>
           /\ pc'[r] \in Ahead => pc[r] \in Ahead
           /\ checked[r] # None => principal'[r] = principal[r]
                                    /\ classification'[r] = classification[r]
           /\ Refused(r, "429")' <=> Refused(r, "429")
           /\ Refused(r, "429") => principal'[r] = principal[r]
                                    /\ classification'[r] = classification[r]
PROOF
  <1>1. TypeOK /\ AuditInv(r)
    BY DEF RecordInv, Inv
  <1>2. pc[r] # "answered" => ~Refused(r, "429")
    BY <1>1 DEF AuditInv, Refused
  <1>3. CASE Probe(r) \/ BodyFails(r) \/ Unauthorized(r) \/ Reject(r) \/ Deny(r)
    <2>1. PICK status \in {"200", "405", "413", "401", "400", "403"} :
              /\ Answer(r, status, "gateway")
              /\ pc[r] # "answered"
              /\ UNCHANGED <<config, now, full_at, checked, principal, classification>>
      BY <1>3 DEF Probe, BodyFails, Unauthorized, Reject, Deny, shared
    <2>2. pc'[r] = "answered" /\ response'[r] = [status |-> status, from |-> "gateway"]
      BY <2>1, <1>1 DEF Answer, Goto, TypeOK
    <2>3. ~Refused(r, "429")'
      BY <2>2 DEF Refused
    <2> QED  BY <1>2, <2>1, <2>2, <2>3 DEF Ahead
  <1>4. CASE Relay(r) \/ Fail(r)
    <2>1. PICK status, from :
              /\ Answer(r, status, from)
              /\ from = "gateway" => status \in {"404", "502"}
              /\ pc[r] # "answered"
              /\ UNCHANGED <<config, now, full_at, checked, principal, classification>>
      BY <1>4 DEF Relay, Fail
    <2>2. pc'[r] = "answered" /\ response'[r] = [status |-> status, from |-> from]
      BY <2>1, <1>1 DEF Answer, Goto, TypeOK
    <2>3. ~Refused(r, "429")'
      BY <2>1, <2>2 DEF Refused
    <2> QED  BY <1>2, <2>1, <2>2, <2>3 DEF Ahead
  <1>5. CASE Accept(r) \/ ReadBody(r) \/ ClassifyOk(r) \/ AuthorizeOk(r)
    <2>1. /\ pc[r] \in Ahead
          /\ UNCHANGED <<config, now, full_at, checked, response>>
      BY <1>5 DEF Accept, ReadBody, ClassifyOk, AuthorizeOk, Ahead, shared
    <2>2. checked[r] = None /\ ~Refused(r, "429")
      BY <2>1, <1>2 DEF CheckedInv, Ahead
    <2> QED  BY <2>1, <2>2 DEF Refused
  <1>6. CASE Forward(r) \/ NoUpstream(r) \/ Cancel(r) \/ Upstream(r)
    <2>1. /\ UNCHANGED <<config, now, full_at, checked, response, principal, classification>>
          /\ pc'[r] \in Ahead => pc[r] \in Ahead
      BY <1>1, <1>6 DEF Forward, NoUpstream, Cancel, Upstream, UpstreamExecutes, UpstreamAnswers,
         UpstreamFails, shared, Goto, TypeOK, Ahead
    <2> QED  BY <2>1 DEF Refused
  <1> QED  BY <1>3, <1>4, <1>5, <1>6 DEF Acts, Arrive, Body, Step

(* A step outside the limiter preserves the invariant. *)
LEMMA BesidesBudget ==
    ASSUME BudgetInv, NEW r \in Requests, Acts(r), ~LimitOk(r), ~LimitExceeded(r)
    PROVE  BudgetInv'
PROOF
  <1>1. RecordInv /\ Spares(r) /\ \A q \in Requests : CheckedInv(q) /\ ThrottledInv(q)
    BY ActsSpares DEF BudgetInv, RecordInv, Inv
  <1>2. RecordInv'
    BY <1>1, NextRecord DEF Next, Acts
  <1>3. /\ UNCHANGED <<config, now, full_at, checked>>
        /\ pc'[r] \in Ahead => pc[r] \in Ahead
        /\ checked[r] # None \/ Refused(r, "429") =>
              principal'[r] = principal[r] /\ classification'[r] = classification[r]
        /\ Refused(r, "429")' <=> Refused(r, "429")
    BY <1>1, BesidesLimiter
  <1>4. ASSUME NEW q \in Requests, NEW scope, NEW name PROVE Keeps(q, scope, name)
    <2>1. CASE q # r
      BY <2>1, <1>1, <1>3, OthersKeep
    <2>2. CASE q = r
      BY <2>2, <1>3 DEF Keeps, Admitted
    <2> QED  BY <2>1, <2>2
  <1>5. ASSUME NEW scope, NEW name
        PROVE  Uses(scope, name)' = Uses(scope, name) /\ Since(scope, name, 0)' = Since(scope, name, 0)
    BY <1>4, UsesSame
  <1>6. ASSUME NEW scope \in Scope, NEW name \in Names PROVE LimitInv(scope, name)'
    BY <1>3, <1>5 DEF BudgetInv, LimitInv
  <1>7. ASSUME NEW q \in Requests PROVE CheckedInv(q)' /\ ThrottledInv(q)'
    <2>1. /\ pc'[q] \in Ahead => pc[q] \in Ahead
          /\ Refused(q, "429")' <=> Refused(q, "429")
          /\ Refused(q, "429") => principal'[q] = principal[q] /\ classification'[q] = classification[q]
      BY <1>1, <1>3 DEF Spares, Refused
    <2>2. CheckedInv(q)'
      BY <1>1, <1>3, <2>1 DEF CheckedInv
    <2>3. ThrottledInv(q)'
      <3> SUFFICES ASSUME Refused(q, "429")' PROVE ThrottledInv(q)'
        BY DEF ThrottledInv
      <3>1. principal'[q] = principal[q] /\ classification'[q] = classification[q] /\ ThrottledInv(q)
        BY <1>1, <2>1
      <3> QED  BY <1>3, <1>5, <2>1, <3>1 DEF ThrottledInv, Budget
    <2> QED  BY <2>2, <2>3
  <1> QED  BY <1>2, <1>6, <1>7 DEF BudgetInv

-----------------------------------------------------------------------------
(* The limiter. *)

(* What the limiter finds of a request that comes to it. *)
LEMMA ComesToLimiter ==
    ASSUME BudgetInv, NEW r \in Requests, pc[r] = "limiting"
    PROVE  /\ classification[r].scope \in Scope /\ principal[r].name \in Names
           /\ Budget(r) \in Nat /\ now \in Nat /\ full_at \in [Keys -> Nat]
           /\ checked[r] = None /\ response[r] = None
           /\ \A scope \in Scope : config.per_minute[scope] \in Nat
           /\ now \in 0..MaxTime /\ None \notin 0..MaxTime
PROOF
  <1>1. TypeOK /\ Inv /\ RequestInv(r) /\ AuditInv(r) /\ CheckedInv(r)
    BY DEF BudgetInv, RecordInv, Inv
  <1>2. classification[r] \in ClassificationType /\ principal[r] \in Principal
    <2>1. classification[r] \in ClassificationType
      BY <1>1, ClassifiedLineType DEF Authorizing, Forwarding, Outcome
    <2> QED  BY <2>1, <1>1 DEF RequestInv, Handling, Authorizing, Forwarding, Authenticated
  <1>3. \A scope \in Scope : config.per_minute[scope] \in Nat
    BY <1>1, ConfigsAssumption DEF TypeOK
  <1>4. now \in Nat /\ full_at \in [Keys -> Nat] /\ now \in 0..MaxTime /\ None \notin 0..MaxTime
    BY <1>1, GatewayBounds, NoneIsNoValue DEF TypeOK
  <1>5. checked[r] = None /\ response[r] = None
    BY <1>1 DEF CheckedInv, AuditInv, Ahead
  <1> QED  BY <1>2, <1>3, <1>4, <1>5 DEF ClassificationType, Principal, Budget

(* An admission adds one request to the history of its key. *)
LEMMA UsesMore ==
    ASSUME BudgetInv, NEW r \in Requests, LimitOk(r), NEW scope \in Scope, NEW name \in Names,
           classification[r].scope = scope, principal[r].name = name
    PROVE  /\ IsFiniteSet(Since(scope, name, 0))'
           /\ Uses(scope, name)' = OneMore(Uses(scope, name), now)
PROOF
  <1>1. /\ TypeOK /\ Spares(r) /\ pc[r] = "limiting"
    BY ActsSpares DEF BudgetInv, RecordInv, Inv, LimitOk, Acts, Step
  <1>2. checked[r] = None /\ response[r] = None /\ now \in Nat /\ now # None
    BY <1>1, ComesToLimiter
  <1>3. checked' = [checked EXCEPT ![r] = now]
        /\ UNCHANGED <<response, classification, principal>>
    BY DEF LimitOk
  <1>4. Admitted(r, scope, name)' /\ checked'[r] = now /\ ~Admitted(r, scope, name)
    BY <1>1, <1>2, <1>3 DEF Admitted, Refused, TypeOK
  <1>5. ASSUME NEW q \in Requests \ {r} PROVE Keeps(q, scope, name)
    BY <1>1, <1>3, OthersKeep DEF TypeOK
  <1>6. ASSUME NEW from \in Int
        PROVE  /\ IsFiniteSet(Since(scope, name, from)')
               /\ Cardinality(Since(scope, name, from)')
                      = IF from <= now THEN Cardinality(Since(scope, name, from)) + 1
                        ELSE Cardinality(Since(scope, name, from))
    <2>1. IsFiniteSet(Since(scope, name, from)) /\ r \notin Since(scope, name, from)
      BY <1>4, SinceShrinks DEF Since
    <2>2. CASE from <= now
      <3>1. Since(scope, name, from)' = Since(scope, name, from) \cup {r}
        BY <1>2, <1>4, <1>5, <2>2 DEF Since, Keeps
      <3> QED  BY <2>1, <2>2, <3>1, FS_AddElement
    <2>3. CASE ~(from <= now)
      <3>1. Since(scope, name, from)' = Since(scope, name, from)
        BY <1>2, <1>4, <1>5, <2>3 DEF Since, Keeps
      <3> QED  BY <2>1, <2>3, <3>1
    <2> QED  BY <2>2, <2>3
  <1>7. Uses(scope, name)' = [from \in Int |-> Cardinality(Since(scope, name, from)')]
    BY DEF Uses
  <1>8. OneMore(Uses(scope, name), now)
            = [from \in Int |-> IF from <= now THEN Cardinality(Since(scope, name, from)) + 1
                                ELSE Cardinality(Since(scope, name, from))]
    BY DEF OneMore, Uses
  <1> QED  BY <1>6, <1>7, <1>8

(* The limiter's admission preserves the invariant: one request more in    *)
(* the history of its key, and one charge more in its cell (check_key).    *)
LEMMA LimitOkBudget ==
    ASSUME BudgetInv, NEW r \in Requests, LimitOk(r)
    PROVE  BudgetInv'
PROOF
  <1>1. /\ RecordInv /\ TypeOK /\ Spares(r) /\ pc[r] = "limiting" /\ Acts(r)
        /\ \A q \in Requests : CheckedInv(q) /\ ThrottledInv(q)
    BY ActsSpares DEF BudgetInv, RecordInv, Inv, LimitOk, Acts, Step
  <1>2. RecordInv'
    BY <1>1, NextRecord DEF Next, Acts
  <1>3. /\ classification[r].scope \in Scope /\ principal[r].name \in Names
        /\ Budget(r) \in Nat /\ now \in Nat /\ full_at \in [Keys -> Nat]
        /\ checked[r] = None /\ response[r] = None
        /\ \A scope \in Scope : config.per_minute[scope] \in Nat
    BY <1>1, ComesToLimiter
  <1>4. /\ UNCHANGED <<config, now, response, classification, principal>>
        /\ checked' = [checked EXCEPT ![r] = now] /\ checked'[r] = now
        /\ pc'[r] = "forwarding"
    BY <1>1 DEF LimitOk, Goto, TypeOK
  <1>5. ASSUME NEW q \in Requests \ {r} PROVE checked'[q] = checked[q]
    BY <1>1, <1>4 DEF TypeOK
  <1>6. ASSUME NEW scope \in Scope, NEW name \in Names,
               ~(classification[r].scope = scope /\ principal[r].name = name)
        PROVE  /\ Uses(scope, name)' = Uses(scope, name)
               /\ Since(scope, name, 0)' = Since(scope, name, 0)
               /\ full_at'[<<scope, name>>] = full_at[<<scope, name>>]
    <2>1. Keeps(r, scope, name)
      BY <1>4, <1>6 DEF Keeps, Admitted
    <2>2. \A q \in Requests : Keeps(q, scope, name)
      BY <1>1, <1>5, <2>1, OthersKeep
    <2>3. full_at'[<<scope, name>>] = full_at[<<scope, name>>]
      BY <1>3, <1>6 DEF LimitOk, Key, Keys
    <2> QED  BY <2>2, <2>3, UsesSame
  <1>7. ASSUME NEW scope \in Scope, NEW name \in Names PROVE LimitInv(scope, name)'
    <2>0. LimitInv(scope, name)
      BY DEF BudgetInv
    <2>1. CASE ~(classification[r].scope = scope /\ principal[r].name = name)
      BY <1>4, <1>6, <2>0, <2>1 DEF LimitInv
    <2>2. CASE classification[r].scope = scope /\ principal[r].name = name
      <3> DEFINE n == config.per_minute[scope]
                 u == Uses(scope, name)
                 full == full_at[<<scope, name>>]
      <3>1. IsFiniteSet(Since(scope, name, 0))' /\ Uses(scope, name)' = OneMore(u, now)
        BY <2>2, UsesMore
      <3>2. CASE n = 0
        BY <3>1, <3>2, <1>4 DEF LimitInv
      <3>3. CASE n # 0
        <4>1. /\ Conforms(n, full, now)
              /\ full_at' = [full_at EXCEPT ![<<scope, name>>] = Charge(n, full, now)]
          BY <2>2, <3>3 DEF LimitOk, Budget, Key
        <4>2. full \in Nat /\ full_at'[<<scope, name>>] = Charge(n, full, now)
          BY <4>1, <1>3 DEF Keys
        <4>3. n \in Nat \ {0} /\ History(u, now) /\ WindowInv(u, full, n, now)
          BY <1>3, <3>3, <2>0, UsesHistory DEF LimitInv
        <4> HIDE DEF n, u, full
        <4>4. WindowInv(OneMore(u, now), Charge(n, full, now), n, now)
          BY <4>1, <4>2, <4>3, <1>3, WindowAdmit
        <4> QED  BY <3>1, <4>2, <4>4, <1>4 DEF LimitInv, n
      <3> QED  BY <3>2, <3>3
    <2> QED  BY <2>1, <2>2
  <1>8. ASSUME NEW q \in Requests PROVE CheckedInv(q)'
    <2>1. CASE q = r
      BY <2>1, <1>3, <1>4 DEF CheckedInv, Ahead
    <2>2. CASE q # r
      BY <2>2, <1>1, <1>4, <1>5 DEF CheckedInv, Spares
    <2> QED  BY <2>1, <2>2
  <1>9. ASSUME NEW q \in Requests PROVE ThrottledInv(q)'
    <2> SUFFICES ASSUME Refused(q, "429")' PROVE ThrottledInv(q)'
      BY DEF ThrottledInv
    <2>1. Refused(q, "429") /\ q # r
      BY <1>3, <1>4 DEF Refused
    <2>2. checked[q] \in 0..now /\ Budget(q) # 0 /\ checked'[q] = checked[q] /\ Budget(q)' = Budget(q)
      BY <2>1, <1>1, <1>4, <1>5 DEF ThrottledInv, Budget
    <2>3. PICK scope \in Scope, name \in Names :
              /\ classification[q].scope = scope /\ principal[q].name = name
              /\ SpentAt(Uses(scope, name), Budget(q), checked[q])
      BY <2>1, <1>1 DEF ThrottledInv
    <2>4. Budget(q) \in Nat /\ History(Uses(scope, name), now)
      BY <2>3, <1>3, UsesHistory DEF Budget
    <2>5. SpentAt(Uses(scope, name)', Budget(q), checked[q])
      <3>1. CASE ~(classification[r].scope = scope /\ principal[r].name = name)
        BY <3>1, <2>3, <1>6
      <3>2. CASE classification[r].scope = scope /\ principal[r].name = name
        <4>1. Uses(scope, name)' = OneMore(Uses(scope, name), now)
          BY <3>2, UsesMore
        <4> QED  BY <4>1, <2>2, <2>3, <2>4, <1>3, SpentAtStays
      <3> QED  BY <3>1, <3>2
    <2> QED  BY <2>2, <2>3, <2>5, <1>4 DEF ThrottledInv
  <1> QED  BY <1>2, <1>7, <1>8, <1>9 DEF BudgetInv

(* A 429 preserves the invariant: it charges nothing, and it is given only *)
(* when a budget was admitted in the last minute (check_key).              *)
LEMMA LimitExceededBudget ==
    ASSUME BudgetInv, NEW r \in Requests, LimitExceeded(r)
    PROVE  BudgetInv'
PROOF
  <1>1. /\ RecordInv /\ TypeOK /\ Spares(r) /\ pc[r] = "limiting" /\ Acts(r)
        /\ \A q \in Requests : CheckedInv(q) /\ ThrottledInv(q)
    BY ActsSpares DEF BudgetInv, RecordInv, Inv, LimitExceeded, Acts, Step
  <1>2. RecordInv'
    BY <1>1, NextRecord DEF Next, Acts
  <1>3. /\ classification[r].scope \in Scope /\ principal[r].name \in Names
        /\ Budget(r) \in Nat /\ now \in Nat /\ full_at \in [Keys -> Nat]
        /\ checked[r] = None
    BY <1>1, ComesToLimiter
  <1>4. /\ UNCHANGED <<config, now, full_at, classification, principal>>
        /\ checked' = [checked EXCEPT ![r] = now] /\ checked'[r] = now
        /\ pc'[r] = "answered" /\ response'[r] = [status |-> "429", from |-> "gateway"]
    BY <1>1 DEF LimitExceeded, Answer, Goto, TypeOK
  <1>5. Refused(r, "429")'
    BY <1>4, NoneIsNoValue DEF Refused, Response, GatewayStatus
  <1>6. ASSUME NEW q \in Requests \ {r} PROVE checked'[q] = checked[q]
    BY <1>1, <1>4 DEF TypeOK
  <1>7. ASSUME NEW scope, NEW name
        PROVE  Uses(scope, name)' = Uses(scope, name) /\ Since(scope, name, 0)' = Since(scope, name, 0)
    <2>1. Keeps(r, scope, name)
      BY <1>3, <1>5 DEF Keeps, Admitted
    <2> QED  BY <1>1, <1>6, <2>1, OthersKeep, UsesSame
  <1>8. ASSUME NEW scope \in Scope, NEW name \in Names PROVE LimitInv(scope, name)'
    BY <1>4, <1>7 DEF BudgetInv, LimitInv
  <1>9. ASSUME NEW q \in Requests PROVE CheckedInv(q)' /\ ThrottledInv(q)'
    <2>1. CASE q # r
      <3>1. /\ pc'[q] = pc[q] /\ checked'[q] = checked[q] /\ Budget(q)' = Budget(q)
            /\ Refused(q, "429")' <=> Refused(q, "429")
        BY <2>1, <1>1, <1>4, <1>6 DEF Spares, Refused, Budget
      <3> QED  BY <3>1, <1>1, <1>4, <1>7 DEF CheckedInv, ThrottledInv
    <2>2. CASE q = r
      <3>1. CheckedInv(r)'
        BY <1>3, <1>4 DEF CheckedInv, Ahead
      <3>2. PICK scope \in Scope, name \in Names :
                classification[r].scope = scope /\ principal[r].name = name
        BY <1>3
      <3> DEFINE n == Budget(r)
                 full == full_at[<<scope, name>>]
      <3>3. n \in Nat \ {0} /\ ~Conforms(n, full, now) /\ full \in Nat
        BY <3>2, <1>3 DEF LimitExceeded, Key, Keys
      <3>4. History(Uses(scope, name), now) /\ WindowInv(Uses(scope, name), full, n, now)
        BY <3>2, <3>3, UsesHistory DEF BudgetInv, LimitInv, Budget
      <3>5. n = Budget(r)'
        BY <1>4 DEF Budget
      <3> HIDE DEF n, full
      <3>6. SpentAt(Uses(scope, name), n, now)
        BY <3>3, <3>4, <1>3, WindowRefuse
      <3>7. ThrottledInv(r)'
        BY <3>2, <3>3, <3>5, <3>6, <1>3, <1>4, <1>7 DEF ThrottledInv
      <3> QED  BY <2>2, <3>1, <3>7
    <2> QED  BY <2>1, <2>2
  <1> QED  BY <1>2, <1>8, <1>9 DEF BudgetInv

-----------------------------------------------------------------------------
(* The clock preserves the invariant: cells replenish by standing still. *)
LEMMA TickBudget ==
    ASSUME BudgetInv, Tick
    PROVE  BudgetInv'
PROOF
  <1>1. TypeOK /\ now \in Nat /\ now' = now + 1 /\ UNCHANGED <<config, full_at>>
    BY GatewayBounds DEF BudgetInv, RecordInv, Inv, TypeOK, Tick
  <1>2. UNCHANGED <<pc, checked, response, classification, principal>>
    BY DEF Tick, handler
  <1>3. RecordInv'
    BY NextRecord DEF BudgetInv, Next
  <1>4. ASSUME NEW scope, NEW name
        PROVE  Uses(scope, name)' = Uses(scope, name) /\ Since(scope, name, 0)' = Since(scope, name, 0)
    BY <1>2 DEF Uses, Since, Admitted, Refused
  <1>5. ASSUME NEW scope \in Scope, NEW name \in Names PROVE LimitInv(scope, name)'
    <2> DEFINE n == config.per_minute[scope]
               full == full_at[<<scope, name>>]
    <2>1. n \in Nat /\ full \in Nat
      BY <1>1, ConfigsAssumption DEF TypeOK, Keys
    <2>2. History(Uses(scope, name), now) /\ LimitInv(scope, name)
      BY UsesHistory DEF BudgetInv
    <2>3. CASE n # 0
      <3>1. WindowInv(Uses(scope, name), full, n, now)
        BY <2>2, <2>3 DEF LimitInv
      <3>2. n = config'.per_minute[scope] /\ full = full_at'[<<scope, name>>]
        BY <1>1
      <3> HIDE DEF n, full
      <3>3. WindowInv(Uses(scope, name), full, n, now + 1)
        BY <2>1, <2>2, <2>3, <3>1, <1>1, WindowTick
      <3> QED  BY <2>2, <3>2, <3>3, <1>1, <1>4 DEF LimitInv
    <2>4. CASE n = 0
      BY <2>2, <2>4, <1>1, <1>4 DEF LimitInv
    <2> QED  BY <2>3, <2>4
  <1>6. ASSUME NEW q \in Requests PROVE CheckedInv(q)' /\ ThrottledInv(q)'
    <2>1. CheckedInv(q) /\ ThrottledInv(q)
      BY DEF BudgetInv
    <2>2. CheckedInv(q)'
      BY <2>1, <1>1, <1>2 DEF CheckedInv
    <2>3. Budget(q)' = Budget(q) /\ (Refused(q, "429")' <=> Refused(q, "429"))
      BY <1>1, <1>2 DEF Budget, Refused
    <2> QED  BY <2>1, <2>2, <2>3, <1>1, <1>2, <1>4 DEF ThrottledInv
  <1> QED  BY <1>3, <1>5, <1>6 DEF BudgetInv

(* A step that changes nothing preserves the invariant. *)
LEMMA StutterBudget ==
    ASSUME BudgetInv, UNCHANGED vars
    PROVE  BudgetInv'
PROOF
  <1>1. RecordInv'
    BY NextRecord DEF BudgetInv
  <1>2. UNCHANGED <<config, now, full_at, pc, checked, response, classification, principal>>
    BY DEF vars
  <1>3. ASSUME NEW scope, NEW name
        PROVE  Uses(scope, name)' = Uses(scope, name) /\ Since(scope, name, 0)' = Since(scope, name, 0)
    BY <1>2 DEF Uses, Since, Admitted, Refused
  <1> QED  BY <1>1, <1>2, <1>3
           DEF BudgetInv, LimitInv, CheckedInv, ThrottledInv, Refused, Budget

(* Nobody has been checked when the gateway starts, and the buckets are    *)
(* full (AppState::new).                                                   *)
LEMMA InitBudget == Init => BudgetInv
PROOF
  <1> SUFFICES ASSUME Init PROVE BudgetInv
    OBVIOUS
  <1>1. RecordInv /\ TypeOK
    BY InitRecord DEF RecordInv, Inv
  <1>2. ASSUME NEW r \in Requests PROVE CheckedInv(r) /\ ThrottledInv(r)
    BY DEF Init, CheckedInv, ThrottledInv, Refused
  <1>3. ASSUME NEW scope \in Scope, NEW name \in Names PROVE LimitInv(scope, name)
    <2>1. \A from \in Int : Since(scope, name, from) = {}
      BY DEF Init, Since, Admitted
    <2>2. Uses(scope, name) = [from \in Int |-> 0]
      BY <2>1, FS_EmptySet DEF Uses
    <2>3. config.per_minute[scope] \in Nat
      BY <1>1, ConfigsAssumption DEF TypeOK
    <2>4. full_at[<<scope, name>>] = 0 /\ now = 0
      BY DEF Init, Keys
    <2> QED  BY <2>1, <2>2, <2>3, <2>4, FS_EmptySet, WindowInit DEF LimitInv
  <1> QED  BY <1>1, <1>2, <1>3 DEF BudgetInv

(* Every step of the gateway preserves the invariant. *)
LEMMA NextBudget == BudgetInv /\ [Next]_vars => BudgetInv'
PROOF
  <1> SUFFICES ASSUME BudgetInv, [Next]_vars PROVE BudgetInv'
    OBVIOUS
  <1>1. ASSUME NEW r \in Requests, Acts(r) PROVE BudgetInv'
    BY <1>1, BesidesBudget, LimitOkBudget, LimitExceededBudget
  <1>2. CASE Tick
    BY <1>2, TickBudget
  <1>3. CASE UNCHANGED vars
    BY <1>3, StutterBudget
  <1> QED  BY <1>1, <1>2, <1>3 DEF Next, Quiescent, Acts

(* The cells and the history agree in every behaviour of the gateway. *)
LEMMA Budgeted == Spec => []BudgetInv
  BY InitBudget, NextBudget, PTL DEF Spec

(* The invariant bounds every window. *)
LEMMA BudgetWithin == BudgetInv => WithinBudget
PROOF
  <1> SUFFICES ASSUME BudgetInv, NEW scope \in Scope, NEW name \in Names,
                      NEW from \in 0..MaxTime, config.per_minute[scope] # 0,
                      NEW to \in from..MaxTime
               PROVE  Cardinality(AdmittedWithin(scope, name, from, to))
                          * Cell(config.per_minute[scope])
                        <= config.per_minute[scope] * Cell(config.per_minute[scope]) + (to - from)
    BY DEF WithinBudget
  <1> DEFINE n == config.per_minute[scope]
             full == full_at[<<scope, name>>]
             u == Uses(scope, name)
  <1>1. TypeOK /\ now \in Nat /\ from \in Nat /\ to \in Nat /\ from <= to
    BY GatewayBounds DEF BudgetInv, RecordInv, Inv, TypeOK
  <1>2. n \in Nat \ {0}
    BY <1>1, ConfigsAssumption DEF TypeOK
  <1>3. History(u, now) /\ WindowInv(u, full, n, now)
    BY UsesHistory DEF BudgetInv, LimitInv
  <1>4. Cardinality(AdmittedWithin(scope, name, from, to)) = u[from] - u[to + 1]
    BY <1>1, WindowCount
  <1> HIDE DEF n, full, u
  <1>5. (u[from] - u[to + 1]) * Cell(n) <= n * Cell(n) + (to - from)
    BY <1>1, <1>2, <1>3, WindowAlways
  <1> QED  BY <1>4, <1>5 DEF n

(* The invariant justifies every 429. *)
LEMMA BudgetSpent == BudgetInv => RefusedOnlyWhenSpent
PROOF
  <1> SUFFICES ASSUME BudgetInv, NEW r \in Requests, Refused(r, "429")
               PROVE  Cardinality(AdmittedWithin(classification[r].scope, principal[r].name,
                                                 checked[r] - Minute + 1, checked[r]))
                          >= Budget(r)
    BY DEF RefusedOnlyWhenSpent
  <1>1. checked[r] \in 0..now /\ ThrottledInv(r)
    BY DEF BudgetInv, ThrottledInv
  <1>2. PICK scope \in Scope, name \in Names :
            /\ classification[r].scope = scope /\ principal[r].name = name
            /\ SpentAt(Uses(scope, name), Budget(r), checked[r])
    BY <1>1 DEF ThrottledInv
  <1>3. /\ checked[r] - Minute + 1 \in Int /\ checked[r] \in Int
        /\ checked[r] - Minute + 1 <= checked[r]
    BY <1>1, MinuteAssumption
  <1>4. Cardinality(AdmittedWithin(scope, name, checked[r] - Minute + 1, checked[r]))
            = Uses(scope, name)[checked[r] - Minute + 1] - Uses(scope, name)[checked[r] + 1]
    BY <1>3, WindowCount
  <1> QED  BY <1>2, <1>4 DEF SpentAt

(* What goes upstream for a principal in any window is at most a burst and *)
(* what replenishes meanwhile, however its requests interleave (handle,    *)
(* RateLimiters::check).                                                   *)
THEOREM BudgetsHold == Spec => []WithinBudget
  BY Budgeted, BudgetWithin, PTL

(* Whoever is answered 429 has had a full budget admitted in the minute    *)
(* before: refused requests are not charged (handle, RateLimiters::check). *)
THEOREM NobodyThrottledEarly == Spec => []RefusedOnlyWhenSpent
  BY Budgeted, BudgetSpent, PTL
==============================================================================
