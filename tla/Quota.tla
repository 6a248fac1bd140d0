-------------------------------- MODULE Quota --------------------------------
(***************************************************************************)
(* The arithmetic of one rate-limiter cell (src/src/ratelimit.rs).  The    *)
(* cells are kept by the governor crate; from the way build() constructs   *)
(* the quota, "burst capacity n, fully replenished once per minute", a     *)
(* key's state is the time full_at at which its bucket is full again: a    *)
(* request costs Minute \div n, and is admitted when the bucket would not  *)
(* be filled more than n times over.                                       *)
(***************************************************************************)
EXTENDS Integers, Principals

CONSTANT Minute      \* length of the replenishment period, in clock ticks

ASSUME MinuteAssumption == Minute \in Nat \ {0}

(* A limiter per scope, keyed by principal name. *)
Keys == Scope \X Names

Later(a, b) == IF a >= b THEN a ELSE b

(* Time one cell takes to replenish under a budget of n per minute. *)
Cell(n) == Minute \div n

(* Mutant: the charge goes the wrong way. *)
ChargeBackwards(n, full_at, now) == full_at - Cell(n)

(* check_key's state change when it admits. *)
Charge(n, full_at, now) == Later(full_at, now) + Cell(n)

(* Mutant: one cell more than the budget fits. *)
ConformsOffByOne(n, full_at, now) == Charge(n, full_at, now) <= now + (n + 1) * Cell(n)

(* check_key's answer. *)
Conforms(n, full_at, now) == Charge(n, full_at, now) <= now + n * Cell(n)
=============================================================================
