------------------------------ MODULE RateLimit ------------------------------
(***************************************************************************)
(* The rate limiters of src/src/ratelimit.rs on their own, under calls of  *)
(* check() from any number of handlers in any order.  check() is atomic:   *)
(* governor updates a key's cell in one compare-and-swap.                  *)
(***************************************************************************)
EXTENDS Quota, Sequences

CONSTANTS
    Limits,         \* the [ratelimit] sections the gateway may be started with
    MaxTime         \* bound on the clock

ASSUME LimitsAssumption == Limits \subseteq [Scope -> Nat]
ASSUME MaxTimeAssumption == MaxTime \in Nat
ASSUME NoneIsNoTime == None \notin Nat

VARIABLES
    limits,     \* per_minute of each scope, fixed when the limiters are built
    now,        \* the clock
    full_at,    \* when the bucket of each key is full
    admitted,   \* history: the times at which each key was admitted
    refused     \* history: when each key was last refused, or None

vars == <<limits, now, full_at, admitted, refused>>

(* RateLimiters::check selects the limiter of the scope. *)
Budget(key) == limits[key[1]]

(* RateLimiters::new: no key has a cell yet. *)
Init ==
    /\ limits \in Limits
    /\ now = 0
    /\ full_at = [key \in Keys |-> 0]
    /\ admitted = [key \in Keys |-> <<>>]
    /\ refused = [key \in Keys |-> None]

(* check() returns true and consumes one cell.  Where the budget is 0      *)
(* there is no limiter and check() has no state to change.                 *)
Admit(key) ==
    /\ Budget(key) # 0
    /\ Conforms(Budget(key), full_at[key], now)
    /\ full_at' = [full_at EXCEPT ![key] = Charge(Budget(key), @, now)]
    /\ admitted' = [admitted EXCEPT ![key] = Append(@, now)]
    /\ UNCHANGED <<limits, now, refused>>

(* Mutant: a refused call costs a cell too. *)
RefuseCharging(key) ==
    /\ Budget(key) # 0
    /\ ~Conforms(Budget(key), full_at[key], now)
    /\ full_at' = [full_at EXCEPT ![key] = Charge(Budget(key), @, now)]
    /\ refused' = [refused EXCEPT ![key] = now]
    /\ UNCHANGED <<limits, now, admitted>>

(* check() returns false; the cell stays as it is. *)
Refuse(key) ==
    /\ Budget(key) # 0
    /\ ~Conforms(Budget(key), full_at[key], now)
    /\ refused' = [refused EXCEPT ![key] = now]
    /\ UNCHANGED <<limits, now, full_at, admitted>>

Tick ==
    /\ now < MaxTime
    /\ now' = now + 1
    /\ UNCHANGED <<limits, full_at, admitted, refused>>

Next ==
    \/ \E key \in Keys : Admit(key) \/ Refuse(key)
    \/ Tick

Spec == Init /\ [][Next]_vars

-----------------------------------------------------------------------------
(* Every variable of the limiters keeps its type. *)
TypeOK ==
    /\ limits \in Limits
    /\ now \in 0..MaxTime
    /\ full_at \in [Keys -> Nat]
    /\ admitted \in [Keys -> Seq(0..MaxTime)]
    /\ refused \in [Keys -> 0..MaxTime \cup {None}]

(* The budget holds over every window: between its i-th and its j-th       *)
(* admission a key gets no more than a full burst and what replenishes in  *)
(* the meantime, however the calls are spread over time.                   *)
WithinBudget ==
    \A key \in Keys :
        Budget(key) # 0 =>
            \A i, j \in DOMAIN admitted[key] :
                i <= j => (j - i + 1) * Cell(Budget(key))
                            <= Budget(key) * Cell(Budget(key))
                                 + admitted[key][j] - admitted[key][i]

(* Nobody is throttled early: whenever check() refuses a key, the key has  *)
(* been admitted a full budget's worth of times within the minute before.  *)
RefusedOnlyWhenSpent ==
    \A key \in Keys :
        refused[key] # None =>
            \E last \in DOMAIN admitted[key] :
                /\ last >= Budget(key)
                /\ admitted[key][last] <= refused[key]
                /\ admitted[key][last - Budget(key) + 1] > refused[key] - Minute
=============================================================================
