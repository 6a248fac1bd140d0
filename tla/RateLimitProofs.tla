--------------------------- MODULE RateLimitProofs ---------------------------
(***************************************************************************)
(* The budget of RateLimit, proved for every budget, every number of       *)
(* principals and every length of the minute.                              *)
(*                                                                         *)
(* WithinBudget is not inductive: it says nothing of full_at, on which the *)
(* next decision depends.  Inv adds what full_at remembers of a key's      *)
(* history: it is at least as late as every admission still to be          *)
(* replenished requires (Owed), and exactly as late as the admissions      *)
(* since the bucket was last full require (Busy).                          *)
(***************************************************************************)
EXTENDS RateLimit, QuotaProofs

(* Every admission since the i-th still costs a cell after the i-th. *)
Owed(times, full, t) ==
    \A i \in 1..Len(times) : times[i] + (Len(times) - i + 1) * t <= full

(* The bucket was last full at some admission s; since then each admission *)
(* conformed when it was made, and cells have only been used.              *)
Busy(times, full, n, t) ==
    \/ Len(times) = 0 /\ full = 0
    \/ \E s \in 1..Len(times) :
          /\ full = times[s] + (Len(times) - s + 1) * t
          /\ \A j \in s..Len(times) : full <= times[j] + (n + Len(times) - j) * t

(* WithinBudget for one key. *)
Bounded(times, n, t) ==
    \A i, j \in 1..Len(times) :
        i <= j => (j - i + 1) * t <= n * t + times[j] - times[i]

(* RefusedOnlyWhenSpent for one key. *)
Spent(times, at, n) ==
    \E last \in 1..Len(times) :
        /\ last >= n
        /\ times[last] <= at
        /\ times[last - n + 1] > at - Minute

Past(times, at) == \A i \in 1..Len(times) : times[i] <= at

(* What the history and the cell of one key have to do with each other. *)
KeyInv(key) ==
    /\ Past(admitted[key], now)
    /\ Budget(key) # 0 =>
          /\ Owed(admitted[key], full_at[key], Cell(Budget(key)))
          /\ Busy(admitted[key], full_at[key], Budget(key), Cell(Budget(key)))
          /\ Bounded(admitted[key], Budget(key), Cell(Budget(key)))
    /\ refused[key] # None =>
          Budget(key) # 0 /\ Spent(admitted[key], refused[key], Budget(key))

Inv == TypeOK /\ \A key \in Keys : KeyInv(key)

-----------------------------------------------------------------------------
(* What one admission does to the history and the cell of its key. *)
LEMMA AdmitKey ==
    ASSUME NEW times \in Seq(Nat), NEW full \in Nat, NEW at \in Nat,
           NEW n \in Nat \ {0},
           Past(times, at), Owed(times, full, Cell(n)), Busy(times, full, n, Cell(n)),
           Bounded(times, n, Cell(n)), Conforms(n, full, at)
    PROVE  /\ Charge(n, full, at) \in Nat
           /\ Past(Append(times, at), at)
           /\ Owed(Append(times, at), Charge(n, full, at), Cell(n))
           /\ Busy(Append(times, at), Charge(n, full, at), n, Cell(n))
           /\ Bounded(Append(times, at), n, Cell(n))
PROOF
  <1> DEFINE t == Cell(n)
             more == Append(times, at)
             L == Len(times)
             new == Charge(n, full, at)
  <1>t. t \in Nat
    BY CellFits
  <1>L. L \in Nat /\ Len(more) = L + 1 /\ more \in Seq(Nat)
    OBVIOUS
  <1>e. /\ \A i \in 1..L : more[i] = times[i] /\ times[i] \in Nat
        /\ more[L + 1] = at
    OBVIOUS
  <1>c. /\ new \in Nat
        /\ new >= full + t /\ new >= at + t
        /\ new = full + t \/ new = at + t
        /\ new <= at + n * t
    BY <1>t DEF Charge, Later, Conforms
  <1> HIDE DEF t, more, L, new
  <1>1. Past(more, at)
    <2>1. \A i \in 1..L : more[i] <= at
      BY <1>e DEF Past, L
    <2>2. \A i \in 1..(L + 1) : i \in 1..L \/ i = L + 1
      BY <1>L
    <2> QED  BY <2>1, <2>2, <1>L, <1>e DEF Past
  <1>2. Owed(more, new, t)
    <2> SUFFICES ASSUME NEW i \in 1..(L + 1)
                 PROVE  more[i] + (L + 1 - i + 1) * t <= new
      BY <1>L DEF Owed
    <2>1. CASE i = L + 1
      BY <2>1, <1>L, <1>t, <1>e, <1>c
    <2>2. CASE i \in 1..L
      <3>1. times[i] + (L - i + 1) * t <= full
        BY <2>2 DEF Owed, L, t
      <3>2. (L + 1 - i + 1) * t = (L - i + 1) * t + t
        BY <1>L, <1>t, <2>2
      <3> QED  BY <3>1, <3>2, <2>2, <1>L, <1>t, <1>e, <1>c
    <2> QED  BY <2>1, <2>2, <1>L
  <1>3. Busy(more, new, n, t)
    <2> SUFFICES \E s \in 1..Len(more) :
                     /\ new = more[s] + (Len(more) - s + 1) * t
                     /\ \A j \in s..Len(more) :
                           new <= more[j] + (n + Len(more) - j) * t
      BY DEF Busy
    <2>2. CASE new = at + t
      <3>1. new = more[L + 1] + (L + 1 - (L + 1) + 1) * t
        BY <2>2, <1>L, <1>e, <1>t
      <3>2. \A j \in (L + 1)..(L + 1) : new <= more[j] + (n + (L + 1) - j) * t
        BY <1>L, <1>e, <1>t, <1>c
      <3>3. L + 1 \in 1..Len(more)
        BY <1>L
      <3> WITNESS L + 1 \in 1..Len(more)
      <3> QED  BY <3>1, <3>2, <1>L
    <2>3. CASE new = full + t /\ new # at + t
      <3>1. L # 0
        BY <2>3, <1>c, <1>L, <1>t DEF Busy, L
      <3>2. PICK s \in 1..L :
                /\ full = times[s] + (L - s + 1) * t
                /\ \A j \in s..L : full <= times[j] + (n + L - j) * t
        BY <3>1 DEF Busy, L, t
      <3>3. new = more[s] + (L + 1 - s + 1) * t
        <4>1. (L + 1 - s + 1) * t = (L - s + 1) * t + t
          BY <1>L, <1>t
        <4>2. more[s] = times[s] /\ times[s] \in Nat /\ full = times[s] + (L - s + 1) * t
          BY <3>2, <1>e
        <4> DEFINE used == (L - s + 1) * t
        <4>3. used \in Int /\ full = times[s] + used /\ (L + 1 - s + 1) * t = used + t
          BY <4>1, <4>2, <1>L, <1>t
        <4> HIDE DEF used
        <4> QED  BY <4>2, <4>3, <2>3, <1>t
      <3>4. ASSUME NEW j \in s..(L + 1)
            PROVE  new <= more[j] + (n + (L + 1) - j) * t
        <4>1. CASE j = L + 1
          BY <4>1, <1>e, <1>c, <1>L, <1>t
        <4>2. CASE j \in s..L
          <5>1. (n + (L + 1) - j) * t = (n + L - j) * t + t
            BY <4>2, <1>L, <1>t
          <5>2. full <= times[j] + (n + L - j) * t
            BY <4>2, <3>2
          <5>3. more[j] = times[j] /\ times[j] \in Nat
            BY <4>2, <1>e, <1>L
          <5> DEFINE left == (n + L - j) * t
          <5>4. left \in Int /\ full <= times[j] + left /\ (n + (L + 1) - j) * t = left + t
            BY <5>1, <5>2, <4>2, <1>L, <1>t
          <5> HIDE DEF left
          <5> QED  BY <5>3, <5>4, <2>3, <1>t
        <4> QED  BY <4>1, <4>2, <1>L
      <3>5. s \in 1..Len(more)
        BY <1>L
      <3> WITNESS s \in 1..Len(more)
      <3> QED  BY <3>3, <3>4, <1>L
    <2> QED  BY <2>2, <2>3, <1>c
  <1>4. Bounded(more, n, t)
    <2> SUFFICES ASSUME NEW i \in 1..(L + 1), NEW j \in 1..(L + 1), i <= j
                 PROVE  (j - i + 1) * t <= n * t + more[j] - more[i]
      BY <1>L DEF Bounded
    <2>1. CASE j \in 1..L
      <3>1. i \in 1..L
        BY <2>1, <1>L
      <3>2. (j - i + 1) * t <= n * t + times[j] - times[i]
        BY <2>1, <3>1 DEF Bounded, L, t
      <3> QED  BY <3>1, <3>2, <2>1, <1>e
    <2>2. CASE j = L + 1
      \* The cells used since the i-th admission are all in full_at by now.
      <3>1. more[i] + (L + 1 - i + 1) * t <= new
        BY <1>2, <1>L DEF Owed
      <3>2. more[i] \in Nat
        BY <1>e, <1>L
      <3> QED  BY <3>1, <3>2, <2>2, <1>c, <1>e, <1>L, <1>t
    <2> QED  BY <2>1, <2>2, <1>L
  <1> QED  BY <1>1, <1>2, <1>3, <1>4, <1>c DEF t, more, new

(* What a refusal says about the history of its key. *)
LEMMA RefuseKey ==
    ASSUME NEW times \in Seq(Nat), NEW full \in Nat, NEW at \in Nat,
           NEW n \in Nat \ {0},
           Past(times, at), Busy(times, full, n, Cell(n)), ~Conforms(n, full, at)
    PROVE  Spent(times, at, n)
PROOF
  <1> DEFINE t == Cell(n)
             L == Len(times)
  <1>t. t \in Nat /\ n * t <= Minute /\ L \in Nat
    BY CellFits
  <1>e. \A i \in 1..L : times[i] \in Nat /\ times[i] <= at
    BY DEF Past
  <1>b. \/ L = 0 /\ full = 0
        \/ \E s \in 1..L :
              /\ full = times[s] + (L - s + 1) * t
              /\ \A j \in s..L : full <= times[j] + (n + L - j) * t
    BY DEF Busy
  <1>n. 1 * t <= n * t
    BY <1>t, ProductMonotone
  <1>c. full + t > at + n * t
    BY <1>t, <1>n DEF Charge, Later, Conforms
  <1> HIDE DEF t, L
  <1>1. L # 0
    BY <1>b, <1>c, <1>t, <1>n
  <1>2. PICK s \in 1..L :
            /\ full = times[s] + (L - s + 1) * t
            /\ \A j \in s..L : full <= times[j] + (n + L - j) * t
    BY <1>b, <1>1
  \* Fewer than n admissions since the bucket was full would have conformed.
  <1>3. L - s + 1 >= n
    <2> SUFFICES ASSUME L - s + 1 <= n - 1 PROVE FALSE
      BY <1>t
    <2>1. (L - s + 1) * t <= (n - 1) * t
      BY <1>t, ProductMonotone
    <2>2. (n - 1) * t = n * t - t
      BY <1>t
    <2>0. full = times[s] + (L - s + 1) * t
      BY <1>2
    <2>3. times[s] \in Nat /\ times[s] <= at
      BY <1>e
    <2> DEFINE used == (L - s + 1) * t
               burst == n * t
    <2>4. used \in Int /\ burst \in Int /\ used <= burst - t
          /\ full = times[s] + used /\ full + t > at + burst
      BY <2>0, <2>1, <2>2, <1>c, <1>t
    <2> HIDE DEF used, burst
    <2> QED  BY <2>3, <2>4, <1>t
  <1>4. L - n + 1 \in s..L /\ L \in 1..L /\ L - n + 1 \in 1..L
    BY <1>3, <1>t, <1>1
  <1>5. full <= times[L - n + 1] + (n + L - (L - n + 1)) * t
    BY <1>2, <1>4
  <1>6. (n + L - (L - n + 1)) * t = n * t + n * t - t
    BY <1>t
  <1>7. times[L - n + 1] > at - Minute
    BY <1>5, <1>6, <1>c, <1>t, <1>e, <1>4, MinuteAssumption
  <1>8. L >= n /\ times[L] <= at
    BY <1>4, <1>3, <1>e, <1>t
  <1> QED  BY <1>4, <1>7, <1>8 DEF Spent, L

-----------------------------------------------------------------------------
(* The limiters start in the invariant (RateLimiters::new, no cells yet). *)
LEMMA InitInv == Init => Inv
  BY LimitsAssumption, MaxTimeAssumption
  DEF Init, Inv, KeyInv, TypeOK, Past, Owed, Busy, Bounded, Spent

(* One more admission does not undo an earlier refusal's evidence. *)
LEMMA SpentStays ==
    ASSUME NEW times \in Seq(Nat), NEW at \in Nat, NEW later \in Nat,
           NEW n \in Nat \ {0}, Spent(times, at, n)
    PROVE  Spent(Append(times, later), at, n)
PROOF
  <1> DEFINE more == Append(times, later)
  <1>1. PICK last \in 1..Len(times) :
            last >= n /\ times[last] <= at /\ times[last - n + 1] > at - Minute
    BY DEF Spent
  <1>2. Len(more) = Len(times) + 1 /\ Len(times) \in Nat
    OBVIOUS
  <1>3. \A i \in 1..Len(times) : more[i] = times[i]
    OBVIOUS
  <1> HIDE DEF more
  <1>4. last \in 1..Len(more) /\ last - n + 1 \in 1..Len(times)
    BY <1>1, <1>2
  <1>5. more[last] = times[last] /\ more[last - n + 1] = times[last - n + 1]
    BY <1>3, <1>4
  <1>6. \E i \in 1..Len(more) :
            i >= n /\ more[i] <= at /\ more[i - n + 1] > at - Minute
    BY <1>1, <1>4, <1>5
  <1> QED  BY <1>6 DEF Spent, more

(* A budget is a natural number (per_minute of the configuration). *)
LEMMA BudgetType == TypeOK => \A key \in Keys : Budget(key) \in Nat
  BY LimitsAssumption DEF TypeOK, Keys, Budget

(* An admission preserves the invariant of every key. *)
LEMMA AdmitInv ==
    ASSUME Inv, NEW key \in Keys, Admit(key)
    PROVE  Inv'
PROOF
  <1> DEFINE n == Budget(key)
             times == admitted[key]
  <1>1. /\ TypeOK /\ n \in Nat \ {0} /\ now \in Nat /\ now \in 0..MaxTime
        /\ full_at[key] \in Nat /\ times \in Seq(0..MaxTime)
    BY BudgetType, MaxTimeAssumption DEF Inv, Admit, TypeOK
  <1>2. times \in Seq(Nat)
    BY <1>1, MaxTimeAssumption
  <1>3. /\ Past(times, now) /\ Owed(times, full_at[key], Cell(n))
        /\ Busy(times, full_at[key], n, Cell(n)) /\ Bounded(times, n, Cell(n))
        /\ Conforms(n, full_at[key], now)
        /\ refused[key] # None => Spent(times, refused[key], n)
    BY <1>1 DEF Inv, KeyInv, Admit
  <1>4. /\ limits' = limits /\ now' = now /\ refused' = refused
        /\ full_at' = [full_at EXCEPT ![key] = Charge(n, full_at[key], now)]
        /\ admitted' = [admitted EXCEPT ![key] = Append(times, now)]
    BY DEF Admit
  <1>5. /\ Charge(n, full_at[key], now) \in Nat
        /\ Past(Append(times, now), now)
        /\ Owed(Append(times, now), Charge(n, full_at[key], now), Cell(n))
        /\ Busy(Append(times, now), Charge(n, full_at[key], now), n, Cell(n))
        /\ Bounded(Append(times, now), n, Cell(n))
    BY <1>1, <1>2, <1>3, AdmitKey
  <1>6. refused[key] # None => Spent(Append(times, now), refused[key], n)
    <2>1. refused[key] # None => refused[key] \in Nat
      BY <1>1, MaxTimeAssumption DEF TypeOK
    <2> QED  BY <2>1, <1>1, <1>2, <1>3, SpentStays
  <1>7. TypeOK'
    <2>1. Append(times, now) \in Seq(0..MaxTime)
      BY <1>1
    <2> QED  BY <2>1, <1>1, <1>4, <1>5 DEF TypeOK
  <1>8. ASSUME NEW k \in Keys
        PROVE  KeyInv(k)'
    <2>1. Budget(k)' = Budget(k)
      BY <1>4 DEF Budget
    <2>2. CASE k = key
      <3>1. full_at'[k] = Charge(n, full_at[key], now) /\ admitted'[k] = Append(times, now)
        BY <2>2, <1>1, <1>4 DEF TypeOK
      <3> QED  BY <3>1, <2>1, <2>2, <1>1, <1>4, <1>5, <1>6 DEF KeyInv
    <2>3. CASE k # key
      <3>1. full_at'[k] = full_at[k] /\ admitted'[k] = admitted[k]
        BY <2>3, <1>1, <1>4 DEF TypeOK
      <3> QED  BY <3>1, <2>1, <1>4 DEF Inv, KeyInv
    <2> QED  BY <2>2, <2>3
  <1> QED  BY <1>7, <1>8 DEF Inv, KeyInv

(* A refusal preserves the invariant of every key. *)
LEMMA RefuseInv ==
    ASSUME Inv, NEW key \in Keys, Refuse(key)
    PROVE  Inv'
PROOF
  <1> DEFINE n == Budget(key)
             times == admitted[key]
  <1>1. /\ TypeOK /\ n \in Nat \ {0} /\ now \in Nat /\ now \in 0..MaxTime
        /\ full_at[key] \in Nat /\ times \in Seq(0..MaxTime)
    BY BudgetType, MaxTimeAssumption DEF Inv, Refuse, TypeOK
  <1>2. times \in Seq(Nat)
    BY <1>1, MaxTimeAssumption
  <1>3. /\ limits' = limits /\ now' = now /\ full_at' = full_at /\ admitted' = admitted
        /\ refused' = [refused EXCEPT ![key] = now]
    BY DEF Refuse
  <1>4. Spent(times, now, n)
    BY <1>1, <1>2, RefuseKey DEF Inv, KeyInv, Refuse
  <1>5. TypeOK'
    BY <1>1, <1>3 DEF TypeOK
  <1>6. ASSUME NEW k \in Keys
        PROVE  KeyInv(k)'
    <2>1. Budget(k)' = Budget(k)
      BY <1>3 DEF Budget
    <2>2. k = key => refused'[k] = now
      BY <1>1, <1>3 DEF TypeOK
    <2>3. k # key => refused'[k] = refused[k]
      BY <1>1, <1>3 DEF TypeOK
    <2> QED  BY <2>1, <2>2, <2>3, <1>1, <1>3, <1>4 DEF Inv, KeyInv
  <1> QED  BY <1>5, <1>6 DEF Inv, KeyInv

(* The passing of time preserves the invariant of every key. *)
LEMMA TickInv ==
    ASSUME Inv, Tick
    PROVE  Inv'
PROOF
  <1>1. TypeOK'
    BY MaxTimeAssumption DEF Inv, Tick, TypeOK
  <1>2. ASSUME NEW k \in Keys
        PROVE  KeyInv(k)'
    <2>1. Budget(k)' = Budget(k) /\ admitted' = admitted /\ full_at' = full_at
          /\ refused' = refused
      BY DEF Budget, Tick
    <2>2. Past(admitted[k], now')
      <3>1. /\ now \in Nat /\ now' = now + 1 /\ admitted[k] \in Seq(0..MaxTime)
            /\ Past(admitted[k], now)
        BY MaxTimeAssumption DEF Inv, KeyInv, Tick, TypeOK
      <3>2. ASSUME NEW i \in 1..Len(admitted[k])
            PROVE  admitted[k][i] <= now'
        <4>1. admitted[k][i] <= now
          BY <3>1 DEF Past
        <4>2. admitted[k][i] \in 0..MaxTime
          BY <3>1, Elements
        <4> QED  BY <4>1, <4>2, <3>1, MaxTimeAssumption
      <3> QED  BY <3>2 DEF Past
    <2> QED  BY <2>1, <2>2 DEF Inv, KeyInv
  <1> QED  BY <1>1, <1>2 DEF Inv, KeyInv

(* Every step of the limiters preserves the invariant. *)
LEMMA NextInv == Inv /\ [Next]_vars => Inv'
PROOF
  <1> SUFFICES ASSUME Inv, [Next]_vars PROVE Inv'
    OBVIOUS
  <1>1. ASSUME NEW key \in Keys, Admit(key) PROVE Inv'
    BY <1>1, AdmitInv
  <1>2. ASSUME NEW key \in Keys, Refuse(key) PROVE Inv'
    BY <1>2, RefuseInv
  <1>3. CASE Tick
    BY <1>3, TickInv
  <1>4. CASE UNCHANGED vars
    BY <1>4 DEF vars, Inv, KeyInv, TypeOK, Budget
  <1> QED  BY <1>1, <1>2, <1>3, <1>4 DEF Next

-----------------------------------------------------------------------------
(* The invariant holds of every behaviour of the limiters. *)
THEOREM Invariance == Spec => []Inv
  <1>1. Inv /\ [Next]_vars => Inv'
    BY NextInv
  <1> QED  BY <1>1, InitInv, PTL DEF Spec

(* The limiters' state keeps its type. *)
THEOREM TypeCorrect == Spec => []TypeOK
  <1>1. Inv => TypeOK
    BY DEF Inv
  <1> QED  BY <1>1, Invariance, PTL

(* The invariant implies the bound over every window. *)
LEMMA InvBudget == Inv => WithinBudget
PROOF
  <1> SUFFICES ASSUME Inv, NEW key \in Keys, Budget(key) # 0,
                      NEW i \in DOMAIN admitted[key], NEW j \in DOMAIN admitted[key], i <= j
               PROVE  (j - i + 1) * Cell(Budget(key))
                         <= Budget(key) * Cell(Budget(key)) + admitted[key][j] - admitted[key][i]
    BY DEF WithinBudget
  <1>1. admitted[key] \in Seq(0..MaxTime)
    BY DEF Inv, TypeOK
  <1>2. i \in 1..Len(admitted[key]) /\ j \in 1..Len(admitted[key])
    BY <1>1
  <1>3. Bounded(admitted[key], Budget(key), Cell(Budget(key)))
    BY DEF Inv, KeyInv
  <1> QED  BY <1>2, <1>3 DEF Bounded

(* The invariant implies that refusals come after a spent budget. *)
LEMMA InvSpent == Inv => RefusedOnlyWhenSpent
PROOF
  <1> SUFFICES ASSUME Inv, NEW key \in Keys, refused[key] # None
               PROVE  \E last \in DOMAIN admitted[key] :
                        /\ last >= Budget(key)
                        /\ admitted[key][last] <= refused[key]
                        /\ admitted[key][last - Budget(key) + 1] > refused[key] - Minute
    BY DEF RefusedOnlyWhenSpent
  <1>1. DOMAIN admitted[key] = 1..Len(admitted[key])
    BY DEF Inv, TypeOK
  <1>2. Spent(admitted[key], refused[key], Budget(key))
    BY DEF Inv, KeyInv
  <1> QED  BY <1>1, <1>2 DEF Spent

(* No key ever gets more than a burst and what replenishes, whatever the   *)
(* budget, the length of the minute and the timing of the calls.           *)
THEOREM BudgetHolds == Spec => []WithinBudget
  BY Invariance, InvBudget, PTL

(* No key is ever refused that has not used up its budget in the minute    *)
(* before.                                                                 *)
THEOREM NoEarlyRefusal == Spec => []RefusedOnlyWhenSpent
  BY Invariance, InvSpent, PTL
=============================================================================
