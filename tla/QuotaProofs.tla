----------------------------- MODULE QuotaProofs -----------------------------
(***************************************************************************)
(* Facts about the arithmetic of Quota that the proofs share.              *)
(*                                                                         *)
(* The second half is about the history of one cell as a function u: u[t]  *)
(* is the number of requests admitted at time t or later.  WindowInv ties  *)
(* it to the cell.  OwedSince: the cell is late enough for all that was    *)
(* admitted since any time.  BusySince: it is no later than what was       *)
(* admitted requires, from a time at which the bucket was full and, with   *)
(* the burst, from any later time.                                         *)
(***************************************************************************)
EXTENDS Quota, Sequences, TLAPS

(* The elements of a sequence over S are in S. *)
LEMMA Elements ==
    ASSUME NEW S, NEW seq \in Seq(S), NEW i \in 1..Len(seq)
    PROVE  seq[i] \in S
  OBVIOUS

(* Products with a common factor keep their order. *)
LEMMA ProductMonotone ==
    ASSUME NEW a \in Int, NEW b \in Int, NEW t \in Nat, a <= b
    PROVE  a * t <= b * t
  BY Z3

(* A product of three numbers may be bracketed either way. *)
LEMMA ProductAssociates ==
    ASSUME NEW a \in Nat, NEW b \in Nat, NEW c \in Nat
    PROVE  a * b * c = a * (b * c)
  BY Z3

(* The cells of a whole budget fit into the minute (build of ratelimit.rs, *)
(* integer division).                                                      *)
LEMMA CellFits ==
    ASSUME NEW n \in Nat \ {0}
    PROVE  Cell(n) \in Nat /\ n * Cell(n) <= Minute
  BY MinuteAssumption, Z3 DEF Cell

(* A charge is a time (check_key never moves a cell below zero). *)
LEMMA ChargeType ==
    ASSUME NEW n \in Nat \ {0}, NEW full \in Nat, NEW at \in Nat
    PROVE  Charge(n, full, at) \in Nat
  BY CellFits DEF Charge, Later

-----------------------------------------------------------------------------
(* u counts admissions from each time on, none of them in the future. *)
History(u, at) ==
    /\ u \in [Int -> Nat]
    /\ \A a, b \in Int : a <= b => u[b] <= u[a]
    /\ \A a \in Int : a > at => u[a] = 0

(* One more admission, now. *)
OneMore(u, at) == [a \in Int |-> IF a <= at THEN u[a] + 1 ELSE u[a]]

(* No admission is later than the cell. *)
Covers(u, full) == \A a \in Int : a > full => u[a] = 0

OwedSince(u, full, t, at) ==
    \A from \in 0..at : u[from] * t <= Later(full, at) - from

BusySince(u, full, n, t, at) ==
    \E s \in 0..at :
        /\ full = s + u[s] * t
        /\ \A from \in (s + 1)..(at + 1) : full <= from - 1 + n * t + u[from] * t

(* At most a burst and what replenishes, in any window so far. *)
WindowBounded(u, n, t, at) ==
    \A from \in 0..at : \A to \in from..at :
        (u[from] - u[to + 1]) * t <= n * t + (to - from)

WindowInv(u, full, n, at) ==
    /\ Covers(u, full)
    /\ OwedSince(u, full, Cell(n), at)
    /\ BusySince(u, full, n, Cell(n), at)
    /\ WindowBounded(u, n, Cell(n), at)

(* A full budget was admitted in the minute up to a time. *)
SpentAt(u, n, at) == u[at - Minute + 1] - u[at + 1] >= n

(* A new limiter starts with full buckets (RateLimiters::new). *)
LEMMA WindowInit ==
    ASSUME NEW n \in Nat \ {0}
    PROVE  /\ History([a \in Int |-> 0], 0)
           /\ WindowInv([a \in Int |-> 0], 0, n, 0)
PROOF
  <1> DEFINE u == [a \in Int |-> 0]
             t == Cell(n)
             burst == n * t
  <1>1. t \in Nat /\ burst \in Nat
    BY CellFits
  <1>2. \A a \in Int : u[a] = 0
    OBVIOUS
  <1>3. \A a \in Int : u[a] * t = 0
    BY <1>1, <1>2
  <1> HIDE DEF t, burst
  <1>4. History(u, 0) /\ Covers(u, 0)
    BY DEF History, Covers
  <1> HIDE DEF u
  <1>5. OwedSince(u, 0, t, 0)
    BY <1>3 DEF OwedSince, Later
  <1>6. BusySince(u, 0, n, t, 0)
    <2>1. 0 = 0 + u[0] * t
      BY <1>3
    <2>2. \A from \in (0 + 1)..(0 + 1) : 0 <= from - 1 + burst + u[from] * t
      BY <1>1, <1>3
    <2> QED  BY <2>1, <2>2 DEF BusySince, burst
  <1>7. WindowBounded(u, n, t, 0)
    <2>1. ASSUME NEW from \in 0..0, NEW to \in from..0
          PROVE  (u[from] - u[to + 1]) * t <= burst + (to - from)
      BY <1>1, <1>2
    <2> QED  BY <2>1 DEF WindowBounded, burst
  <1> QED  BY <1>4, <1>5, <1>6, <1>7 DEF WindowInv, t, u

(* Time passes: the windows grow, and nothing is admitted in them yet. *)
LEMMA WindowTick ==
    ASSUME NEW n \in Nat \ {0}, NEW full \in Nat, NEW at \in Nat, NEW u,
           History(u, at), WindowInv(u, full, n, at)
    PROVE  History(u, at + 1) /\ WindowInv(u, full, n, at + 1)
PROOF
  <1> DEFINE t == Cell(n)
             burst == n * t
  <1>1. t \in Nat /\ burst \in Nat
    BY CellFits
  <1>2. /\ \A a \in Int : u[a] \in Nat /\ u[a] * t \in Nat
        /\ u[at + 1] = 0 /\ u[at + 2] = 0 /\ u[at + 1] * t = 0 /\ u[at + 2] * t = 0
    BY <1>1 DEF History
  <1> HIDE DEF t, burst
  <1>3. History(u, at + 1)
    BY DEF History
  <1>4. OwedSince(u, full, t, at + 1)
    <2> SUFFICES ASSUME NEW from \in 0..(at + 1)
                 PROVE  u[from] * t <= Later(full, at + 1) - from
      BY DEF OwedSince
    <2>1. CASE from = at + 1
      BY <2>1, <1>2 DEF Later
    <2>2. CASE from \in 0..at
      <3>1. u[from] * t <= Later(full, at) - from
        BY <2>2 DEF WindowInv, OwedSince, t
      <3> QED  BY <3>1, <2>2, <1>2 DEF Later
    <2> QED  BY <2>1, <2>2
  <1>5. BusySince(u, full, n, t, at + 1)
    <2>1. PICK s \in 0..at :
              /\ full = s + u[s] * t
              /\ \A from \in (s + 1)..(at + 1) : full <= from - 1 + burst + u[from] * t
      BY DEF WindowInv, BusySince, t, burst
    <2>2. full <= at + burst
      BY <2>1, <1>1, <1>2
    <2>3. ASSUME NEW from \in (s + 1)..(at + 1 + 1)
          PROVE  full <= from - 1 + burst + u[from] * t
      <3>1. CASE from = at + 2
        BY <3>1, <2>2, <1>1, <1>2
      <3>2. CASE from \in (s + 1)..(at + 1)
        BY <3>2, <2>1
      <3> QED  BY <3>1, <3>2
    <2>4. s \in 0..(at + 1)
      OBVIOUS
    <2> QED  BY <2>1, <2>3, <2>4 DEF BusySince, burst
  <1>6. WindowBounded(u, n, t, at + 1)
    <2> SUFFICES ASSUME NEW from \in 0..(at + 1), NEW to \in from..(at + 1)
                 PROVE  (u[from] - u[to + 1]) * t <= burst + (to - from)
      BY DEF WindowBounded, burst
    <2>1. CASE to \in from..at /\ from \in 0..at
      BY <2>1 DEF WindowInv, WindowBounded, t, burst
    <2>2. CASE to = at + 1 /\ from \in 0..at
      <3>1. (u[from] - u[at + 1]) * t <= burst + (at - from)
        BY <2>2 DEF WindowInv, WindowBounded, t, burst
      <3>2. u[to + 1] = u[at + 1]
        BY <2>2, <1>2
      <3> QED
        <4> DEFINE used == (u[from] - u[at + 1]) * t
        <4>1. used \in Int
          BY <1>1, <1>2
        <4> HIDE DEF used
        <4> QED  BY <3>1, <3>2, <4>1, <2>2, <1>1 DEF used
    <2>3. CASE from = at + 1 /\ to = at + 1
      <3>1. (u[from] - u[to + 1]) * t = 0
        BY <2>3, <1>1, <1>2
      <3> QED  BY <3>1, <2>3, <1>1
    <2> QED  BY <2>1, <2>2, <2>3
  <1> QED  BY <1>3, <1>4, <1>5, <1>6 DEF WindowInv, t

(* What an admission does to the history. *)
LEMMA OneMoreHistory ==
    ASSUME NEW at \in Nat, NEW u, History(u, at)
    PROVE  /\ History(OneMore(u, at), at)
           /\ \A a \in Int : a <= at => OneMore(u, at)[a] = u[a] + 1
           /\ \A a \in Int : a > at => OneMore(u, at)[a] = 0
  BY DEF History, OneMore

(* check_key admits: the cell moves on by the cost of one request, and the *)
(* request conformed, so the window that ends now stays within its bound.  *)
LEMMA WindowAdmit ==
    ASSUME NEW n \in Nat \ {0}, NEW full \in Nat, NEW at \in Nat, NEW u,
           History(u, at), WindowInv(u, full, n, at), Conforms(n, full, at)
    PROVE  WindowInv(OneMore(u, at), Charge(n, full, at), n, at)
PROOF
  <1> DEFINE t == Cell(n)
             burst == n * t
             more == OneMore(u, at)
             new == Charge(n, full, at)
  <1>1. t \in Nat /\ burst \in Nat
    BY CellFits
  <1>2. /\ \A a \in Int : u[a] \in Nat /\ u[a] * t \in Nat
        /\ u[at + 1] = 0
    BY <1>1 DEF History
  <1>3. /\ new \in Nat /\ new = Later(full, at) + t /\ new <= at + burst
        /\ new >= at + t
    BY <1>1 DEF Charge, Conforms, Later
  <1>4. /\ \A a \in Int : a <= at => more[a] = u[a] + 1 /\ more[a] * t = u[a] * t + t
        /\ \A a \in Int : a > at => more[a] = 0 /\ more[a] * t = 0
    <2>1. \A a \in Int : a <= at => more[a] = u[a] + 1
      BY OneMoreHistory
    <2>2. \A a \in Int : a > at => more[a] = 0
      BY OneMoreHistory
    <2> HIDE DEF t, more
    <2>3. \A v \in Nat : (v + 1) * t = v * t + t
      BY <1>1
    <2>4. 0 * t = 0
      BY <1>1
    <2> QED  BY <2>1, <2>2, <2>3, <2>4, <1>2
  <1> HIDE DEF t, burst, more, new
  <1>5. Covers(more, new)
    BY <1>1, <1>3, <1>4 DEF Covers
  <1>6. OwedSince(more, new, t, at)
    <2> SUFFICES ASSUME NEW from \in 0..at
                 PROVE  more[from] * t <= Later(new, at) - from
      BY DEF OwedSince
    <2>1. u[from] * t <= Later(full, at) - from
      BY DEF WindowInv, OwedSince, t
    <2>2. more[from] * t = u[from] * t + t /\ u[from] * t \in Nat
      BY <1>2, <1>4
    <2> QED  BY <2>1, <2>2, <1>1, <1>3 DEF Later
  <1>7. BusySince(more, new, n, t, at)
    <2>1. CASE full >= at
      <3>1. PICK s \in 0..at :
                /\ full = s + u[s] * t
                /\ \A from \in (s + 1)..(at + 1) : full <= from - 1 + burst + u[from] * t
        BY DEF WindowInv, BusySince, t, burst
      <3>2. new = full + t
        BY <2>1, <1>3 DEF Later
      <3>3. new = s + more[s] * t
        BY <3>1, <3>2, <1>1, <1>2, <1>4
      <3>4. ASSUME NEW from \in (s + 1)..(at + 1)
            PROVE  new <= from - 1 + burst + more[from] * t
        <4>1. CASE from = at + 1
          BY <4>1, <1>1, <1>3, <1>4
        <4>2. CASE from <= at
          <5>1. full <= from - 1 + burst + u[from] * t
            BY <3>1
          <5>2. more[from] * t = u[from] * t + t /\ u[from] * t \in Nat
            BY <4>2, <1>2, <1>4
          <5> QED  BY <5>1, <5>2, <3>2, <1>1
        <4> QED  BY <4>1, <4>2
      <3> QED  BY <3>3, <3>4 DEF BusySince, burst
    <2>2. CASE full < at
      <3>1. u[at] = 0 /\ u[at] * t = 0
        BY <2>2, <1>1 DEF WindowInv, Covers
      <3>2. new = at + t
        BY <2>2, <1>3 DEF Later
      <3>3. new = at + more[at] * t
        BY <3>1, <3>2, <1>1, <1>4
      <3>4. \A from \in (at + 1)..(at + 1) : new <= from - 1 + burst + more[from] * t
        BY <1>1, <1>3, <1>4
      <3> QED  BY <3>3, <3>4 DEF BusySince, burst
    <2> QED  BY <2>1, <2>2
  <1>8. WindowBounded(more, n, t, at)
    <2> SUFFICES ASSUME NEW from \in 0..at, NEW to \in from..at
                 PROVE  (more[from] - more[to + 1]) * t <= burst + (to - from)
      BY DEF WindowBounded, burst
    <2>1. CASE to = at
      <3>1. more[from] * t <= Later(new, at) - from
        BY <1>6 DEF OwedSince
      <3>2. more[to + 1] = 0 /\ more[from] \in Nat /\ more[from] * t \in Int
        BY <2>1, <1>1, <1>2, <1>4
      <3>3. (more[from] - more[to + 1]) * t = more[from] * t
        BY <3>2
      <3> QED  BY <3>1, <3>2, <3>3, <2>1, <1>1, <1>3 DEF Later
    <2>2. CASE to < at
      <3>1. more[from] - more[to + 1] = u[from] - u[to + 1]
        BY <2>2, <1>2, <1>4
      <3>2. (u[from] - u[to + 1]) * t <= burst + (to - from)
        BY DEF WindowInv, WindowBounded, t, burst
      <3> QED  BY <3>1, <3>2
    <2> QED  BY <2>1, <2>2
  <1> QED  BY <1>5, <1>6, <1>7, <1>8 DEF WindowInv, t, more, new

(* check_key refuses: a full budget was admitted during the last minute. *)
LEMMA WindowRefuse ==
    ASSUME NEW n \in Nat \ {0}, NEW full \in Nat, NEW at \in Nat, NEW u,
           History(u, at), WindowInv(u, full, n, at), ~Conforms(n, full, at)
    PROVE  SpentAt(u, n, at)
PROOF
  <1> DEFINE t == Cell(n)
             burst == n * t
             from == at - Minute + 1
  <1>1. t \in Nat /\ burst \in Nat /\ burst <= Minute /\ Minute \in Nat
    BY CellFits, MinuteAssumption
  <1>2. /\ \A a \in Int : u[a] \in Nat /\ u[a] * t \in Nat
        /\ u[at + 1] = 0
    BY <1>1 DEF History
  <1>3. t <= burst /\ (n - 1) * t = burst - t
    BY <1>1
  <1>4. ASSUME NEW v \in Nat, v * t > burst - t PROVE v >= n
    <2>1. CASE v <= n - 1
      BY <2>1, <1>1, <1>3, <1>4, ProductMonotone
    <2> QED  BY <2>1
  <1>5. Later(full, at) + t > at + burst
    BY <1>1 DEF Conforms, Charge, Later
  <1> HIDE DEF t, burst
  <1>6. full + t > at + burst
    BY <1>1, <1>3, <1>5 DEF Later
  <1>7. PICK s \in 0..at :
            /\ full = s + u[s] * t
            /\ \A a \in (s + 1)..(at + 1) : full <= a - 1 + burst + u[a] * t
    BY DEF WindowInv, BusySince, t, burst
  <1>8. u[from] >= n
    <2>1. CASE from <= s
      <3>1. u[s] * t > burst - t
        BY <1>1, <1>2, <1>6, <1>7
      <3>2. u[s] >= n
        BY <3>1, <1>2, <1>4
      <3>3. u[s] <= u[from]
        BY <2>1, <1>1 DEF History
      <3> QED  BY <3>2, <3>3, <1>1, <1>2
    <2>2. CASE from > s
      <3>1. from \in (s + 1)..(at + 1)
        BY <2>2, <1>1, MinuteAssumption
      <3>2. full <= from - 1 + burst + u[from] * t
        BY <3>1, <1>7
      <3>3. u[from] * t > burst - t
        BY <3>1, <3>2, <1>1, <1>2, <1>6
      <3> QED  BY <3>1, <3>3, <1>2, <1>4
    <2> QED  BY <2>1, <2>2, <1>1
  <1> QED  BY <1>1, <1>2, <1>8 DEF SpentAt

(* Later admissions do not make a minute that was spent less so. *)
LEMMA SpentAtStays ==
    ASSUME NEW n \in Nat, NEW at \in Nat, NEW u, History(u, at),
           NEW past \in 0..at, SpentAt(u, n, past)
    PROVE  SpentAt(OneMore(u, at), n, past)
PROOF
  <1>1. past - Minute + 1 \in Int /\ past - Minute + 1 <= at /\ past + 1 \in Int
    BY MinuteAssumption
  <1> QED  BY <1>1 DEF SpentAt, OneMore, History

(* The bound holds for the windows that are not over, too. *)
LEMMA WindowAlways ==
    ASSUME NEW n \in Nat \ {0}, NEW full, NEW at \in Nat, NEW u,
           History(u, at), WindowInv(u, full, n, at),
           NEW from \in Nat, NEW to \in Nat, from <= to
    PROVE  (u[from] - u[to + 1]) * Cell(n) <= n * Cell(n) + (to - from)
PROOF
  <1> DEFINE t == Cell(n)
             burst == n * t
  <1>1. t \in Nat /\ burst \in Nat
    BY CellFits
  <1>2. \A a \in Int : a > at => u[a] = 0
    BY DEF History
  <1> HIDE DEF t, burst
  <1>3. CASE to <= at
    BY <1>3 DEF WindowInv, WindowBounded, t, burst
  <1>4. CASE from <= at /\ to > at
    <2>1. (u[from] - u[at + 1]) * t <= burst + (at - from)
      BY <1>4 DEF WindowInv, WindowBounded, t, burst
    <2>2. u[to + 1] = u[at + 1]
      BY <1>2, <1>4
    <2>3. (u[from] - u[at + 1]) * t \in Int
      BY <1>1 DEF History
    <2> QED  BY <2>1, <2>2, <2>3, <1>1, <1>4 DEF t, burst
  <1>5. CASE from > at
    <2>1. (u[from] - u[to + 1]) * t = 0
      BY <1>1, <1>2, <1>5
    <2> QED  BY <2>1, <1>1 DEF t, burst
  <1> QED  BY <1>3, <1>4, <1>5
=============================================================================
