----------------------------- MODULE MCRateLimit -----------------------------
(* An instance of RateLimit for TLC. *)
EXTENDS RateLimit

MCNames == {"anonymous"}

(* Budgets that divide the minute and budgets that do not, and no budget. *)
MCLimits == {[read |-> 3, write |-> 0], [read |-> 0, write |-> 2], [read |-> 1, write |-> 1]}
=============================================================================
