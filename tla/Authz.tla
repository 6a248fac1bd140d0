-------------------------------- MODULE Authz --------------------------------
(***************************************************************************)
(* Authorization of a classified request (src/src/authz.rs): the base      *)
(* scope of the classification, plus what matching overrides require.      *)
(***************************************************************************)
EXTENDS Principals

(* override_matches: every constraint set must hold, and one must be set. *)
OverrideMatches(ov, op) ==
    /\ ~(ov.field = None /\ ov.operation = None)
    /\ ov.field = None \/ ov.field \in op.top_level_fields
    /\ ov.operation = None \/ op.name = ov.operation

(* Mutant: an override counts only if every operation matches it. *)
RequiredByAll(classification, overrides) ==
    {classification.scope} \cup
    UNION {ov.require_scopes : ov \in
              {o \in overrides : \A op \in classification.operations :
                                     OverrideMatches(o, op)}}

(* authorize: the scopes a request needs. *)
Required(classification, overrides) ==
    {classification.scope} \cup
    UNION {ov.require_scopes : ov \in
              {o \in overrides : \E op \in classification.operations :
                                     OverrideMatches(o, op)}}

(* authorize: the ones the principal lacks; {} is Ok, the rest is Denied. *)
Missing(principal, classification, overrides) ==
    {scope \in Required(classification, overrides) : ~Satisfies(principal, scope)}
=============================================================================
