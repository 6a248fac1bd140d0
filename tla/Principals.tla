----------------------------- MODULE Principals -----------------------------
(***************************************************************************)
(* The authenticated identity attached to a request (src/src/principal.rs) *)
(* and the two permission tiers of the classifier (Scope of classify.rs).  *)
(***************************************************************************)

CONSTANTS
    None,           \* Option::None, wherever the code has an Option
    Names,          \* display names of principals, "anonymous" among them
    FineScopes      \* fine-grained scopes such as actions:execute

ASSUME AnonymousIsAName == "anonymous" \in Names

(* The two tiers an operation can demand: enum Scope. *)
Scope == {"read", "write"}

(* Everything a principal can be granted. *)
GrantedScopes == Scope \cup FineScopes

Principal == [name : Names, scopes : SUBSET GrantedScopes]

(* Principal::anonymous: the read-only caller without a credential. *)
Anonymous == [name |-> "anonymous", scopes |-> {"read"}]

(* Principal::satisfies: write implies read, other scopes match exactly. *)
Satisfies(principal, required) ==
    \/ required \in principal.scopes
    \/ required = "read" /\ "write" \in principal.scopes
=============================================================================
