---------------------------- MODULE SelectionWalk ----------------------------
(***************************************************************************)
(* collect_top_fields of src/src/classify.rs: the walk over an operation's *)
(* root selection set that gathers the field names per-field policy looks  *)
(* at, through fragment spreads and inline fragments.                      *)
(*                                                                         *)
(* A document is [sets, fragments]: its selection sets, each a sequence of *)
(* items, and the set of each fragment that is defined.  The set "root" is *)
(* the operation's.  An item is [tag, name]: a field (by its real name), a *)
(* spread of the fragment of that name, or an inline fragment, whose       *)
(* selection set has that name.  The recursion is the stack of the sets    *)
(* being iterated over and the position in each.                           *)
(***************************************************************************)
EXTENDS Naturals, Sequences, FiniteSets, SequencesExt

CONSTANT Docs       \* the documents a request may carry

(* A document is a syntax tree: an inline fragment's selection set belongs *)
(* to one selection set and to no fragment, and two fragments have each    *)
(* their own.  Nothing is said of what a fragment spreads.                 *)
SyntaxTree(d) ==
    /\ "root" \in DOMAIN d.sets
    /\ \A s \in DOMAIN d.sets : d.sets[s] \in Seq(Range(d.sets[s]))
    /\ Range(d.fragments) \subseteq DOMAIN d.sets \ {"root"}
    /\ IsInjective(d.fragments)
    /\ \A s \in DOMAIN d.sets : \A item \in Range(d.sets[s]) :
          item.tag = "inline" =>
             /\ item.name \in DOMAIN d.sets \ ({"root"} \cup Range(d.fragments))
             /\ \A t \in DOMAIN d.sets : \A other \in Range(d.sets[t]) :
                   other.tag = "inline" /\ other.name = item.name => t = s

ASSUME DocsAssumption == \A d \in Docs : SyntaxTree(d)

VARIABLES
    doc,        \* the document
    stack,      \* one frame per active call, the innermost last
    visited,    \* fragment names spread so far
    out         \* field names found so far

vars == <<doc, stack, visited, out>>

Frame(set) == [set |-> set, next |-> 1]

Init ==
    /\ doc \in Docs
    /\ stack = <<Frame("root")>>
    /\ visited = {}
    /\ out = <<>>

Top == stack[Len(stack)]
AtEnd == Top.next > Len(doc.sets[Top.set])
Item == doc.sets[Top.set][Top.next]

(* The innermost loop moves past its item. *)
Advanced == [stack EXCEPT ![Len(stack)].next = @ + 1]

(* Selection::Field: kept once. *)
Field ==
    /\ Item.tag = "field"
    /\ out' = IF Contains(out, Item.name) THEN out ELSE Append(out, Item.name)
    /\ stack' = Advanced
    /\ UNCHANGED visited

(* Mutant: every spread is followed, however often the fragment was seen. *)
SpreadUnguarded ==
    /\ Item.tag = "spread"
    /\ stack' = IF Item.name \in DOMAIN doc.fragments
                THEN Append(Advanced, Frame(doc.fragments[Item.name]))
                ELSE Advanced
    /\ UNCHANGED <<visited, out>>

(* Mutant: the loop does not move past a spread it has seen before. *)
SpreadStuck ==
    /\ Item.tag = "spread"
    /\ visited' = visited \cup {Item.name}
    /\ stack' = IF Item.name \in visited THEN stack
                ELSE IF Item.name \in DOMAIN doc.fragments
                THEN Append(Advanced, Frame(doc.fragments[Item.name]))
                ELSE Advanced
    /\ UNCHANGED out

(* Selection::FragmentSpread: a fragment is entered on its first spread,   *)
(* if the document defines it.                                             *)
Spread ==
    /\ Item.tag = "spread"
    /\ visited' = visited \cup {Item.name}
    /\ stack' = IF Item.name \notin visited /\ Item.name \in DOMAIN doc.fragments
                THEN Append(Advanced, Frame(doc.fragments[Item.name]))
                ELSE Advanced
    /\ UNCHANGED out

(* Mutant: inline fragments are skipped. *)
InlineSkipped ==
    /\ Item.tag = "inline"
    /\ stack' = Advanced
    /\ UNCHANGED <<visited, out>>

(* Selection::InlineFragment: always entered. *)
Inline ==
    /\ Item.tag = "inline"
    /\ stack' = Append(Advanced, Frame(Item.name))
    /\ UNCHANGED <<visited, out>>

(* The next item of the innermost set. *)
Visit ==
    /\ stack # <<>>
    /\ ~AtEnd
    /\ Field \/ Spread \/ Inline
    /\ UNCHANGED doc

(* The innermost call returns. *)
Return ==
    /\ stack # <<>>
    /\ AtEnd
    /\ stack' = Front(stack)
    /\ UNCHANGED <<doc, visited, out>>

(* The outermost call has returned. *)
Done == stack = <<>> /\ UNCHANGED vars

Next == Visit \/ Return \/ Done

Spec == Init /\ [][Next]_vars

(* The walk is straight-line code: it goes on until it is done. *)
FairSpec == Spec /\ WF_vars(Visit \/ Return)

-----------------------------------------------------------------------------
Sets == DOMAIN doc.sets

ItemsOf(set) == Range(doc.sets[set])

(* The selection sets that are merged into the operation's root because    *)
(* the given set is.                                                       *)
Merged(set) ==
    {item.name : item \in {i \in ItemsOf(set) : i.tag = "inline"}}
    \cup {doc.fragments[item.name] :
             item \in {i \in ItemsOf(set) : i.tag = "spread" /\ i.name \in DOMAIN doc.fragments}}

(* The root and everything merged into it: the least set closed under      *)
(* Merged.                                                                 *)
RootSets ==
    {set \in Sets : \A S \in SUBSET Sets :
        ("root" \in S /\ \A s \in S : Merged(s) \subseteq S) => set \in S}

(* The fields a server resolves at the operation's root. *)
RootFields ==
    {item.name : item \in {i \in UNION {ItemsOf(s) : s \in RootSets} : i.tag = "field"}}

(* When the walk is over, it has found every field that is selected at the *)
(* root, however deep in fragments it hides, and at no time one that is    *)
(* not.                                                                    *)
FindsRootFields ==
    /\ Range(out) \subseteq RootFields
    /\ stack = <<>> => RootFields \subseteq Range(out)

(* No call works on a selection set that an outer call is working on, so   *)
(* the recursion is never deeper than the document has selection sets,     *)
(* cyclic fragments or not; and no field is listed twice.                  *)
NoReentry ==
    /\ \A i, j \in DOMAIN stack : stack[i].set = stack[j].set => i = j
    /\ IsInjective(out)

(* The walk ends on every document, on cyclic fragment spreads too. *)
Terminates == <>(stack = <<>>)
=============================================================================
