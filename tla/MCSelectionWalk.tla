--------------------------- MODULE MCSelectionWalk ---------------------------
(* An instance of SelectionWalk for TLC. *)
EXTENDS SelectionWalk

It(tag, name) == [tag |-> tag, name |-> name]

F == It("field", "f")
G == It("field", "g")
A == It("spread", "A")
B == It("spread", "B")
C == It("spread", "C")      \* not defined in the document
I == It("inline", "i")

Of(items) == {<<a, b>> : a, b \in items}

Document(root, a, b, i) ==
    [sets |-> [s \in {"root", "a", "b", "i"} |->
                  CASE s = "root" -> root [] s = "a" -> a [] s = "b" -> b [] s = "i" -> i],
     fragments |-> [A |-> "a", B |-> "b"]]

(* Two fragments that may spread each other and themselves, and one inline *)
(* fragment, which stands in the root or in the first fragment.            *)
MCDocs ==
    {Document(root, a, <<b>>, <<G, i>>) :
        root \in {<<x, I>> : x \in {F, A, B, C}}, a \in Of({F, A, B}), b \in {F, A, B, G},
        i \in {F, A, B}}
    \cup
    {Document(root, a, <<b>>, <<i, B>>) :
        root \in Of({F, A, B, C}), a \in {<<x, I>> : x \in {F, A, B}}, b \in {F, A, B, G},
        i \in {G, A, B}}
=============================================================================
