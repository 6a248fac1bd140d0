------------------------- MODULE SelectionWalkProofs -------------------------
(***************************************************************************)
(* collect_top_fields, proved for every document: whatever fragments       *)
(* spread, cycles included, the walk finds the root's fields and no        *)
(* others, and never works on a selection set twice at a time.             *)
(*                                                                         *)
(* Neither property is inductive.  Reasons says why a set is on the stack, *)
(* which is what rules out a second frame for it.  Progress says what has  *)
(* been found so far, for some set of selection sets entered: whatever     *)
(* their loops have passed is either found, entered or remembered in       *)
(* visited.  Once every loop is over that set is closed under Merged, so   *)
(* it contains the least such set, RootSets.                               *)
(***************************************************************************)
EXTENDS SelectionWalk, FiniteSetTheorems, TLAPS

FrameType == [set : RootSets, next : Nat \ {0}]

Shape ==
    /\ doc \in Docs
    /\ stack \in Seq(FrameType)
    /\ out \in Seq(RootFields)

(* The k-th call was made by the loop of the call before it, for a spread  *)
(* seen or for an inline fragment.                                         *)
Reasons ==
    \A k \in 1..Len(stack) :
        \/ k = 1 /\ stack[k].set = "root"
        \/ \E name \in visited \cap DOMAIN doc.fragments : stack[k].set = doc.fragments[name]
        \/ /\ k > 1
           /\ \E item \in ItemsOf(stack[k - 1].set) :
                 item.tag = "inline" /\ item.name = stack[k].set

(* The loops of all calls on that set have passed its p-th item. *)
Passed(set, p) ==
    \A k \in 1..Len(stack) : stack[k].set = set => p < stack[k].next

(* An item that was passed has been dealt with. *)
Dealt(item, entered) ==
    /\ item.tag = "field" => item.name \in Range(out)
    /\ item.tag = "spread" => item.name \in visited
    /\ item.tag = "inline" => item.name \in entered

Progress(entered) ==
    /\ "root" \in entered
    /\ \A name \in visited \cap DOMAIN doc.fragments : doc.fragments[name] \in entered
    /\ \A set \in entered : \A p \in 1..Len(doc.sets[set]) :
          Passed(set, p) => Dealt(doc.sets[set][p], entered)

Inv ==
    /\ Shape
    /\ NoReentry
    /\ Reasons
    /\ \E entered \in SUBSET Sets : Progress(entered)
-----------------------------------------------------------------------------
(* What is merged into a set of a document is a set of the document. *)
LEMMA MergedSets ==
    ASSUME doc \in Docs, NEW s \in Sets
    PROVE  Merged(s) \subseteq Sets
PROOF
  <1>1. SyntaxTree(doc)
    BY DocsAssumption
  <1>2. ASSUME NEW item \in ItemsOf(s), item.tag = "inline" PROVE item.name \in Sets
    BY <1>1, <1>2 DEF SyntaxTree, ItemsOf, Sets
  <1>3. ASSUME NEW name \in DOMAIN doc.fragments PROVE doc.fragments[name] \in Sets
    BY <1>1 DEF SyntaxTree, Sets, Range
  <1> QED  BY <1>2, <1>3 DEF Merged

(* RootSets contains the root and is closed under Merged. *)
LEMMA RootClosed ==
    ASSUME doc \in Docs
    PROVE  /\ "root" \in RootSets /\ RootSets \subseteq Sets
           /\ \A s \in RootSets : Merged(s) \subseteq RootSets
PROOF
  <1>1. "root" \in RootSets /\ RootSets \subseteq Sets
    BY DocsAssumption DEF SyntaxTree, Sets, RootSets
  <1>2. ASSUME NEW s \in RootSets, NEW m \in Merged(s) PROVE m \in RootSets
    <2>1. m \in Sets
      BY <1>1, MergedSets
    <2>2. ASSUME NEW S \in SUBSET Sets, "root" \in S, \A t \in S : Merged(t) \subseteq S
          PROVE  m \in S
      BY <2>2 DEF RootSets
    <2> QED  BY <2>1, <2>2 DEF RootSets
  <1> QED  BY <1>1, <1>2

(* Every operator on the document is fixed as long as the document is. *)
LEMMA DocStays ==
    ASSUME doc' = doc
    PROVE  /\ Sets' = Sets /\ RootSets' = RootSets /\ RootFields' = RootFields
           /\ FrameType' = FrameType
           /\ \A s : ItemsOf(s)' = ItemsOf(s)
  BY DEF Sets, RootSets, RootFields, FrameType, ItemsOf, Merged

(* The innermost loop looks at an item of a set that is merged into the    *)
(* root.                                                                   *)
LEMMA AtItem ==
    ASSUME Shape, stack # <<>>, ~AtEnd
    PROVE  /\ Len(stack) \in 1..Len(stack) /\ Top \in FrameType
           /\ Top.set \in RootSets /\ Top.set \in Sets
           /\ Top.next \in 1..Len(doc.sets[Top.set])
           /\ Item \in ItemsOf(Top.set)
           /\ DOMAIN doc.sets[Top.set] = 1..Len(doc.sets[Top.set])
PROOF
  <1>1. Len(stack) \in 1..Len(stack) /\ Top \in FrameType
    BY DEF Shape, Top
  <1>2. Top.set \in RootSets /\ Top.next \in Nat \ {0}
    BY <1>1 DEF FrameType
  <1>3. Top.set \in Sets
    BY <1>2, RootClosed DEF Shape
  <1>4. doc.sets[Top.set] \in Seq(Range(doc.sets[Top.set]))
    BY <1>3, DocsAssumption DEF Shape, SyntaxTree, Sets
  <1>5. Top.next \in 1..Len(doc.sets[Top.set])
    BY <1>2, <1>4 DEF AtEnd
  <1> QED  BY <1>1, <1>2, <1>3, <1>4, <1>5 DEF Item, ItemsOf, Range

(* The loop moves on, and every other frame stays as it is. *)
LEMMA AdvancedFrames ==
    ASSUME Shape, stack # <<>>
    PROVE  /\ Advanced \in Seq(FrameType) /\ Len(Advanced) = Len(stack)
           /\ \A k \in 1..Len(stack) :
                 /\ Advanced[k].set = stack[k].set
                 /\ Advanced[k].next = IF k = Len(stack) THEN Top.next + 1 ELSE stack[k].next
PROOF
  <1>1. stack \in Seq(FrameType) /\ Len(stack) \in 1..Len(stack)
    BY DEF Shape
  <1>2. Top \in FrameType
    BY <1>1 DEF Top
  <1>3. [Top EXCEPT !.next = @ + 1] \in FrameType
    BY <1>2 DEF FrameType
  <1>4. Advanced = [stack EXCEPT ![Len(stack)] = [Top EXCEPT !.next = @ + 1]]
    BY <1>1 DEF Advanced, Top
  <1>5. Advanced \in Seq(FrameType) /\ Len(Advanced) = Len(stack)
    BY <1>1, <1>3, <1>4
  <1>6. ASSUME NEW k \in 1..Len(stack)
        PROVE  /\ Advanced[k].set = stack[k].set
               /\ Advanced[k].next = IF k = Len(stack) THEN Top.next + 1 ELSE stack[k].next
    <2>1. stack[k] \in FrameType
      BY <1>1
    <2>2. CASE k = Len(stack)
      BY <1>1, <1>2, <1>4, <2>2 DEF Top, FrameType
    <2>3. CASE k # Len(stack)
      BY <1>1, <1>4, <2>3
    <2> QED  BY <2>2, <2>3
  <1> QED  BY <1>5, <1>6

(* A call puts a frame on top. *)
LEMMA PushedFrames ==
    ASSUME Shape, stack # <<>>, NEW x \in RootSets
    PROVE  LET more == Append(Advanced, Frame(x))
           IN  /\ more \in Seq(FrameType) /\ Len(more) = Len(stack) + 1
               /\ more[Len(stack) + 1] = Frame(x)
               /\ \A k \in 1..Len(stack) : more[k] = Advanced[k]
PROOF
  <1>1. Frame(x) \in FrameType
    BY DEF Frame, FrameType
  <1> QED  BY <1>1, AdvancedFrames DEF Shape

(* Passing one item lets the loops pass nothing but that item. *)
LEMMA PassesOne ==
    ASSUME Shape, stack # <<>>, NEW set, NEW p \in Nat, Len(stack') \in Nat,
           Len(stack) <= Len(stack'), \A k \in 1..Len(stack) : stack'[k] = Advanced[k],
           Passed(set, p)'
    PROVE  Passed(set, p) \/ (set = Top.set /\ p = Top.next)
PROOF
  <1> SUFFICES ASSUME ~(set = Top.set /\ p = Top.next),
                      NEW k \in 1..Len(stack), stack[k].set = set
               PROVE  p < stack[k].next
    BY DEF Passed
  <1>1. Advanced[k].set = set /\ k \in 1..Len(stack')
    BY AdvancedFrames DEF Shape
  <1>2. p < Advanced[k].next
    BY <1>1 DEF Passed
  <1>3. stack[k] \in FrameType /\ Len(stack) \in Nat
    BY DEF Shape
  <1>4. stack[k].next \in Nat
    BY <1>3 DEF FrameType
  <1>5. CASE k = Len(stack)
    BY <1>2, <1>4, <1>5, AdvancedFrames DEF Top
  <1>6. CASE k # Len(stack)
    BY <1>2, <1>6, AdvancedFrames
  <1> QED  BY <1>5, <1>6
-----------------------------------------------------------------------------
(* Moving past an item keeps the progress, with the item dealt with and    *)
(* whatever was entered for it at its first item.                          *)
LEMMA ProgressStep ==
    ASSUME Shape, stack # <<>>, ~AtEnd, doc' = doc,
           NEW entered \in SUBSET Sets, Progress(entered),
           NEW more \in SUBSET Sets, entered \subseteq more,
           Len(stack') \in Nat, Len(stack) <= Len(stack'),
           \A k \in 1..Len(stack) : stack'[k] = Advanced[k],
           visited \subseteq visited', Range(out) \subseteq Range(out'),
           \A name \in visited' \cap DOMAIN doc.fragments : doc.fragments[name] \in more,
           \A set \in more \ entered :
              \E k \in 1..Len(stack') : stack'[k].set = set /\ stack'[k].next = 1,
           NEW item, item = Item, Dealt(item, more)'
    PROVE  Progress(more)'
PROOF
  <1>1. "root" \in more
    BY DEF Progress
  <1>2. ASSUME NEW set \in more, NEW p \in 1..Len(doc.sets[set]), Passed(set, p)'
        PROVE  Dealt(doc.sets[set][p], more)'
    <2>0. set \in Sets /\ p \in Nat /\ p >= 1
      OBVIOUS
    <2>1. CASE set \in entered
      <3>1. Passed(set, p) \/ (set = Top.set /\ p = Top.next)
        BY <1>2, <2>0, PassesOne
      <3>2. CASE Passed(set, p)
        <4> DEFINE it == doc.sets[set][p]
        <4>1. Dealt(it, entered)
          BY <2>1, <3>2 DEF Progress
        <4>2. doc'.sets[set][p] = it
          OBVIOUS
        <4> QED  BY <4>1, <4>2 DEF Dealt
      <3>3. CASE set = Top.set /\ p = Top.next
        BY <3>3 DEF Item, Dealt
      <3> QED  BY <3>1, <3>2, <3>3
    <2>2. CASE set \notin entered
      <3>1. PICK k \in 1..Len(stack') : stack'[k].set = set /\ stack'[k].next = 1
        BY <2>2
      <3>2. p < 1
        BY <1>2, <3>1 DEF Passed
      <3> QED  BY <2>0, <3>2
    <2> QED  BY <2>1, <2>2
  <1> QED  BY <1>1, <1>2 DEF Progress

(* A step that goes on to the next item keeps the invariant. *)
LEMMA GoesOn ==
    ASSUME Inv, stack # <<>>, ~AtEnd, doc' = doc, stack' = Advanced,
           out' \in Seq(RootFields), IsInjective(out'), Range(out) \subseteq Range(out'),
           visited \subseteq visited', visited' \cap DOMAIN doc.fragments \subseteq visited,
           Item.tag # "inline",
           Item.tag = "field" => Item.name \in Range(out'),
           Item.tag = "spread" => Item.name \in visited'
    PROVE  Inv'
PROOF
  <1>1. /\ Shape /\ Reasons /\ NoReentry /\ Len(stack) \in Nat
        /\ \A k \in 1..Len(stack) : Advanced[k].set = stack[k].set
        /\ Advanced \in Seq(FrameType) /\ Len(Advanced) = Len(stack)
        /\ DOMAIN Advanced = 1..Len(stack) /\ DOMAIN stack = 1..Len(stack)
    BY AdvancedFrames DEF Inv, Shape
  <1>2. Shape'
    BY <1>1, DocStays DEF Shape
  <1>3. NoReentry'
    BY <1>1 DEF NoReentry
  <1>4. Reasons'
    BY <1>1, DocStays DEF Reasons
  <1>5. PICK entered \in SUBSET Sets : Progress(entered)
    BY DEF Inv
  <1>6. Progress(entered)'
    <2>1. PICK it : it = Item
      OBVIOUS
    <2>2. Dealt(it, entered)'
      BY <2>1 DEF Dealt
    <2>3. \A name \in visited' \cap DOMAIN doc.fragments : doc.fragments[name] \in entered
      BY <1>5 DEF Progress
    <2> QED  BY <1>1, <1>5, <2>1, <2>2, <2>3, ProgressStep
  <1>7. entered \in SUBSET Sets'
    BY DocStays
  <1> QED  BY <1>2, <1>3, <1>4, <1>6, <1>7 DEF Inv

(* A step that enters a selection set no call is working on keeps the      *)
(* invariant.                                                              *)
LEMMA Enters ==
    ASSUME Inv, stack # <<>>, ~AtEnd, doc' = doc, out' = out,
           NEW x \in RootSets, stack' = Append(Advanced, Frame(x)),
           \A k \in 1..Len(stack) : stack[k].set # x,
           visited \subseteq visited',
           \A name \in visited' \cap DOMAIN doc.fragments :
              name \in visited \/ doc.fragments[name] = x,
           \/ \E name \in visited' \cap DOMAIN doc.fragments : x = doc.fragments[name]
           \/ Item.tag = "inline" /\ Item.name = x,
           Item.tag # "field",
           Item.tag = "spread" => Item.name \in visited',
           Item.tag = "inline" => Item.name = x
    PROVE  Inv'
PROOF
  <1> DEFINE L == Len(stack)
  <1>1. /\ Shape /\ Reasons /\ NoReentry /\ L \in Nat
        /\ \A k \in 1..L : Advanced[k].set = stack[k].set
        /\ DOMAIN stack = 1..L
    BY AdvancedFrames DEF Inv, Shape
  <1>2. /\ stack' \in Seq(FrameType) /\ Len(stack') = L + 1
        /\ stack'[L + 1] = Frame(x)
        /\ \A k \in 1..L : stack'[k] = Advanced[k]
    BY <1>1, PushedFrames
  <1>3. /\ stack'[L + 1].set = x /\ stack'[L + 1].next = 1
        /\ \A k \in 1..L : stack'[k].set = stack[k].set
        /\ DOMAIN stack' = 1..(L + 1)
        /\ \A k \in 1..(L + 1) : k \in 1..L \/ k = L + 1
    BY <1>1, <1>2 DEF Frame
  <1> HIDE DEF L
  <1>4. Shape'
    BY <1>1, <1>2, DocStays DEF Shape
  <1>5. NoReentry'
    <2>1. IsInjective(out')
      BY <1>1 DEF NoReentry
    <2>2. ASSUME NEW i \in 1..(L + 1), NEW j \in 1..(L + 1), stack'[i].set = stack'[j].set
          PROVE  i = j
      BY <1>1, <1>3, <2>2 DEF NoReentry, L
    <2> QED  BY <2>1, <2>2, <1>3 DEF NoReentry
  <1>6. Reasons'
    <2> SUFFICES ASSUME NEW k \in 1..(L + 1)
                 PROVE  \/ k = 1 /\ stack'[k].set = "root"
                        \/ \E name \in visited' \cap DOMAIN doc.fragments :
                              stack'[k].set = doc.fragments[name]
                        \/ /\ k > 1
                           /\ \E item \in ItemsOf(stack'[k - 1].set) :
                                 item.tag = "inline" /\ item.name = stack'[k].set
      BY <1>2, DocStays DEF Reasons
    <2>1. CASE k = L + 1
      <3>1. L \in 1..L /\ Item \in ItemsOf(Top.set)
        BY <1>1, AtItem DEF L
      <3>2. stack'[L].set = Top.set
        BY <1>3, <3>1 DEF Top, L
      <3>3. k > 1 /\ k - 1 = L
        BY <1>1, <2>1, <3>1
      <3>4. stack'[k].set = x
        BY <1>3, <2>1
      <3> QED  BY <3>1, <3>2, <3>3, <3>4
    <2>2. CASE k \in 1..L
      <3>1. stack'[k].set = stack[k].set /\ (k > 1 => stack'[k - 1].set = stack[k - 1].set)
        BY <1>1, <1>3, <2>2
      <3> QED  BY <1>1, <2>2, <3>1 DEF Reasons, L
    <2> QED  BY <1>3, <2>1, <2>2
  <1>7. PICK entered \in SUBSET Sets : Progress(entered)
    BY DEF Inv
  <1> DEFINE more == entered \cup {x}
  <1>8. more \in SUBSET Sets
    BY <1>1, RootClosed DEF Shape
  <1>9. Progress(more)'
    <2>1. PICK it : it = Item
      OBVIOUS
    <2>2. Dealt(it, more)'
      BY <2>1 DEF Dealt
    <2>3. \A name \in visited' \cap DOMAIN doc.fragments : doc.fragments[name] \in more
      BY <1>7 DEF Progress
    <2>4. \A set \in more \ entered :
              \E k \in 1..Len(stack') : stack'[k].set = set /\ stack'[k].next = 1
      BY <1>1, <1>2, <1>3
    <2>5. Len(stack') \in Nat /\ Len(stack) <= Len(stack')
      BY <1>1, <1>2 DEF L
    <2>6. \A k \in 1..Len(stack) : stack'[k] = Advanced[k]
      BY <1>2 DEF L
    <2>7. entered \subseteq more
      OBVIOUS
    <2> HIDE DEF more
    <2> QED  BY <1>1, <1>7, <1>8, <2>1, <2>2, <2>3, <2>4, <2>5, <2>6, <2>7, ProgressStep
  <1>10. more \in SUBSET Sets'
    BY <1>8, DocStays
  <1> QED  BY <1>4, <1>5, <1>6, <1>9, <1>10 DEF Inv
-----------------------------------------------------------------------------
(* One lemma per action. *)

(* A field keeps the invariant: it is a root field, and listed once        *)
(* (Selection::Field).                                                     *)
LEMMA FieldInv ==
    ASSUME Inv, stack # <<>>, ~AtEnd, doc' = doc, Field
    PROVE  Inv'
PROOF
  <1>1. Shape /\ NoReentry
    BY DEF Inv
  <1>2. Item.name \in RootFields
    <2>1. Top.set \in RootSets /\ Item \in ItemsOf(Top.set)
      BY <1>1, AtItem
    <2> QED  BY <2>1 DEF RootFields, Field
  <1>3. /\ out \in Seq(RootFields) /\ Len(out) \in Nat /\ DOMAIN out = 1..Len(out)
        /\ IsInjective(out)
    BY <1>1 DEF Shape, NoReentry
  <1>4. /\ out' \in Seq(RootFields) /\ IsInjective(out')
        /\ Range(out) \subseteq Range(out') /\ Item.name \in Range(out')
    <2>1. CASE Contains(out, Item.name)
      BY <1>3, <2>1 DEF Field, Contains, Range
    <2>2. CASE ~Contains(out, Item.name)
      <3> DEFINE new == Append(out, Item.name)
      <3>1. out' = new
        BY <2>2 DEF Field
      <3>2. /\ new \in Seq(RootFields) /\ Len(new) = Len(out) + 1
            /\ DOMAIN new = 1..(Len(out) + 1)
            /\ \A i \in 1..Len(out) : new[i] = out[i]
            /\ new[Len(out) + 1] = Item.name
        BY <1>2, <1>3
      <3> HIDE DEF new
      <3>3. \A i \in 1..(Len(out) + 1) : i \in 1..Len(out) \/ i = Len(out) + 1
        BY <1>3
      <3>4. \A i \in 1..Len(out) : out[i] # Item.name
        BY <2>2 DEF Contains
      <3>5. IsInjective(new)
        BY <1>3, <3>2, <3>3, <3>4 DEF IsInjective
      <3>6. Range(out) \subseteq Range(new) /\ Item.name \in Range(new)
        BY <1>3, <3>2 DEF Range
      <3> QED  BY <3>1, <3>2, <3>5, <3>6
    <2> QED  BY <2>1, <2>2
  <1> QED  BY <1>4, GoesOn DEF Field

(* A spread keeps the invariant: the fragment is entered only if its name  *)
(* was never seen, so no call works on it (Selection::FragmentSpread).     *)
LEMMA SpreadInv ==
    ASSUME Inv, stack # <<>>, ~AtEnd, doc' = doc, Spread
    PROVE  Inv'
PROOF
  <1>1. Shape /\ NoReentry /\ Reasons /\ SyntaxTree(doc)
    BY DocsAssumption DEF Inv, Shape
  <1>2. /\ Item.tag = "spread" /\ visited' = visited \cup {Item.name} /\ out' = out
        /\ out \in Seq(RootFields) /\ IsInjective(out)
    BY <1>1 DEF Spread, Shape, NoReentry
  <1>3. CASE Item.name \notin visited /\ Item.name \in DOMAIN doc.fragments
    <2> DEFINE x == doc.fragments[Item.name]
    <2>1. x \in RootSets
      <3>1. x \in Merged(Top.set) /\ Top.set \in RootSets
        BY <1>1, <1>2, <1>3, AtItem DEF Merged
      <3> QED  BY <3>1, <1>1, RootClosed DEF Shape
    <2>2. ASSUME NEW k \in 1..Len(stack), stack[k].set = x PROVE FALSE
      <3>1. x \in Range(doc.fragments) /\ x # "root"
        BY <1>1, <1>3 DEF SyntaxTree, Range
      <3>2. \A name \in visited \cap DOMAIN doc.fragments : doc.fragments[name] # x
        BY <1>1, <1>3 DEF SyntaxTree, IsInjective
      <3>3. k > 1 /\ \E item \in ItemsOf(stack[k - 1].set) :
                         item.tag = "inline" /\ item.name = x
        BY <1>1, <2>2, <3>1, <3>2 DEF Reasons
      <3>4. stack[k - 1].set \in Sets
        <4>1. k - 1 \in 1..Len(stack)
          BY <1>1, <3>3 DEF Shape
        <4>2. stack[k - 1] \in FrameType
          BY <1>1, <4>1 DEF Shape
        <4> QED  BY <1>1, <4>2, RootClosed DEF FrameType, Shape
      <3> QED  BY <1>1, <3>1, <3>3, <3>4 DEF SyntaxTree, ItemsOf, Sets
    <2>3. stack' = Append(Advanced, Frame(x))
      BY <1>3 DEF Spread
    <2>4. x = doc.fragments[Item.name]
      OBVIOUS
    <2> HIDE DEF x
    <2>5. /\ \A name \in visited' \cap DOMAIN doc.fragments :
                name \in visited \/ doc.fragments[name] = x
          /\ \E name \in visited' \cap DOMAIN doc.fragments : x = doc.fragments[name]
      BY <1>2, <1>3, <2>4
    <2>6. \A k \in 1..Len(stack) : stack[k].set # x
      BY <2>2
    <2> QED  BY <1>2, <2>1, <2>3, <2>5, <2>6, Enters
  <1>4. CASE ~(Item.name \notin visited /\ Item.name \in DOMAIN doc.fragments)
    <2>1. stack' = Advanced
      BY <1>4 DEF Spread
    <2>2. visited' \cap DOMAIN doc.fragments \subseteq visited
      BY <1>2, <1>4
    <2> QED  BY <1>2, <2>1, <2>2, GoesOn
  <1> QED  BY <1>3, <1>4

(* An inline fragment keeps the invariant: only the loop that meets it     *)
(* can be working on it, and that one has not passed it                    *)
(* (Selection::InlineFragment).                                            *)
LEMMA InlineInv ==
    ASSUME Inv, stack # <<>>, ~AtEnd, doc' = doc, Inline
    PROVE  Inv'
PROOF
  <1> DEFINE x == Item.name
             L == Len(stack)
  <1>1. /\ Shape /\ NoReentry /\ Reasons /\ SyntaxTree(doc)
        /\ L \in Nat /\ DOMAIN stack = 1..L
    BY DocsAssumption DEF Inv, Shape
  <1>2. /\ Item.tag = "inline" /\ visited' = visited /\ out' = out
        /\ stack' = Append(Advanced, Frame(x))
    BY DEF Inline
  <1>3. Top.set \in RootSets /\ Top.set \in Sets /\ Item \in ItemsOf(Top.set) /\ L \in 1..L
    BY <1>1, AtItem
  <1>4. x \in RootSets
    <2>1. x \in Merged(Top.set)
      BY <1>2, <1>3 DEF Merged
    <2> QED  BY <2>1, <1>1, <1>3, RootClosed DEF Shape
  <1>5. x # "root" /\ x \notin Range(doc.fragments)
    BY <1>1, <1>2, <1>3 DEF SyntaxTree, ItemsOf, Sets
  <1>6. ASSUME NEW k \in 1..L, stack[k].set = x PROVE FALSE
    <2>1. PICK item \in ItemsOf(stack[k - 1].set) :
                   k > 1 /\ item.tag = "inline" /\ item.name = x
      BY <1>1, <1>5, <1>6 DEF Reasons, Range
    <2>2. k - 1 \in 1..L
      BY <1>1, <2>1
    <2>3. stack[k - 1].set \in Sets
      <3>1. stack[k - 1] \in FrameType
        BY <1>1, <2>2 DEF Shape
      <3> QED  BY <1>1, <3>1, RootClosed DEF FrameType, Shape
    <2>4. stack[k - 1].set = Top.set
      BY <1>1, <1>2, <1>3, <2>1, <2>3 DEF SyntaxTree, ItemsOf, Sets
    <2>5. k - 1 = L
      BY <1>1, <1>3, <2>2, <2>4 DEF NoReentry, Top
    <2> QED  BY <1>1, <2>5
  <1>7. \A name \in visited' \cap DOMAIN doc.fragments :
            name \in visited \/ doc.fragments[name] = x
    BY <1>2
  <1>8. \A k \in 1..Len(stack) : stack[k].set # x
    BY <1>6
  <1>9. x = Item.name
    OBVIOUS
  <1> HIDE DEF x
  <1> QED  BY <1>2, <1>4, <1>7, <1>8, <1>9, Enters

(* A return keeps the invariant: the loop has passed all its items. *)
LEMMA ReturnInv ==
    ASSUME Inv, Return
    PROVE  Inv'
PROOF
  <1> DEFINE L == Len(stack)
  <1>1. /\ Shape /\ NoReentry /\ Reasons /\ L \in Nat /\ L > 0
        /\ DOMAIN stack = 1..L /\ stack \in Seq(FrameType)
    BY DEF Inv, Shape, Return
  <1>2. doc' = doc /\ visited' = visited /\ out' = out
    BY DEF Return
  <1>3. /\ stack' \in Seq(FrameType) /\ Len(stack') = L - 1
        /\ DOMAIN stack' = 1..(L - 1)
        /\ \A k \in 1..(L - 1) : stack'[k] = stack[k]
    BY <1>1 DEF Return, Front
  <1>4. \A k \in 1..(L - 1) : k \in 1..L /\ (k > 1 => k - 1 \in 1..(L - 1))
    BY <1>1
  <1> HIDE DEF L
  <1>5. Shape'
    BY <1>1, <1>2, <1>3, DocStays DEF Shape
  <1>6. NoReentry'
    BY <1>1, <1>2, <1>3, <1>4 DEF NoReentry
  <1>7. Reasons'
    <2> SUFFICES ASSUME NEW k \in 1..(L - 1)
                 PROVE  \/ k = 1 /\ stack'[k].set = "root"
                        \/ \E name \in visited \cap DOMAIN doc.fragments :
                              stack'[k].set = doc.fragments[name]
                        \/ /\ k > 1
                           /\ \E item \in ItemsOf(stack'[k - 1].set) :
                                 item.tag = "inline" /\ item.name = stack'[k].set
      BY <1>2, <1>3, DocStays DEF Reasons
    <2>1. stack'[k] = stack[k] /\ (k > 1 => stack'[k - 1] = stack[k - 1])
      BY <1>3, <1>4
    <2> QED  BY <1>1, <1>4, <2>1 DEF Reasons, L
  <1>8. PICK entered \in SUBSET Sets : Progress(entered)
    BY DEF Inv
  <1>9. ASSUME NEW set \in entered, NEW p \in 1..Len(doc.sets[set]), Passed(set, p)'
        PROVE  Passed(set, p)
    <2> SUFFICES ASSUME NEW k \in 1..L, stack[k].set = set PROVE p < stack[k].next
      BY DEF Passed, L
    <2>1. CASE k = L
      <3>1. stack[k] = Top /\ Top.next > Len(doc.sets[set])
        BY <2>1 DEF Top, Return, AtEnd, L
      <3>2. Top.next \in Nat
        <4>1. Top \in FrameType
          BY <1>1, <2>1, <3>1
        <4> QED  BY <4>1 DEF FrameType
      <3>3. doc.sets[set] \in Seq(Range(doc.sets[set]))
        BY <1>1, DocsAssumption DEF Shape, SyntaxTree, Sets
      <3> QED  BY <3>1, <3>2, <3>3
    <2>2. CASE k # L
      <3>1. k \in 1..(L - 1)
        BY <1>1, <2>2
      <3> QED  BY <1>3, <1>9, <3>1 DEF Passed
    <2> QED  BY <2>1, <2>2
  <1>10. Progress(entered)'
    BY <1>2, <1>8, <1>9 DEF Progress, Dealt
  <1>11. entered \in SUBSET Sets'
    BY <1>2, DocStays
  <1> QED  BY <1>5, <1>6, <1>7, <1>10, <1>11 DEF Inv
(* The walk starts in the invariant, with one call on the root. *)
LEMMA InitInv == Init => Inv
PROOF
  <1> SUFFICES ASSUME Init PROVE Inv
    OBVIOUS
  <1>1. /\ doc \in Docs /\ stack = <<Frame("root")>> /\ visited = {} /\ out = <<>>
        /\ "root" \in RootSets /\ RootSets \subseteq Sets
    BY RootClosed DEF Init
  <1>2. Frame("root") \in FrameType
    BY <1>1 DEF Frame, FrameType
  <1>3. Len(stack) = 1 /\ stack[1].set = "root" /\ stack[1].next = 1 /\ DOMAIN stack = {1}
    BY <1>1 DEF Frame
  <1>4. Shape
    BY <1>1, <1>2 DEF Shape
  <1>5. NoReentry
    BY <1>1, <1>3 DEF NoReentry, IsInjective
  <1>6. Reasons
    BY <1>3 DEF Reasons
  <1>7. Progress({"root"})
    <2>1. ASSUME NEW p \in 1..Len(doc.sets["root"]) PROVE ~Passed("root", p)
      <3>1. p \in Nat /\ p >= 1
        BY DocsAssumption, <1>1 DEF SyntaxTree
      <3> QED  BY <1>3, <3>1 DEF Passed
    <2> QED  BY <1>1, <2>1 DEF Progress
  <1> QED  BY <1>1, <1>4, <1>5, <1>6, <1>7 DEF Inv

(* Every step of the walk keeps the invariant. *)
LEMMA NextInv == Inv /\ [Next]_vars => Inv'
PROOF
  <1> SUFFICES ASSUME Inv, [Next]_vars PROVE Inv'
    OBVIOUS
  <1>1. CASE Visit
    BY <1>1, FieldInv, SpreadInv, InlineInv DEF Visit
  <1>2. CASE Return
    BY <1>2, ReturnInv
  <1>3. CASE UNCHANGED vars
    <2>1. doc' = doc /\ stack' = stack /\ visited' = visited /\ out' = out
      BY <1>3 DEF vars
    <2>2. Shape' /\ NoReentry' /\ Reasons'
      BY <2>1, DocStays DEF Inv, Shape, NoReentry, Reasons
    <2>3. PICK entered \in SUBSET Sets : Progress(entered)
      BY DEF Inv
    <2>4. Progress(entered)' /\ entered \in SUBSET Sets'
      BY <2>1, <2>3, DocStays DEF Progress, Passed, Dealt
    <2> QED  BY <2>2, <2>4 DEF Inv
  <1> QED  BY <1>1, <1>2, <1>3 DEF Next, Done

-----------------------------------------------------------------------------
(* The invariant holds throughout every walk. *)
THEOREM Invariance == Spec => []Inv
  <1>1. Inv /\ [Next]_vars => Inv'
    BY NextInv
  <1> QED  BY <1>1, InitInv, PTL DEF Spec

(* When every loop is over, the sets entered are closed under Merged, and  *)
(* so they are all of RootSets.                                            *)
LEMMA InvFinds == Inv => FindsRootFields
PROOF
  <1> SUFFICES ASSUME Inv PROVE FindsRootFields
    OBVIOUS
  <1>1. Shape
    BY DEF Inv
  <1>2. Range(out) \subseteq RootFields
    BY <1>1 DEF Shape, Range
  <1>3. ASSUME stack = <<>>, NEW field \in RootFields PROVE field \in Range(out)
    <2>1. PICK entered \in SUBSET Sets : Progress(entered)
      BY DEF Inv
    <2>2. ASSUME NEW set \in entered, NEW item \in ItemsOf(set) PROVE Dealt(item, entered)
      <3>1. doc.sets[set] \in Seq(Range(doc.sets[set]))
        BY <1>1, DocsAssumption DEF Shape, SyntaxTree, Sets
      <3>2. PICK p \in 1..Len(doc.sets[set]) : item = doc.sets[set][p]
        BY <3>1 DEF ItemsOf, Range
      <3>3. Passed(set, p)
        BY <1>3 DEF Passed
      <3> QED  BY <2>1, <3>2, <3>3 DEF Progress
    <2>3. \A set \in entered : Merged(set) \subseteq entered
      BY <2>1, <2>2 DEF Merged, Dealt, Progress
    <2>4. RootSets \subseteq entered
      BY <2>1, <2>3 DEF RootSets, Progress
    <2>5. PICK set \in RootSets :
              \E item \in ItemsOf(set) : item.tag = "field" /\ item.name = field
      BY DEF RootFields
    <2> QED  BY <2>2, <2>4, <2>5 DEF Dealt
  <1> QED  BY <1>2, <1>3 DEF FindsRootFields

(* Whatever fragments spread, the walk finds exactly the fields a server   *)
(* resolves at the root: nothing else on the way, nothing missing when it  *)
(* is over.                                                                *)
THEOREM WalkFindsRootFields == Spec => []FindsRootFields
  BY Invariance, InvFinds, PTL

(* No call ever works on a selection set an outer call is working on, and  *)
(* no field is listed twice.                                               *)
THEOREM WalkNeverReenters == Spec => []NoReentry
  <1>1. Inv => NoReentry
    BY DEF Inv
  <1> QED  BY <1>1, Invariance, PTL
-----------------------------------------------------------------------------
(* The recursion is never deeper than the document has selection sets. *)
DepthBounded == IsFiniteSet(Sets) => Len(stack) <= Cardinality(Sets)

(* Calls on different sets are at most as many as the sets. *)
LEMMA InvDepth == Inv => DepthBounded
PROOF
  <1> SUFFICES ASSUME Inv, IsFiniteSet(Sets) PROVE Len(stack) <= Cardinality(Sets)
    BY DEF DepthBounded
  <1> DEFINE f == [k \in 1..Len(stack) |-> stack[k].set]
  <1>1. /\ Len(stack) \in Nat /\ stack \in Seq(FrameType) /\ DOMAIN stack = 1..Len(stack)
        /\ NoReentry /\ RootSets \subseteq Sets
    BY RootClosed DEF Inv, Shape
  <1>2. ASSUME NEW k \in 1..Len(stack) PROVE stack[k].set \in Sets
    <2>1. stack[k] \in FrameType
      BY <1>1
    <2> QED  BY <1>1, <2>1 DEF FrameType
  <1>3. f \in Injection(1..Len(stack), Sets)
    BY <1>1, <1>2 DEF NoReentry, Injection, IsInjective
  <1>4. Cardinality(1..Len(stack)) <= Cardinality(Sets)
    BY <1>3, FS_Injection
  <1>5. Cardinality(1..Len(stack)) = Len(stack)
    BY <1>1, FS_Interval
  <1> QED  BY <1>4, <1>5

(* Cyclic spreads cost no stack: the depth of the recursion is bounded by  *)
(* the document's own size.                                                *)
THEOREM WalkDepth == Spec => []DepthBounded
  BY Invariance, InvDepth, PTL
==============================================================================
