------------------------------ MODULE GameTree ------------------------------
(* The game tree of acs/gametree.py, its addresses (gametree_navigation.py)   *)
(* and its structural edits (gametree_editing.py, gametree_insertion.py).     *)
(*                                                                            *)
(* A path is a sequence of steps <<move, variation>>, from 1; a tree is a     *)
(* function from the paths of its lines to the lines.  A line is [moves, lead,*)
(* trail, result], a move [san, num, before, after, vars]: vars is how many   *)
(* variations (RAVs) replace the move, num says whether it carries a move     *)
(* number, the others are comments.  The code follows a line through an edit  *)
(* by the identity of the object; here an edit says of every line it keeps    *)
(* where that line goes.  A cursor is [path, next], next the number of moves  *)
(* of the line played before it.                                              *)
EXTENDS Integers, SequencesExt, FiniteSetsExt

CONSTANTS
    None,       \* no result of the line itself, or nowhere
    SanMoves,   \* moves
    Texts,      \* comments
    Results     \* results of a game

Steps == Nat \X Nat

Moves == [san : SanMoves, num : BOOLEAN, before : Seq(Texts), after : Seq(Texts), vars : Nat]

VariationLines ==
    [moves : Seq(Moves), lead : Seq(Texts), trail : Seq(Texts), result : Results \cup {None}]

Move(san, num, vars) == [san |-> san, num |-> num, before |-> <<>>, after |-> <<>>, vars |-> vars]

Line(moves, lead, result) == [moves |-> moves, lead |-> lead, trail |-> <<>>, result |-> result]

Cursor(path, next) == [path |-> path, next |-> next]

ASSUME NoneAssumption == None \notin [path : Seq(Steps), next : Nat]

-----------------------------------------------------------------------------
(* Addresses *)

Paths(tree) == DOMAIN tree

Parent(path) == Front(path)

Owner(path) == Last(path)[1]

Index(path) == Last(path)[2]

StepsFrom(line) == UNION {{<<i, v>> : v \in 1..line.moves[i].vars} : i \in DOMAIN line.moves}

Children(tree, path) == {Append(path, s) : s \in StepsFrom(tree[path])}

IsTree(tree) ==
    /\ <<>> \in Paths(tree)
    /\ Paths(tree) \subseteq Seq(Steps)
    /\ tree \in [Paths(tree) -> VariationLines]
    /\ \A p \in Paths(tree) :
          /\ Children(tree, p) \subseteq Paths(tree)
          /\ p # <<>> => Parent(p) \in Paths(tree) /\ p \in Children(tree, Parent(p))

Cursors(tree) == UNION {{Cursor(p, n) : n \in 0..Len(tree[p].moves)} : p \in Paths(tree)}

ValidCursor(tree, c) == c \in Cursors(tree)

Branches(tree) == Paths(tree) \ {<<>>}

OwnerMove(tree, path) == tree[Parent(path)].moves[Owner(path)]

AfterOwner(path) == Cursor(Parent(path), Owner(path))

WithLine(tree, path, line) ==
    [p \in Paths(tree) \cup {path} |-> IF p = path THEN line ELSE tree[p]]

-----------------------------------------------------------------------------
(* Edits: each gives the edited tree, and where every line it keeps goes *)

\* The lines below `parent' stay if they are in one of the variations that `roots'
\* gives a new address, and go there with it.
Goes(tree, parent, roots) ==
    [p \in {q \in Paths(tree) : \/ ~IsStrictPrefix(parent, q)
                                \/ \E r \in DOMAIN roots : IsPrefix(r, q)} |->
        IF ~IsStrictPrefix(parent, p) THEN p
        ELSE LET r == CHOOSE r \in DOMAIN roots : IsPrefix(r, p)
             IN  roots[r] \o SubSeq(p, Len(r) + 1, Len(p))]

\* The tree after an edit that leaves every line as it is, but `lines'.
Relocated(tree, goes, lines) ==
    [q \in Range(goes) \cup DOMAIN lines |->
        IF q \in DOMAIN lines THEN lines[q]
        ELSE tree[CHOOSE p \in DOMAIN goes : goes[p] = q]]

Edit(tree, parent, roots, lines) ==
    LET goes == Goes(tree, parent, roots)
    IN  [goes |-> goes, tree |-> Relocated(tree, goes, lines)]

\* A cursor stays on its line, wherever that line is now; a line that is gone
\* takes its cursors with it.
CursorRemap(edit, c) ==
    IF c.path \in DOMAIN edit.goes THEN Cursor(edit.goes[c.path], c.next) ELSE None

Order(n) == [v \in 1..n |-> v]

Place(order, v) == CHOOSE k \in DOMAIN order : order[k] = v

\* The variations of the move `owner' in another order, without those not in it.
Reseated(tree, parent, owner, order) ==
    [c \in {d \in Children(tree, parent) : Owner(d) = owner => Index(d) \in Range(order)} |->
        IF Owner(c) = owner THEN Append(parent, <<owner, Place(order, Index(c))>>) ELSE c]

WithVars(line, owner, n) == [line EXCEPT !.moves[owner].vars = n]

WithSiblings(tree, parent, owner, order, added) ==
    Edit(tree, parent, Reseated(tree, parent, owner, order),
         WithLine(added, parent, WithVars(tree[parent], owner, Len(order))))

ReorderVariation(tree, path, new) ==
    WithSiblings(tree, Parent(path), Owner(path),
        InsertAt(RemoveAt(Order(OwnerMove(tree, path).vars), Index(path)), new, Index(path)), <<>>)

DeleteVariation(tree, path) ==
    WithSiblings(tree, Parent(path), Owner(path),
        RemoveAt(Order(OwnerMove(tree, path).vars), Index(path)), <<>>)

Planted(variation, path) ==
    [q \in {path \o p : p \in Paths(variation)} |-> variation[SubSeq(q, Len(path) + 1, Len(q))]]

\* variation_insert_target: at move `owner' of the line, before variation `index'.
AddVariation(tree, parent, owner, index, variation) ==
    WithSiblings(tree, parent, owner,
        InsertAt(Order(tree[parent].moves[owner].vars), index, 0),
        Planted(variation, Append(parent, <<owner, index>>)))

ShiftPathLate(path, parent, owner, index) ==   \* variant: the displaced sibling stays
    LET n == Len(parent) + 1
    IN  IF /\ Len(path) >= n /\ SubSeq(path, 1, n - 1) = parent
           /\ path[n][1] = owner /\ path[n][2] > index
        THEN [path EXCEPT ![n] = <<owner, @[2] + 1>>]
        ELSE path

\* Insertion follows no lines: it renumbers the paths.
ShiftPath(path, parent, owner, index) ==
    LET n == Len(parent) + 1
    IN  IF /\ Len(path) >= n /\ SubSeq(path, 1, n - 1) = parent
           /\ path[n][1] = owner /\ path[n][2] >= index
        THEN [path EXCEPT ![n] = <<owner, @[2] + 1>>]
        ELSE path

-----------------------------------------------------------------------------
(* Promotion: the selected variation takes the place of the moves it replaces, *)
(* and they become the first of its variations.                                *)

Demoted(parent, owner) ==
    [moves |-> <<[parent.moves[owner] EXCEPT !.vars = 0]>>
                 \o SubSeq(parent.moves, owner + 1, Len(parent.moves)),
     lead |-> <<>>, trail |-> parent.trail, result |-> parent.result]

SiblingsLost(n, index) == <<0>>   \* variant

LeadLost(selected) == Head(selected.moves).before   \* variant

\* The demoted line is 0, the others have their old numbers.
SiblingsAfterPromotion(n, index) == <<0>> \o RemoveAt(Order(n), index)

CommentsBeforePromoted(selected) == selected.lead \o Head(selected.moves).before

Siblings(tree, path) == SiblingsAfterPromotion(OwnerMove(tree, path).vars, Index(path))

PromotedLine(tree, path) ==
    LET parent == tree[Parent(path)]
        selected == tree[path]
        first == [Head(selected.moves) EXCEPT
                    !.before = CommentsBeforePromoted(selected),
                    !.vars = Len(Siblings(tree, path)) + @]
    IN  [parent EXCEPT !.moves = SubSeq(@, 1, Owner(path) - 1) \o <<first>> \o Tail(selected.moves),
                       !.trail = selected.trail,
                       !.result = IF selected.result # None THEN selected.result ELSE @]

\* The step below the parent, or the two steps, to a variation c of the parent.
PromotedFromParent(tree, path, c) ==
    LET owner == Owner(path)
    IN  IF Owner(c) < owner THEN <<Last(c)>>
        ELSE IF Owner(c) = owner THEN <<<<owner, Place(Siblings(tree, path), Index(c))>>>>
        ELSE <<<<owner, 1>>, <<Owner(c) - owner + 1, Index(c)>>>>

\* The step below the parent to a variation c of the selected line.
PromotedFromSelected(tree, path, c) ==
    <<<<Owner(path) + Owner(c) - 1,
        Index(c) + (IF Owner(c) = 1 THEN Len(Siblings(tree, path)) ELSE 0)>>>>

PromotedRoots(tree, path) ==
    [c \in {d \in Children(tree, Parent(path)) \cup Children(tree, path) :
               Parent(d) = Parent(path) /\ Owner(d) = Owner(path)
                  => Index(d) \in Range(Siblings(tree, path))} |->
        Parent(path) \o IF Parent(c) = path THEN PromotedFromSelected(tree, path, c)
                        ELSE PromotedFromParent(tree, path, c)]

PromoteVariation(tree, path) ==
    Edit(tree, Parent(path), PromotedRoots(tree, path),
         WithLine(WithLine(<<>>, Append(Parent(path), <<Owner(path), 1>>),
                           Demoted(tree[Parent(path)], Owner(path))),
                  Parent(path), PromotedLine(tree, path)))

PromoteRemapShort(path, edit, c) ==   \* variant: the owning move is counted twice
    LET owner == Owner(path)
    IN  IF c.path = Parent(path)
        THEN IF c.next < owner THEN c
             ELSE Cursor(Append(c.path, <<owner, 1>>), c.next - owner)
        ELSE IF c.path = path THEN Cursor(Parent(path), owner - 1 + c.next)
        ELSE CursorRemap(edit, c)

\* The two lines the promotion takes apart have rules of their own.
PromoteRemap(path, edit, c) ==
    LET owner == Owner(path)
    IN  IF c.path = Parent(path)
        THEN IF c.next < owner THEN c
             ELSE Cursor(Append(c.path, <<owner, 1>>), c.next - owner + 1)
        ELSE IF c.path = path THEN Cursor(Parent(path), owner - 1 + c.next)
        ELSE CursorRemap(edit, c)

-----------------------------------------------------------------------------
(* The text form and the digest *)

\* What the digest of a record covers: move numbers are not part of it.
Unnumbered(tree) ==
    [p \in Paths(tree) |->
        [tree[p] EXCEPT !.moves = [i \in DOMAIN @ |-> [@[i] EXCEPT !.num = FALSE]]]]

\* What survives serialisation and the strict parser: trailing comments follow a
\* result, and a comment before a move follows its number.
RoundTrips(tree) ==
    /\ tree[<<>>].result # None
    /\ \A p \in Paths(tree) :
          /\ tree[p].trail # <<>> => tree[p].result # None
          /\ \A i \in DOMAIN tree[p].moves :
                tree[p].moves[i].before # <<>> => tree[p].moves[i].num

-----------------------------------------------------------------------------
(* What a cursor means *)

Sans(moves) == [i \in DOMAIN moves |-> moves[i].san]

\* The moves played from the start of the game to the start of a line.
Before(tree, path) ==
    LET before[n \in 0..Len(path)] ==
            IF n = 0 THEN <<>>
            ELSE before[n - 1]
                 \o Sans(SubSeq(tree[SubSeq(path, 1, n - 1)].moves, 1, path[n][1] - 1))
    IN  before[Len(path)]

\* The moves played from the start of the game to a cursor.
Played(tree, c) == Before(tree, c.path) \o Sans(SubSeq(tree[c.path].moves, 1, c.next))

Positions(tree) == {Played(tree, c) : c \in Cursors(tree)}

\* The positions inside one variation, after its first move.
PositionsUnder(tree, path) ==
    {Played(tree, c) : c \in {d \in Cursors(tree) : IsPrefix(path, d.path) /\ d # Cursor(path, 0)}}

CommentsOf(line) ==
    UNION ({Range(line.lead), Range(line.trail)} \cup
           {Range(line.moves[i].before) \cup Range(line.moves[i].after) : i \in DOMAIN line.moves})

Comments(tree) == UNION {CommentsOf(tree[p]) : p \in Paths(tree)}

Size(tree) == Cardinality(UNION {{<<p, i>> : i \in DOMAIN tree[p].moves} : p \in Paths(tree)})
=============================================================================
