--------------------------- MODULE PgnDocumentProofs ---------------------------
(* Proofs about PgnDocument and GameTree, for every document, every tree of     *)
(* whatever depth, and any number of edits and Saves: the workspace is sound,   *)
(* an edit keeps the place of the cursor and loses nothing it was not asked to, *)
(* and a command acts on the game it was shown for.                             *)
(*                                                                              *)
(* The edits are proved once, as grafts (Grafts, RelocatedIsTree,               *)
(* GraftKeepsPlayed); adding, reordering, deleting and promoting are shown to   *)
(* be grafts that keep the moves before the subtrees they carry.                *)
EXTENDS PgnDocument, SequenceTheorems, WellFoundedInduction, TLAPS

-----------------------------------------------------------------------------
(* Paths, without what is particular to a game: prefixes, concatenation, the last step. *)
(* Induction is over the numbers and for sets, so that the provers can apply it.    *)

\* Induction over the numbers for a set rather than a predicate: the form the provers
\* can apply.
LEMMA InductionOverNat ==
  ASSUME NEW S, 0 \in S, \A n \in Nat : n \in S => n + 1 \in S
  PROVE  \A n \in Nat : n \in S
<1>1. SUFFICES ASSUME Nat \ S # {} PROVE FALSE
  OBVIOUS
<1>2. \E m \in Nat \ S : \A k \in Nat \ S : ~(k < m)
  <2>1. \E m \in Nat \ S : \A k \in Nat \ S : ~(<<k, m>> \in OpToRel(<, Nat))
    BY <1>1, NatLessThanWellFounded, WFMin
  <2> QED
    BY <2>1 DEF OpToRel
<1>3. PICK m \in Nat \ S : \A k \in Nat \ S : ~(k < m)
  BY <1>2
<1>4. m # 0 /\ m - 1 \in Nat /\ m - 1 < m
  BY <1>3
<1>5. m - 1 \in S
  BY <1>3, <1>4
<1> QED
  BY <1>3, <1>4, <1>5

\* What concatenation does to paths: lengths, the prefix, and the rest.
LEMMA PathConcat ==
  ASSUME NEW r \in Seq(Steps), NEW t \in Seq(Steps)
  PROVE  /\ r \o t \in Seq(Steps)
         /\ Len(r \o t) = Len(r) + Len(t)
         /\ IsPrefix(r, r \o t)
         /\ SubSeq(r \o t, Len(r) + 1, Len(r \o t)) = t
         /\ SubSeq(r \o t, 1, Len(r)) = r
<1>1. r \o t \in Seq(Steps) /\ Len(r \o t) = Len(r) + Len(t)
  OBVIOUS
<1>2. SubSeq(r \o t, 1, Len(r)) = r
  OBVIOUS
<1>3. SubSeq(r \o t, Len(r) + 1, Len(r \o t)) = t
  OBVIOUS
<1>4. IsPrefix(r, r \o t)
  BY <1>1, <1>2 DEF IsPrefix
<1> QED
  BY <1>1, <1>2, <1>3, <1>4

\* A path that begins with r is r followed by the rest.
LEMMA PrefixOf ==
  ASSUME NEW r \in Seq(Steps), NEW p \in Seq(Steps), IsPrefix(r, p)
  PROVE  /\ SubSeq(p, Len(r) + 1, Len(p)) \in Seq(Steps)
         /\ p = r \o SubSeq(p, Len(r) + 1, Len(p))
<1>1. Len(r) <= Len(p) /\ r = SubSeq(p, 1, Len(r))
  BY DEF IsPrefix
<1>2. SubSeq(p, Len(r) + 1, Len(p)) \in Seq(Steps)
  OBVIOUS
<1>3. p = SubSeq(p, 1, Len(r)) \o SubSeq(p, Len(r) + 1, Len(p))
  <2>1. SubSeq(p, 1, Len(p)) = p
    BY SubSeqFull
  <2>2. 1 \in 1..Len(p) + 1 /\ Len(r) \in 1 - 1..Len(p) /\ Len(p) \in Len(r)..Len(p)
    BY <1>1
  <2>3. SubSeq(p, 1, Len(r)) \o SubSeq(p, Len(r) + 1, Len(p)) = SubSeq(p, 1, Len(p))
    BY <2>2, ConcatAdjacentSubSeq, Zenon
  <2> QED
    BY <2>1, <2>3, Zenon
<1> QED
  BY <1>1, <1>2, <1>3, Zenon

\* Of two prefixes of one path, the shorter is a prefix of the longer.
LEMMA Comparable ==
  ASSUME NEW a \in Seq(Steps), NEW b \in Seq(Steps), NEW p \in Seq(Steps),
         IsPrefix(a, p), IsPrefix(b, p), Len(a) <= Len(b)
  PROVE  IsPrefix(a, b)
BY DEF IsPrefix

\* The parent and the last step of a path made by one more step.
LEMMA FrontLast ==
  ASSUME NEW p \in Seq(Steps), NEW s \in Steps
  PROVE  /\ Append(p, s) \in Seq(Steps) /\ Append(p, s) # <<>>
         /\ Len(Append(p, s)) = Len(p) + 1
         /\ Parent(Append(p, s)) = p
         /\ Last(Append(p, s)) = s
BY DEF Parent, Front, Last

\* Every path but the main line's is its parent followed by its last step.
LEMMA FrontOf ==
  ASSUME NEW p \in Seq(Steps), p # <<>>
  PROVE  /\ Parent(p) \in Seq(Steps)
         /\ Last(p) \in Steps
         /\ Len(Parent(p)) = Len(p) - 1
         /\ p = Append(Parent(p), Last(p))
<1>1. PICK q \in Seq(Steps), s \in Steps : p = Append(q, s)
  BY SequenceEmptyOrAppend
<1> QED
  BY <1>1, FrontLast

\* Going one step further commutes with putting a path in front.
LEMMA AppendConcat ==
  ASSUME NEW r \in Seq(Steps), NEW t \in Seq(Steps), NEW s \in Steps
  PROVE  r \o Append(t, s) = Append(r \o t, s)
OBVIOUS

\* Two equal concatenations whose first parts are equally long agree part by part.
LEMMA ConcatCancel ==
  ASSUME NEW a \in Seq(Steps), NEW b \in Seq(Steps), NEW t \in Seq(Steps), NEW u \in Seq(Steps),
         a \o t = b \o u, Len(a) = Len(b)
  PROVE  a = b /\ t = u
<1>1. a = SubSeq(a \o t, 1, Len(a)) /\ b = SubSeq(b \o u, 1, Len(b))
  BY PathConcat
<1> QED
  BY <1>1, ConcatSimplifications

\* A prefix of a prefix is a prefix.
LEMMA PrefixTransitive ==
  ASSUME NEW a \in Seq(Steps), NEW b \in Seq(Steps), NEW p \in Seq(Steps),
         IsPrefix(a, b), IsPrefix(b, p)
  PROVE  IsPrefix(a, p)
BY DEF IsPrefix

-----------------------------------------------------------------------------
(* Before is a recursive function of the length of the path.  Here it becomes an    *)
(* equation for one more step.                                                      *)

\* What the k-th step of a path contributes: the moves of a line before the one it
\* replaces.
Stage(tree, path, k) == Sans(SubSeq(tree[SubSeq(path, 1, k - 1)].moves, 1, path[k][1] - 1))

\* f is the recursive function of Before, on the first n steps of a path.
IsBefore(tree, path, f, n) ==
    f = [k \in 0..n |-> IF k = 0 THEN <<>> ELSE f[k - 1] \o Stage(tree, path, k)]

\* The recursive function of Before exists, for every path length.
LEMMA BeforeExists ==
  ASSUME NEW tree, NEW path
  PROVE  \A n \in Nat : \E f : IsBefore(tree, path, f, n)
<1> DEFINE S == {n \in Nat : \E f : IsBefore(tree, path, f, n)}
<1>1. 0 \in S
  <2>1. IsBefore(tree, path, [k \in 0..0 |-> <<>>], 0)
    BY DEF IsBefore
  <2> QED
    BY <2>1
<1>2. ASSUME NEW n \in Nat, n \in S
      PROVE  n + 1 \in S
  <2>1. PICK f : IsBefore(tree, path, f, n)
    BY <1>2
  <2> DEFINE g == [k \in 0..n + 1 |-> IF k = n + 1 THEN f[n] \o Stage(tree, path, k) ELSE f[k]]
  <2>2. \A k \in 0..n + 1 : g[k] = IF k = 0 THEN <<>> ELSE g[k - 1] \o Stage(tree, path, k)
    <3> SUFFICES ASSUME NEW k \in 0..n + 1
                 PROVE  g[k] = IF k = 0 THEN <<>> ELSE g[k - 1] \o Stage(tree, path, k)
      OBVIOUS
    <3>1. CASE k = n + 1
      <4>1. k # 0 /\ k - 1 = n /\ n \in 0..n + 1 /\ n # n + 1
        BY <3>1
      <4>2. g[k] = f[n] \o Stage(tree, path, k) /\ g[n] = f[n]
        BY <3>1, <4>1
      <4> QED
        BY <4>1, <4>2, Zenon
    <3>2. CASE k # n + 1
      <4>1. k \in 0..n /\ g[k] = f[k] /\ (k # 0 => g[k - 1] = f[k - 1])
        BY <3>2
      <4>2. f[k] = IF k = 0 THEN <<>> ELSE f[k - 1] \o Stage(tree, path, k)
        BY <2>1, <4>1 DEF IsBefore
      <4> QED
        BY <4>1, <4>2, Zenon
    <3> QED
      BY <3>1, <3>2
  <2>3. IsBefore(tree, path, g, n + 1)
    BY <2>2, Zenon DEF IsBefore
  <2> QED
    BY <2>3
<1> HIDE DEF S
<1>3. \A n \in Nat : n \in S
  BY <1>1, <1>2, InductionOverNat
<1> QED
  BY <1>3 DEF S

\* Two such functions agree as far as their steps contribute the same moves.
LEMMA BeforeUnique ==
  ASSUME NEW tree, NEW p, NEW q, NEW f, NEW g, NEW n \in Nat, NEW m \in Nat,
         IsBefore(tree, p, f, n), IsBefore(tree, q, g, m), n <= m,
         \A k \in 1..n : Stage(tree, p, k) = Stage(tree, q, k)
  PROVE  f[n] = g[n]
<1> DEFINE S == {k \in Nat : k <= n => f[k] = g[k]}
<1>0. ASSUME NEW k \in 0..n
      PROVE  /\ f[k] = IF k = 0 THEN <<>> ELSE f[k - 1] \o Stage(tree, p, k)
             /\ g[k] = IF k = 0 THEN <<>> ELSE g[k - 1] \o Stage(tree, q, k)
  <2>1. k \in 0..m
    OBVIOUS
  <2> QED
    BY <2>1, Zenon DEF IsBefore
<1>1. 0 \in S
  BY <1>0
<1>2. ASSUME NEW k \in Nat, k \in S
      PROVE  k + 1 \in S
  BY <1>0, <1>2
<1> HIDE DEF S
<1>3. \A k \in Nat : k \in S
  BY <1>1, <1>2, InductionOverNat
<1> QED
  BY <1>3 DEF S

\* Before is the last value of such a function.
LEMMA BeforeIs ==
  ASSUME NEW tree, NEW path \in Seq(Steps)
  PROVE  \E f : IsBefore(tree, path, f, Len(path)) /\ Before(tree, path) = f[Len(path)]
<1>1. \E f : IsBefore(tree, path, f, Len(path))
  BY BeforeExists, SMTT(30)
<1>2. Before(tree, path) = (CHOOSE f : IsBefore(tree, path, f, Len(path)))[Len(path)]
  BY DEF Before, IsBefore, Stage
<1> QED
  BY <1>1, <1>2

\* The recursion of Before, one step at a time, instead of as a function of the length.
LEMMA BeforeEquation ==
  ASSUME NEW tree
  PROVE  /\ Before(tree, <<>>) = <<>>
         /\ \A p \in Seq(Steps), s \in Steps :
               Before(tree, Append(p, s)) =
                  Before(tree, p) \o Sans(SubSeq(tree[p].moves, 1, s[1] - 1))
<1>1. Before(tree, <<>>) = <<>>
  <2>1. PICK f : IsBefore(tree, <<>>, f, 0) /\ Before(tree, <<>>) = f[0]
    <3>1. <<>> \in Seq(Steps) /\ Len(<<>>) = 0
      OBVIOUS
    <3> QED
      BY <3>1, BeforeIs, Zenon
  <2> QED
    BY <2>1 DEF IsBefore
<1>2. ASSUME NEW p \in Seq(Steps), NEW s \in Steps
      PROVE  Before(tree, Append(p, s)) =
                Before(tree, p) \o Sans(SubSeq(tree[p].moves, 1, s[1] - 1))
  <2> DEFINE q == Append(p, s)
             n == Len(p)
  <2>0. q \in Seq(Steps) /\ Len(q) = n + 1 /\ n \in Nat
    OBVIOUS
  <2>1. PICK f : IsBefore(tree, p, f, n) /\ Before(tree, p) = f[n]
    BY BeforeIs
  <2>2. PICK g : IsBefore(tree, q, g, n + 1) /\ Before(tree, q) = g[n + 1]
    BY <2>0, BeforeIs
  <2>3. ASSUME NEW k \in 1..n
        PROVE  Stage(tree, p, k) = Stage(tree, q, k)
    <3>1. p[k] = q[k] /\ SubSeq(p, 1, k - 1) = SubSeq(q, 1, k - 1)
      OBVIOUS
    <3> QED
      BY <3>1 DEF Stage
  <2>4. g[n] = f[n]
    BY <2>0, <2>1, <2>2, <2>3, BeforeUnique
  <2>5. PICK k : k = n + 1
    OBVIOUS
  <2>6. /\ k \in 0..n + 1 /\ k # 0 /\ k - 1 = n
        /\ q[k] = s /\ SubSeq(q, 1, k - 1) = p
    BY <2>5
  <2> HIDE DEF q, n
  <2>7. g[k] = g[k - 1] \o Stage(tree, q, k)
    BY <2>2, <2>6, Zenon DEF IsBefore
  <2>8. Stage(tree, q, k) = Sans(SubSeq(tree[p].moves, 1, s[1] - 1))
    BY <2>6, Zenon DEF Stage
  <2> QED
    BY <2>1, <2>2, <2>4, <2>5, <2>6, <2>7, <2>8, Zenon DEF q
<1> QED
  BY <1>1, <1>2

-----------------------------------------------------------------------------
(* Trees                                                                            *)

\* The parts of a line, each of its type.
LEMMA LineTypes ==
  ASSUME NEW line \in VariationLines
  PROVE  /\ line.moves \in Seq(Moves) /\ line.lead \in Seq(Texts) /\ line.trail \in Seq(Texts)
         /\ line.result \in Results \cup {None}
         /\ DOMAIN line.moves = 1..Len(line.moves) /\ Len(line.moves) \in Nat
         /\ \A i \in 1..Len(line.moves) :
               /\ line.moves[i] \in Moves /\ line.moves[i].vars \in Nat
               /\ line.moves[i].san \in SanMoves
<1>1. /\ line.moves \in Seq(Moves) /\ line.lead \in Seq(Texts) /\ line.trail \in Seq(Texts)
      /\ line.result \in Results \cup {None}
  BY DEF VariationLines
<1>2. DOMAIN line.moves = 1..Len(line.moves) /\ Len(line.moves) \in Nat
  BY <1>1
<1>3. \A i \in 1..Len(line.moves) : line.moves[i] \in Moves
  BY <1>1
<1>4. \A m \in Moves : m.vars \in Nat /\ m.san \in SanMoves
  BY DEF Moves
<1> QED
  BY <1>1, <1>2, <1>3, <1>4

\* The steps from a line, without the union of sets.
LEMMA StepsFromIs ==
  ASSUME NEW line \in VariationLines
  PROVE  \A s : s \in StepsFrom(line) <=>
            /\ s \in Steps /\ s[1] \in 1..Len(line.moves)
            /\ s[2] \in 1..line.moves[s[1]].vars
<1>1. \A s : s \in StepsFrom(line) <=>
         \E i \in 1..Len(line.moves) : \E v \in 1..line.moves[i].vars : s = <<i, v>>
  <2>1. DOMAIN line.moves = 1..Len(line.moves)
    BY LineTypes
  <2>2. \A s : s \in StepsFrom(line) <=>
           \E i \in DOMAIN line.moves : \E v \in 1..line.moves[i].vars : s = <<i, v>>
    BY DEF StepsFrom
  <2> QED
    BY <2>1, <2>2, Zenon
<1>2. ASSUME NEW s, s \in StepsFrom(line)
      PROVE  /\ s \in Steps /\ s[1] \in 1..Len(line.moves)
             /\ s[2] \in 1..line.moves[s[1]].vars
  <2>0. PICK i \in 1..Len(line.moves) : \E v \in 1..line.moves[i].vars : s = <<i, v>>
    BY <1>1, <1>2
  <2>1. PICK v \in 1..line.moves[i].vars : s = <<i, v>>
    BY <2>0
  <2>2. i \in Nat /\ v \in Nat
    BY LineTypes
  <2>3. s \in Steps
    BY <2>1, <2>2 DEF Steps
  <2>4. s[1] = i /\ s[2] = v
    BY <2>1
  <2> QED
    BY <2>3, <2>4
<1>3. ASSUME NEW s \in Steps, s[1] \in 1..Len(line.moves), s[2] \in 1..line.moves[s[1]].vars
      PROVE  s \in StepsFrom(line)
  <2>1. s = <<s[1], s[2]>>
    BY DEF Steps
  <2> QED
    BY <1>1, <1>3, <2>1
<1> QED
  BY <1>2, <1>3

\* What IsTree says of a tree, step by step: every step from a line leads to a line,
\* and no line is without the line it was reached from.
LEMMA TreeFacts ==
  ASSUME NEW tree, IsTree(tree)
  PROVE  /\ <<>> \in Paths(tree)
         /\ \A p \in Paths(tree) : p \in Seq(Steps) /\ tree[p] \in VariationLines
         /\ \A p \in Paths(tree) : \A s \in StepsFrom(tree[p]) :
               s \in Steps /\ Append(p, s) \in Paths(tree)
         /\ \A p \in Seq(Steps), s \in Steps : Append(p, s) \in Paths(tree) =>
               p \in Paths(tree) /\ s \in StepsFrom(tree[p])
<1>1. \A p \in Paths(tree) : p \in Seq(Steps) /\ tree[p] \in VariationLines
  BY DEF IsTree
<1>2. ASSUME NEW p \in Paths(tree), NEW s \in StepsFrom(tree[p])
      PROVE  s \in Steps /\ Append(p, s) \in Paths(tree)
  <2>1. s \in Steps
    BY <1>1, StepsFromIs
  <2>2. Append(p, s) \in Children(tree, p)
    BY Zenon DEF Children
  <2> QED
    BY <2>1, <2>2 DEF IsTree
<1>3. ASSUME NEW p \in Seq(Steps), NEW s \in Steps, Append(p, s) \in Paths(tree)
      PROVE  p \in Paths(tree) /\ s \in StepsFrom(tree[p])
  <2> DEFINE q == Append(p, s)
  <2>1. q # <<>> /\ Parent(q) = p
    BY FrontLast
  <2>2. p \in Paths(tree) /\ q \in Children(tree, p)
    BY <1>3, <2>1 DEF IsTree
  <2>3. PICK s2 \in StepsFrom(tree[p]) : q = Append(p, s2)
    BY <2>2, Zenon DEF Children
  <2>4. s2 \in Steps
    BY <1>1, <2>2, StepsFromIs
  <2>5. s2 = s
    BY <2>3, <2>4, AppendInjective
  <2> QED
    BY <2>2, <2>5
<1>4. <<>> \in Paths(tree)
  BY DEF IsTree
<1> QED
  BY <1>1, <1>2, <1>3, <1>4

\* The converse
LEMMA TreeMade ==
  ASSUME NEW tree, tree = [p \in DOMAIN tree |-> tree[p]], <<>> \in Paths(tree),
         \A p \in Paths(tree) : p \in Seq(Steps) /\ tree[p] \in VariationLines,
         \A p \in Paths(tree) : \A s \in StepsFrom(tree[p]) : Append(p, s) \in Paths(tree),
         \A p \in Paths(tree) : p # <<>> =>
            Parent(p) \in Paths(tree) /\ Last(p) \in StepsFrom(tree[Parent(p)])
  PROVE  IsTree(tree)
<1>1. \A p \in Paths(tree) : Children(tree, p) \subseteq Paths(tree)
  BY Zenon DEF Children
<1>2. ASSUME NEW p \in Paths(tree), p # <<>>
      PROVE  Parent(p) \in Paths(tree) /\ p \in Children(tree, Parent(p))
  <2>1. p = Append(Parent(p), Last(p))
    BY <1>2, FrontOf
  <2>2. Parent(p) \in Paths(tree) /\ Last(p) \in StepsFrom(tree[Parent(p)])
    BY <1>2
  <2> QED
    BY <2>1, <2>2, Zenon DEF Children
<1>3. tree \in [Paths(tree) -> VariationLines]
  BY Zenon DEF Paths
<1> QED
  BY <1>1, <1>2, <1>3 DEF IsTree

\* A tree has every line on the way to one of its lines.
LEMMA PrefixClosed ==
  ASSUME NEW tree, IsTree(tree), NEW r \in Seq(Steps)
  PROVE  \A t \in Seq(Steps) : r \o t \in Paths(tree) => r \in Paths(tree)
<1> DEFINE S == {n \in Nat : \A t \in Seq(Steps) :
                    Len(t) = n /\ r \o t \in Paths(tree) => r \in Paths(tree)}
<1>1. 0 \in S
  <2> SUFFICES ASSUME NEW t \in Seq(Steps), Len(t) = 0, r \o t \in Paths(tree)
               PROVE  r \in Paths(tree)
    OBVIOUS
  <2>1. t = <<>>
    OBVIOUS
  <2>2. r \o t = r
    BY <2>1, ConcatEmptySeq
  <2> QED
    BY <2>2
<1>2. ASSUME NEW n \in Nat, n \in S
      PROVE  n + 1 \in S
  <2> SUFFICES ASSUME NEW t \in Seq(Steps), Len(t) = n + 1, r \o t \in Paths(tree)
               PROVE  r \in Paths(tree)
    OBVIOUS
  <2>1. t # <<>>
    OBVIOUS
  <2>2. PICK u \in Seq(Steps), s \in Steps : t = Append(u, s)
    BY <2>1, SequenceEmptyOrAppend
  <2>3. Len(u) = n
    BY <2>2
  <2>4. r \o t = Append(r \o u, s) /\ r \o u \in Seq(Steps)
    BY <2>2, AppendConcat, PathConcat
  <2>5. r \o u \in Paths(tree)
    BY <2>4, TreeFacts
  <2> QED
    BY <1>2, <2>3, <2>5
<1> HIDE DEF S
<1>3. \A n \in Nat : n \in S
  BY <1>1, <1>2, InductionOverNat
<1> QED
  BY <1>3 DEF S

-----------------------------------------------------------------------------
(* Grafting: every structural edit takes subtrees to new addresses below one line   *)
(* and sets a few lines anew.  When that is sound, and what it then keeps.          *)

\* A strict prefix is a shorter one.
LEMMA StrictPrefix ==
  ASSUME NEW a \in Seq(Steps), NEW b \in Seq(Steps)
  PROVE  IsStrictPrefix(a, b) <=> IsPrefix(a, b) /\ Len(a) < Len(b)
<1>1. IsPrefix(a, b) => Len(a) <= Len(b) /\ SubSeq(b, 1, Len(a)) = a
  BY DEF IsPrefix
<1>2. IsPrefix(a, b) /\ Len(a) = Len(b) => a = b
  BY <1>1
<1> QED
  BY <1>1, <1>2 DEF IsStrictPrefix

\* A strict prefix of r stays one however r is continued.
LEMMA PrefixOfConcat ==
  ASSUME NEW a \in Seq(Steps), NEW r \in Seq(Steps), NEW t \in Seq(Steps), IsStrictPrefix(a, r)
  PROVE  IsStrictPrefix(a, r \o t)
<1>1. IsPrefix(a, r) /\ Len(a) < Len(r)
  BY StrictPrefix
<1>2. r \o t \in Seq(Steps) /\ IsPrefix(r, r \o t) /\ Len(r) <= Len(r \o t)
  BY PathConcat
<1>3. IsPrefix(a, r \o t)
  BY <1>1, <1>2, PrefixTransitive, Zenon
<1>4. Len(a) < Len(r \o t)
  BY <1>1, <1>2
<1> QED
  BY <1>2, <1>3, <1>4, StrictPrefix, Zenon

\* The prefixes of a path one step longer.
LEMMA PrefixOfAppend ==
  ASSUME NEW a \in Seq(Steps), NEW p \in Seq(Steps), NEW s \in Steps
  PROVE  /\ IsPrefix(a, Append(p, s)) <=> IsPrefix(a, p) \/ a = Append(p, s)
         /\ IsStrictPrefix(a, Append(p, s)) <=> IsPrefix(a, p)
<1>0. Append(p, s) \in Seq(Steps) /\ Len(Append(p, s)) = Len(p) + 1
  BY FrontLast
<1>1. IsPrefix(a, p) => IsPrefix(a, Append(p, s))
  BY DEF IsPrefix
<1>2. IsPrefix(a, Append(p, s)) /\ Len(a) # Len(p) + 1 => IsPrefix(a, p)
  BY DEF IsPrefix
<1>3. IsPrefix(a, Append(p, s)) /\ Len(a) = Len(p) + 1 => a = Append(p, s)
  <2> SUFFICES ASSUME IsPrefix(a, Append(p, s)), Len(a) = Len(p) + 1
               PROVE  a = Append(p, s)
    OBVIOUS
  <2>1. ~(Len(a) < Len(Append(p, s)))
    BY <1>0
  <2> QED
    BY <1>0, <2>1, StrictPrefix, Zenon DEF IsStrictPrefix
<1>4. a = Append(p, s) => IsPrefix(a, Append(p, s)) /\ Len(a) = Len(p) + 1
  BY <1>0 DEF IsPrefix
<1>5. IsPrefix(a, p) => Len(a) <= Len(p)
  BY DEF IsPrefix
<1>6. IsPrefix(a, Append(p, s)) <=> IsPrefix(a, p) \/ a = Append(p, s)
  BY <1>1, <1>2, <1>3, <1>4, Zenon
<1>7. IsStrictPrefix(a, Append(p, s)) <=> IsPrefix(a, Append(p, s)) /\ Len(a) < Len(p) + 1
  BY <1>0, StrictPrefix, Zenon
<1>8. Len(a) <= Len(p) => Len(a) < Len(p) + 1 /\ Len(a) # Len(p) + 1
  OBVIOUS
<1>9. Len(a) < Len(p) + 1 => Len(a) # Len(p) + 1
  OBVIOUS
<1> QED
  BY <1>2, <1>5, <1>6, <1>7, <1>8, <1>9, Zenon

\* A path is a prefix of itself.
LEMMA PrefixItself ==
  ASSUME NEW a \in Seq(Steps)
  PROVE  IsPrefix(a, a)
BY DEF IsPrefix

\* When an edit below P can be carried out: the subtrees at `roots' go to separate
\* places below P, `lines' are given anew, and together they leave neither a gap nor a
\* stray line.
Grafts(tree, P, roots, lines) ==
    /\ IsTree(tree) /\ P \in Paths(tree)
    /\ \A r \in DOMAIN roots : /\ r \in Paths(tree) /\ IsStrictPrefix(P, r)
                               /\ roots[r] \in Seq(Steps) /\ IsStrictPrefix(P, roots[r])
    /\ \A r1, r2 \in DOMAIN roots :
          IsPrefix(r1, r2) \/ IsPrefix(roots[r1], roots[r2]) => r1 = r2
    /\ P \in DOMAIN lines
    /\ \A q \in DOMAIN lines :
          /\ q \in Seq(Steps) /\ lines[q] \in VariationLines
          /\ q # P => IsStrictPrefix(P, q) /\ \A r \in DOMAIN roots : ~IsPrefix(roots[r], q)
          /\ \A s \in StepsFrom(lines[q]) : Append(q, s) \in DOMAIN lines \cup Range(roots)
    /\ \A q \in (DOMAIN lines \ {P}) \cup Range(roots) :
          Parent(q) \in DOMAIN lines /\ Last(q) \in StepsFrom(lines[Parent(q)])

\* What `goes' does: lines outside stay, the subtrees move with their roots, the rest
\* is gone.
Carried(tree, P, roots, goes) ==
    /\ P \in Seq(Steps)
    /\ \A r \in DOMAIN roots : r \in Seq(Steps) /\ roots[r] \in Seq(Steps)
    /\ \A p \in Paths(tree) : ~IsStrictPrefix(P, p) => p \in DOMAIN goes /\ goes[p] = p
    /\ \A r \in DOMAIN roots, u \in Seq(Steps) :
          r \o u \in Paths(tree) => r \o u \in DOMAIN goes /\ goes[r \o u] = roots[r] \o u
    /\ \A p \in DOMAIN goes :
          /\ p \in Paths(tree)
          /\ IsStrictPrefix(P, p) => \E r \in DOMAIN roots, u \in Seq(Steps) : p = r \o u

\* Goes carries the lines that way, so its CHOOSE has one candidate.
LEMMA GoesFacts ==
  ASSUME NEW tree, NEW P, NEW roots, NEW lines, Grafts(tree, P, roots, lines),
         NEW goes, goes = Goes(tree, P, roots)
  PROVE  Carried(tree, P, roots, goes)
<1>1. P \in Seq(Steps) /\ \A p \in Paths(tree) : p \in Seq(Steps)
  BY TreeFacts DEF Grafts
<1>2. \A r \in DOMAIN roots : /\ r \in Seq(Steps) /\ roots[r] \in Seq(Steps)
                              /\ IsStrictPrefix(P, r)
  BY <1>1 DEF Grafts
<1>3. \A p : p \in DOMAIN goes <=>
         p \in Paths(tree) /\ (~IsStrictPrefix(P, p) \/ \E r \in DOMAIN roots : IsPrefix(r, p))
  BY DEF Goes
<1>4. \A p \in DOMAIN goes : ~IsStrictPrefix(P, p) => goes[p] = p
  BY Zenon DEF Goes
<1>5. ASSUME NEW r \in DOMAIN roots, NEW u \in Seq(Steps), r \o u \in Paths(tree)
      PROVE  r \o u \in DOMAIN goes /\ goes[r \o u] = roots[r] \o u
  <2> DEFINE p == r \o u
  <2>1. /\ p \in Seq(Steps) /\ IsPrefix(r, p) /\ IsStrictPrefix(P, p)
        /\ SubSeq(p, Len(r) + 1, Len(p)) = u
    BY <1>1, <1>2, PathConcat, PrefixOfConcat
  <2>2. p \in DOMAIN goes
    BY <1>3, <1>5, <2>1, Zenon
  <2>3. ASSUME NEW r2 \in DOMAIN roots, IsPrefix(r2, p)
        PROVE  r2 = r
    <3>1. Len(r) <= Len(r2) \/ Len(r2) <= Len(r)
      BY <1>2
    <3>2. IsPrefix(r, r2) \/ IsPrefix(r2, r)
      BY <1>2, <2>1, <2>3, <3>1, Comparable, Zenon
    <3> QED
      BY <3>2 DEF Grafts
  <2> HIDE DEF p
  <2>4. (CHOOSE x \in DOMAIN roots : IsPrefix(x, p)) = r
    BY <2>1, <2>3
  <2>5. goes[p] = LET x == CHOOSE x \in DOMAIN roots : IsPrefix(x, p)
                  IN  roots[x] \o SubSeq(p, Len(x) + 1, Len(p))
    BY <2>1, <2>2, Zenon DEF Goes
  <2>6. goes[p] = roots[r] \o u
    BY <2>1, <2>4, <2>5
  <2> QED
    BY <2>2, <2>6 DEF p
<1>6. ASSUME NEW p \in DOMAIN goes, IsStrictPrefix(P, p)
      PROVE  \E r \in DOMAIN roots, u \in Seq(Steps) : p = r \o u
  <2>1. PICK r \in DOMAIN roots : IsPrefix(r, p)
    BY <1>3, <1>6
  <2>2. p \in Seq(Steps) /\ r \in Seq(Steps)
    BY <1>1, <1>2, <1>3
  <2> QED
    BY <2>1, <2>2, PrefixOf
<1> QED
  BY <1>1, <1>2, <1>3, <1>4, <1>5, <1>6, Zenon DEF Carried

\* What `goes' never does: take a line in or out from below P, onto a line given anew,
\* or two lines to one address.
CarriedOne(P, lines, goes) ==
    /\ \A a \in DOMAIN goes :
          /\ goes[a] \in Seq(Steps)
          /\ IsStrictPrefix(P, goes[a]) <=> IsStrictPrefix(P, a)
          /\ goes[a] \in DOMAIN lines => a = P
    /\ \A a, b \in DOMAIN goes : goes[a] = goes[b] => a = b

\* No two lines are ever sent to the same address.
LEMMA GoesOne ==
  ASSUME NEW tree, NEW P, NEW roots, NEW lines, Grafts(tree, P, roots, lines),
         NEW goes, goes = Goes(tree, P, roots)
  PROVE  CarriedOne(P, lines, goes)
<1>0. Carried(tree, P, roots, goes)
  BY GoesFacts
<1>1. ASSUME NEW a \in DOMAIN goes, IsStrictPrefix(P, a)
      PROVE  \E r \in DOMAIN roots, u \in Seq(Steps) :
                /\ a = r \o u /\ goes[a] = roots[r] \o u
                /\ goes[a] \in Seq(Steps) /\ IsStrictPrefix(P, goes[a])
                /\ IsPrefix(roots[r], goes[a])
  <2>1. PICK r \in DOMAIN roots, u \in Seq(Steps) : a = r \o u
    BY <1>0, <1>1 DEF Carried
  <2>2. goes[a] = roots[r] \o u /\ roots[r] \in Seq(Steps) /\ P \in Seq(Steps)
    BY <1>0, <1>1, <2>1, Zenon DEF Carried
  <2>3. IsStrictPrefix(P, roots[r])
    BY DEF Grafts
  <2>4. IsStrictPrefix(P, goes[a])
    BY <2>2, <2>3, PrefixOfConcat
  <2>5. goes[a] \in Seq(Steps) /\ IsPrefix(roots[r], goes[a])
    BY <2>2, PathConcat
  <2> QED
    BY <2>1, <2>2, <2>4, <2>5
<1>2. \A a \in DOMAIN goes : ~IsStrictPrefix(P, a) => goes[a] = a /\ a \in Seq(Steps)
  <2>1. \A p \in Paths(tree) : p \in Seq(Steps)
    BY TreeFacts DEF Grafts
  <2> QED
    BY <1>0, <2>1, Zenon DEF Carried
<1>3. ASSUME NEW a \in DOMAIN goes, goes[a] \in DOMAIN lines
      PROVE  a = P
  <2>1. CASE IsStrictPrefix(P, a)
    <3>1. PICK r \in DOMAIN roots, u \in Seq(Steps) :
             IsPrefix(roots[r], goes[a]) /\ IsStrictPrefix(P, goes[a])
      BY <1>1, <2>1
    <3>2. goes[a] # P
      BY <3>1 DEF IsStrictPrefix
    <3> QED
      BY <1>3, <3>1, <3>2, Zenon DEF Grafts
  <2>2. CASE ~IsStrictPrefix(P, a)
    BY <1>2, <1>3, <2>2 DEF Grafts
  <2> QED
    BY <2>1, <2>2
<1>4. ASSUME NEW a \in DOMAIN goes, NEW b \in DOMAIN goes, goes[a] = goes[b]
      PROVE  a = b
  <2>1. IsStrictPrefix(P, a) <=> IsStrictPrefix(P, b)
    BY <1>1, <1>2, <1>4, Zenon
  <2>2. CASE IsStrictPrefix(P, a)
    <3>1. PICK r \in DOMAIN roots, u \in Seq(Steps) :
             a = r \o u /\ goes[a] = roots[r] \o u /\ IsPrefix(roots[r], goes[a])
      BY <1>1, <2>2
    <3>2. PICK r2 \in DOMAIN roots, u2 \in Seq(Steps) :
             b = r2 \o u2 /\ goes[b] = roots[r2] \o u2 /\ IsPrefix(roots[r2], goes[b])
      BY <1>1, <2>1, <2>2
    <3>3. /\ roots[r] \in Seq(Steps) /\ roots[r2] \in Seq(Steps) /\ goes[a] \in Seq(Steps)
          /\ r \in Seq(Steps) /\ r2 \in Seq(Steps)
      BY <1>0, <1>1, <2>2 DEF Carried
    <3>4. Len(roots[r]) <= Len(roots[r2]) \/ Len(roots[r2]) <= Len(roots[r])
      BY <3>3
    <3>5. IsPrefix(roots[r], roots[r2]) \/ IsPrefix(roots[r2], roots[r])
      BY <1>4, <3>1, <3>2, <3>3, <3>4, Comparable, Zenon
    <3>6. r = r2
      BY <3>5 DEF Grafts
    <3>7. roots[r] \o u = roots[r] \o u2
      BY <1>4, <3>1, <3>2, <3>6
    <3>8. u = u2
      BY <3>3, <3>7, ConcatCancel, Zenon
    <3> QED
      BY <3>1, <3>2, <3>6, <3>8
  <2>3. CASE ~IsStrictPrefix(P, a)
    BY <1>2, <1>4, <2>1, <2>3
  <2> QED
    BY <2>2, <2>3
<1>5. \A a \in DOMAIN goes : /\ goes[a] \in Seq(Steps)
                             /\ IsStrictPrefix(P, goes[a]) <=> IsStrictPrefix(P, a)
  BY <1>1, <1>2, Zenon
<1> QED
  BY <1>3, <1>4, <1>5 DEF CarriedOne

\* The edited tree: the lines given anew, and every other line unchanged at its new
\* address.
Kept(tree, P, lines, goes, t) ==
    /\ t = [p \in DOMAIN t |-> t[p]]
    /\ \A q : q \in Paths(t) <=> q \in DOMAIN lines \/ \E a \in DOMAIN goes : q = goes[a]
    /\ \A q \in DOMAIN lines : t[q] = lines[q]
    /\ \A a \in DOMAIN goes : a # P =>
          goes[a] \notin DOMAIN lines /\ t[goes[a]] = tree[a]

\* Relocated gives that tree, so its CHOOSE has one candidate too.
LEMMA RelocatedFacts ==
  ASSUME NEW tree, NEW P, NEW roots, NEW lines, Grafts(tree, P, roots, lines),
         NEW goes, goes = Goes(tree, P, roots),
         NEW t, t = Relocated(tree, goes, lines)
  PROVE  Kept(tree, P, lines, goes, t)
<1>0. CarriedOne(P, lines, goes)
  BY GoesOne
<1>1. t = [q \in Range(goes) \cup DOMAIN lines |->
             IF q \in DOMAIN lines THEN lines[q]
             ELSE tree[CHOOSE p \in DOMAIN goes : goes[p] = q]]
  BY Zenon DEF Relocated
<1>2. DOMAIN t = Range(goes) \cup DOMAIN lines
  BY <1>1
<1>3. \A q : q \in Range(goes) <=> \E a \in DOMAIN goes : q = goes[a]
  BY DEF Range
<1>4. \A q \in DOMAIN lines : t[q] = lines[q]
  BY <1>1
<1>5. ASSUME NEW a \in DOMAIN goes, a # P
      PROVE  goes[a] \notin DOMAIN lines /\ t[goes[a]] = tree[a]
  <2>1. goes[a] \notin DOMAIN lines
    BY <1>0, <1>5 DEF CarriedOne
  <2>2. (CHOOSE p \in DOMAIN goes : goes[p] = goes[a]) = a
    BY <1>0 DEF CarriedOne
  <2>3. goes[a] \in Range(goes)
    BY <1>3
  <2>4. t[goes[a]] = tree[CHOOSE p \in DOMAIN goes : goes[p] = goes[a]]
    BY <1>1, <2>1, <2>3, Zenon
  <2> QED
    BY <2>1, <2>2, <2>4
<1>6. t = [p \in DOMAIN t |-> t[p]]
  BY <1>1
<1> QED
  BY <1>2, <1>3, <1>4, <1>5, <1>6, Zenon DEF Paths, Kept

\* Outside of the edited line nothing moves.
OutsideAt(tree, P, goes, p, s) ==
    /\ p \in DOMAIN goes /\ goes[p] = p /\ p # P
    /\ Append(p, s) \in DOMAIN goes /\ goes[Append(p, s)] = Append(p, s)
    /\ ~IsStrictPrefix(P, p)
    /\ s \in StepsFrom(tree[p])

\* Below the lines that stay, the steps stay.
LEMMA Outside ==
  ASSUME NEW tree, NEW P, NEW roots, NEW lines, Grafts(tree, P, roots, lines),
         NEW goes, goes = Goes(tree, P, roots)
  PROVE  \A p \in Seq(Steps), s \in Steps :
            Append(p, s) \in Paths(tree) /\ ~IsStrictPrefix(P, Append(p, s))
               => OutsideAt(tree, P, goes, p, s)
<1> SUFFICES ASSUME NEW p \in Seq(Steps), NEW s \in Steps, Append(p, s) \in Paths(tree),
                    ~IsStrictPrefix(P, Append(p, s))
             PROVE  OutsideAt(tree, P, goes, p, s)
  OBVIOUS
<1>0. Carried(tree, P, roots, goes)
  BY GoesFacts
<1>1. IsTree(tree) /\ P \in Seq(Steps)
  BY TreeFacts DEF Grafts
<1>2. p \in Paths(tree) /\ s \in StepsFrom(tree[p])
  BY <1>1, TreeFacts
<1>3. ~IsPrefix(P, p)
  BY <1>1, PrefixOfAppend, Zenon
<1>4. p # P
  BY <1>1, <1>3, PrefixItself
<1>5. ~IsStrictPrefix(P, p)
  BY <1>3 DEF IsStrictPrefix
<1> QED
  BY <1>0, <1>2, <1>4, <1>5, Zenon DEF Carried, OutsideAt

\* Inside a variation everything goes along with it.
InsideAt(tree, P, roots, goes, r, u, s) ==
    /\ r \o u \in DOMAIN goes /\ goes[r \o u] = roots[r] \o u /\ r \o u # P
    /\ r \o Append(u, s) \in DOMAIN goes
    /\ goes[r \o Append(u, s)] = Append(roots[r] \o u, s)
    /\ r \o Append(u, s) = Append(r \o u, s)
    /\ roots[r] \o Append(u, s) = Append(roots[r] \o u, s)
    /\ r \o u \in Seq(Steps) /\ roots[r] \o u \in Seq(Steps)
    /\ s \in StepsFrom(tree[r \o u])

\* Below the subtrees that move, the steps move with them.
LEMMA Inside ==
  ASSUME NEW tree, NEW P, NEW roots, NEW lines, Grafts(tree, P, roots, lines),
         NEW goes, goes = Goes(tree, P, roots)
  PROVE  \A r \in DOMAIN roots, u \in Seq(Steps), s \in Steps :
            r \o Append(u, s) \in Paths(tree) => InsideAt(tree, P, roots, goes, r, u, s)
<1> SUFFICES ASSUME NEW r \in DOMAIN roots, NEW u \in Seq(Steps), NEW s \in Steps,
                    r \o Append(u, s) \in Paths(tree)
             PROVE  InsideAt(tree, P, roots, goes, r, u, s)
  OBVIOUS
<1>0. Carried(tree, P, roots, goes)
  BY GoesFacts
<1>1. IsTree(tree) /\ P \in Seq(Steps) /\ r \in Seq(Steps) /\ roots[r] \in Seq(Steps)
  BY <1>0, Zenon DEF Grafts, Carried
<1>2. /\ r \o Append(u, s) = Append(r \o u, s) /\ r \o u \in Seq(Steps)
      /\ roots[r] \o Append(u, s) = Append(roots[r] \o u, s) /\ roots[r] \o u \in Seq(Steps)
  BY <1>1, AppendConcat, PathConcat
<1>3. r \o u \in Paths(tree) /\ s \in StepsFrom(tree[r \o u])
  <2> DEFINE p == r \o u
  <2>1. p \in Seq(Steps) /\ Append(p, s) \in Paths(tree)
    BY <1>2
  <2> HIDE DEF p
  <2>2. p \in Paths(tree) /\ s \in StepsFrom(tree[p])
    BY <1>1, <2>1, TreeFacts
  <2> QED
    BY <2>2 DEF p
<1>4. r \o u # P
  <2>1. IsStrictPrefix(P, r)
    BY DEF Grafts
  <2>2. IsStrictPrefix(P, r \o u)
    BY <1>1, <2>1, PrefixOfConcat
  <2> QED
    BY <2>2 DEF IsStrictPrefix
<1>5. Append(u, s) \in Seq(Steps)
  OBVIOUS
<1>6. \A v \in Seq(Steps) :
         r \o v \in Paths(tree) => r \o v \in DOMAIN goes /\ goes[r \o v] = roots[r] \o v
  BY <1>0, Zenon DEF Carried
<1> QED
  BY <1>2, <1>3, <1>4, <1>5, <1>6, Zenon DEF InsideAt

\* The edit gives a tree: no line is lost on the way to another and every variation
\* count is right.
THEOREM RelocatedIsTree ==
  ASSUME NEW tree, NEW P, NEW roots, NEW lines, Grafts(tree, P, roots, lines),
         NEW goes, goes = Goes(tree, P, roots),
         NEW t, t = Relocated(tree, goes, lines)
  PROVE  IsTree(t)
<1>C. Carried(tree, P, roots, goes) /\ CarriedOne(P, lines, goes)
  BY GoesFacts, GoesOne
<1>K. Kept(tree, P, lines, goes, t)
  BY RelocatedFacts
<1>T. IsTree(tree) /\ P \in Paths(tree) /\ P \in DOMAIN lines
  BY Zenon DEF Grafts
<1>0. /\ P \in Seq(Steps)
      /\ \A p \in Paths(tree) : p \in Seq(Steps)
      /\ \A a \in DOMAIN goes : a \in Paths(tree) /\ goes[a] \in Seq(Steps)
      /\ \A r \in DOMAIN roots : r \in Seq(Steps) /\ roots[r] \in Seq(Steps) /\ r \in Paths(tree)
  <2>1. \A p \in Paths(tree) : p \in Seq(Steps)
    BY <1>T, TreeFacts
  <2>2. \A r \in DOMAIN roots : r \in Paths(tree)
    BY Zenon DEF Grafts
  <2> QED
    BY <1>C, <2>1, <2>2, Zenon DEF Carried, CarriedOne
<1>1. /\ t = [p \in DOMAIN t |-> t[p]]
      /\ \A q : q \in Paths(t) <=> q \in DOMAIN lines \/ \E a \in DOMAIN goes : q = goes[a]
      /\ \A q \in DOMAIN lines : t[q] = lines[q]
      /\ \A a \in DOMAIN goes : a # P => goes[a] \notin DOMAIN lines /\ t[goes[a]] = tree[a]
  BY <1>K, Zenon DEF Kept
<1>I. \A r \in DOMAIN roots, u \in Seq(Steps), s \in Steps :
         r \o Append(u, s) \in Paths(tree) => InsideAt(tree, P, roots, goes, r, u, s)
  BY Inside
<1>O. \A p \in Seq(Steps), s \in Steps :
         Append(p, s) \in Paths(tree) /\ ~IsStrictPrefix(P, Append(p, s))
            => OutsideAt(tree, P, goes, p, s)
  BY Outside
<1>2. \A p \in Paths(tree) : ~IsStrictPrefix(P, p) => p \in DOMAIN goes /\ goes[p] = p
  BY <1>C, Zenon DEF Carried
<1>3. goes[P] = P /\ P \in DOMAIN goes
  BY <1>T, <1>2 DEF IsStrictPrefix
<1>4. <<>> \in Paths(t)
  <2>1. <<>> \in Paths(tree) /\ <<>> \in Seq(Steps) /\ Len(<<>>) = 0 /\ Len(P) \in Nat
    BY <1>0, <1>T, TreeFacts
  <2>2. ~IsStrictPrefix(P, <<>>)
    BY <1>0, <2>1, StrictPrefix
  <2> QED
    BY <1>1, <1>2, <2>1, <2>2, Zenon
<1>5. ASSUME NEW r \in DOMAIN roots
      PROVE  r \in DOMAIN goes /\ goes[r] = roots[r]
  <2>1. r \o <<>> = r /\ roots[r] \o <<>> = roots[r] /\ <<>> \in Seq(Steps)
    BY <1>0, ConcatEmptySeq
  <2>2. \A v \in Seq(Steps) :
           r \o v \in Paths(tree) => r \o v \in DOMAIN goes /\ goes[r \o v] = roots[r] \o v
    BY <1>C, Zenon DEF Carried
  <2> QED
    BY <1>0, <2>1, <2>2
<1>6. \A q \in Paths(t) : \/ q \in DOMAIN lines
                          \/ q \notin DOMAIN lines /\ \E a \in DOMAIN goes : a # P /\ q = goes[a]
  <2> SUFFICES ASSUME NEW q \in Paths(t), q \notin DOMAIN lines
               PROVE  \E a \in DOMAIN goes : a # P /\ q = goes[a]
    OBVIOUS
  <2>1. PICK a \in DOMAIN goes : q = goes[a]
    BY <1>1
  <2>2. a # P
    BY <1>3, <1>T, <2>1
  <2> QED
    BY <2>1, <2>2
<1>7. \A q \in DOMAIN lines : q \in Seq(Steps) /\ lines[q] \in VariationLines
  BY DEF Grafts
<1>8. ASSUME NEW q \in Paths(t)
      PROVE  q \in Seq(Steps) /\ t[q] \in VariationLines
  <2>1. CASE q \in DOMAIN lines
    BY <1>1, <1>7, <2>1
  <2>2. CASE \E a \in DOMAIN goes : a # P /\ q = goes[a]
    BY <1>0, <1>1, <1>T, <2>2, TreeFacts
  <2> QED
    BY <1>6, <2>1, <2>2
<1>9. \A a \in DOMAIN goes : IsStrictPrefix(P, a) =>
         \E r \in DOMAIN roots, u \in Seq(Steps) : a = r \o u
  BY <1>C, Zenon DEF Carried
<1>10. ASSUME NEW q \in Paths(t), NEW s \in StepsFrom(t[q])
       PROVE  Append(q, s) \in Paths(t)
  <2>1. CASE q \in DOMAIN lines
    <3>1. Append(q, s) \in DOMAIN lines \cup Range(roots)
      BY <1>1, <2>1 DEF Grafts
    <3>2. \A x \in Range(roots) : \E r \in DOMAIN roots : x = roots[r]
      BY DEF Range
    <3> QED
      BY <1>1, <1>5, <3>1, <3>2
  <2>2. CASE \E a \in DOMAIN goes : a # P /\ q = goes[a]
    <3>1. PICK a \in DOMAIN goes : a # P /\ q = goes[a]
      BY <2>2
    <3>2. s \in StepsFrom(tree[a]) /\ a \in Paths(tree) /\ a \in Seq(Steps)
      BY <1>0, <1>1, <3>1
    <3>3. s \in Steps /\ Append(a, s) \in Paths(tree)
      BY <1>T, <3>2, TreeFacts
    <3>4. CASE ~IsStrictPrefix(P, a)
      <4>1. ~IsPrefix(P, a)
        BY <3>1, <3>4 DEF IsStrictPrefix
      <4>2. ~IsStrictPrefix(P, Append(a, s))
        BY <1>0, <3>2, <3>3, <4>1, PrefixOfAppend
      <4> QED
        BY <1>1, <1>2, <3>1, <3>2, <3>3, <3>4, <4>2, Zenon
    <3>5. CASE IsStrictPrefix(P, a)
      <4>1. PICK r \in DOMAIN roots, u \in Seq(Steps) : a = r \o u
        BY <1>9, <3>5
      <4>2. r \o Append(u, s) = Append(a, s)
        BY <1>0, <3>3, <4>1, AppendConcat
      <4>3. /\ goes[a] = roots[r] \o u
            /\ Append(a, s) \in DOMAIN goes
            /\ goes[Append(a, s)] = Append(roots[r] \o u, s)
        <5>1. r \o Append(u, s) \in Paths(tree)
          BY <3>3, <4>2
        <5>2. InsideAt(tree, P, roots, goes, r, u, s)
          BY <1>I, <3>3, <5>1, Zenon
        <5> QED
          BY <4>1, <4>2, <5>2 DEF InsideAt
      <4> QED
        BY <1>1, <3>1, <4>3, ZenonT(30)
    <3> QED
      BY <3>4, <3>5
  <2> QED
    BY <1>6, <2>1, <2>2
<1>11. ASSUME NEW q \in Paths(t), q # <<>>
       PROVE  Parent(q) \in Paths(t) /\ Last(q) \in StepsFrom(t[Parent(q)])
  <2>1. ASSUME q \in (DOMAIN lines \ {P}) \cup Range(roots)
        PROVE  Parent(q) \in Paths(t) /\ Last(q) \in StepsFrom(t[Parent(q)])
    <3>1. Parent(q) \in DOMAIN lines /\ Last(q) \in StepsFrom(lines[Parent(q)])
      BY <2>1 DEF Grafts
    <3> QED
      BY <1>1, <3>1
  <2>2. ASSUME NEW a \in DOMAIN goes, q = goes[a], ~IsStrictPrefix(P, a)
        PROVE  Parent(q) \in Paths(t) /\ Last(q) \in StepsFrom(t[Parent(q)])
    <3>1. q = a /\ q \in Paths(tree) /\ q \in Seq(Steps)
      BY <1>0, <1>2, <2>2
    <3>2. PICK p \in Seq(Steps), s \in Steps : q = Append(p, s)
      BY <1>11, <3>1, SequenceEmptyOrAppend
    <3>3. p \in DOMAIN goes /\ goes[p] = p /\ p # P /\ s \in StepsFrom(tree[p])
      <4>1. OutsideAt(tree, P, goes, p, s)
        BY <1>O, <2>2, <3>1, <3>2
      <4> QED
        BY <4>1, Zenon DEF OutsideAt
    <3>4. Parent(q) = p /\ Last(q) = s
      BY <3>2, FrontLast
    <3>5. p \in Paths(t) /\ t[p] = tree[p]
      BY <1>1, <3>3
    <3> QED
      BY <3>3, <3>4, <3>5
  <2>3. ASSUME NEW a \in DOMAIN goes, q = goes[a], IsStrictPrefix(P, a)
        PROVE  Parent(q) \in Paths(t) /\ Last(q) \in StepsFrom(t[Parent(q)])
    <3>1. PICK r \in DOMAIN roots, u \in Seq(Steps) : a = r \o u
      BY <1>9, <2>3
    <3>2. CASE u = <<>>
      <4>1. a = r /\ q = roots[r]
        BY <1>0, <1>5, <2>3, <3>1, <3>2, ConcatEmptySeq
      <4>2. q \in Range(roots)
        BY <4>1 DEF Range
      <4> QED
        BY <2>1, <4>2
    <3>3. CASE u # <<>>
      <4>1. PICK v \in Seq(Steps), s \in Steps : u = Append(v, s)
        BY <3>3, SequenceEmptyOrAppend
      <4>2. r \o Append(v, s) \in Paths(tree)
        BY <1>0, <3>1, <4>1
      <4>3. /\ r \o v \in DOMAIN goes /\ goes[r \o v] = roots[r] \o v /\ r \o v # P
            /\ q = Append(roots[r] \o v, s) /\ roots[r] \o v \in Seq(Steps)
            /\ s \in StepsFrom(tree[r \o v])
        BY <1>I, <2>3, <3>1, <4>1, <4>2, Zenon DEF InsideAt
      <4>4. Parent(q) = roots[r] \o v /\ Last(q) = s
        BY <4>3, FrontLast
      <4>5. Parent(q) \in Paths(t) /\ t[Parent(q)] = tree[r \o v]
        BY <1>1, <4>3, <4>4, ZenonT(40)
      <4> QED
        BY <4>3, <4>4, <4>5
    <3> QED
      BY <3>2, <3>3
  <2>4. \/ q \in DOMAIN lines \ {P}
        \/ \E a \in DOMAIN goes : q = goes[a]
    BY <1>1, <1>3
  <2> QED
    BY <2>1, <2>2, <2>3, <2>4
<1> QED
  BY <1>1, <1>4, <1>8, <1>10, <1>11, TreeMade

\* The moves before a line that stays are the same after the edit.
LEMMA BeforeOutside ==
  ASSUME NEW tree, NEW P, NEW roots, NEW lines, Grafts(tree, P, roots, lines),
         NEW goes, goes = Goes(tree, P, roots),
         NEW t, t = Relocated(tree, goes, lines)
  PROVE  \A p \in Paths(tree) : ~IsStrictPrefix(P, p) => Before(t, p) = Before(tree, p)
<1> DEFINE S == {n \in Nat : \A p \in Paths(tree) :
                    Len(p) = n /\ ~IsStrictPrefix(P, p) => Before(t, p) = Before(tree, p)}
<1>C. Carried(tree, P, roots, goes)
  BY GoesFacts
<1>K. Kept(tree, P, lines, goes, t)
  BY RelocatedFacts
<1>O. \A p \in Seq(Steps), s \in Steps :
         Append(p, s) \in Paths(tree) /\ ~IsStrictPrefix(P, Append(p, s))
            => OutsideAt(tree, P, goes, p, s)
  BY Outside
<1>0. \A p \in Paths(tree) : p \in Seq(Steps) /\ Len(p) \in Nat
  BY TreeFacts DEF Grafts
<1>1. 0 \in S
  <2>1. \A p \in Paths(tree) : Len(p) = 0 => p = <<>>
    BY <1>0
  <2> QED
    BY <2>1, BeforeEquation
<1>2. ASSUME NEW n \in Nat, n \in S
      PROVE  n + 1 \in S
  <2> SUFFICES ASSUME NEW q \in Paths(tree), Len(q) = n + 1, ~IsStrictPrefix(P, q)
               PROVE  Before(t, q) = Before(tree, q)
    OBVIOUS
  <2>1. q \in Seq(Steps) /\ q # <<>>
    BY <1>0
  <2>2. PICK p \in Seq(Steps), s \in Steps : q = Append(p, s)
    BY <2>1, SequenceEmptyOrAppend
  <2>3. p \in DOMAIN goes /\ goes[p] = p /\ p # P /\ ~IsStrictPrefix(P, p)
    BY <1>O, <2>2, Zenon DEF OutsideAt
  <2>4. t[p] = tree[p] /\ p \in Paths(tree)
    BY <1>C, <1>K, <2>3, Zenon DEF Carried, Kept
  <2>5. Len(p) = n
    BY <2>2
  <2>6. Before(t, p) = Before(tree, p)
    BY <1>2, <2>3, <2>4, <2>5
  <2> QED
    BY <2>2, <2>4, <2>6, BeforeEquation, ZenonT(30)
<1> HIDE DEF S
<1>3. \A n \in Nat : n \in S
  BY <1>1, <1>2, InductionOverNat
<1> QED
  BY <1>0, <1>3 DEF S

\* If the moves before a subtree's root are kept, so are those before every line in it.
LEMMA BeforeInside ==
  ASSUME NEW tree, NEW P, NEW roots, NEW lines, Grafts(tree, P, roots, lines),
         NEW goes, goes = Goes(tree, P, roots),
         NEW t, t = Relocated(tree, goes, lines),
         NEW r \in DOMAIN roots, Before(t, roots[r]) = Before(tree, r)
  PROVE  \A u \in Seq(Steps) : r \o u \in Paths(tree) =>
            Before(t, roots[r] \o u) = Before(tree, r \o u)
<1> DEFINE S == {n \in Nat : \A u \in Seq(Steps) : Len(u) = n /\ r \o u \in Paths(tree) =>
                    Before(t, roots[r] \o u) = Before(tree, r \o u)}
<1>C. Carried(tree, P, roots, goes)
  BY GoesFacts
<1>K. Kept(tree, P, lines, goes, t)
  BY RelocatedFacts
<1>I. \A x \in DOMAIN roots, u \in Seq(Steps), s \in Steps :
         x \o Append(u, s) \in Paths(tree) => InsideAt(tree, P, roots, goes, x, u, s)
  BY Inside
<1>0. r \in Seq(Steps) /\ roots[r] \in Seq(Steps)
  BY <1>C, Zenon DEF Carried
<1>1. 0 \in S
  <2> SUFFICES ASSUME NEW u \in Seq(Steps), Len(u) = 0
               PROVE  Before(t, roots[r] \o u) = Before(tree, r \o u)
    OBVIOUS
  <2>1. u = <<>>
    OBVIOUS
  <2>2. r \o u = r /\ roots[r] \o u = roots[r]
    BY <1>0, <2>1, ConcatEmptySeq
  <2> QED
    BY <2>2
<1>2. ASSUME NEW n \in Nat, n \in S
      PROVE  n + 1 \in S
  <2> SUFFICES ASSUME NEW u \in Seq(Steps), Len(u) = n + 1, r \o u \in Paths(tree)
               PROVE  Before(t, roots[r] \o u) = Before(tree, r \o u)
    OBVIOUS
  <2>1. u # <<>>
    OBVIOUS
  <2>2. PICK v \in Seq(Steps), s \in Steps : u = Append(v, s)
    BY <2>1, SequenceEmptyOrAppend
  <2>3. /\ r \o v \in DOMAIN goes /\ goes[r \o v] = roots[r] \o v /\ r \o v # P
        /\ r \o u = Append(r \o v, s)
        /\ r \o v \in Seq(Steps) /\ roots[r] \o v \in Seq(Steps)
    BY <1>I, <2>2, Zenon DEF InsideAt
  <2>4. roots[r] \o u = Append(roots[r] \o v, s)
    BY <1>0, <2>2, AppendConcat
  <2>5. t[roots[r] \o v] = tree[r \o v] /\ r \o v \in Paths(tree)
    BY <1>C, <1>K, <2>3, Zenon DEF Carried, Kept
  <2>6. Len(v) = n
    BY <2>2
  <2>7. Before(t, roots[r] \o v) = Before(tree, r \o v)
    BY <1>2, <2>5, <2>6
  <2>8. Before(tree, Append(r \o v, s))
        = Before(tree, r \o v) \o Sans(SubSeq(tree[r \o v].moves, 1, s[1] - 1))
    BY <2>3, BeforeEquation, Zenon
  <2>9. Before(t, Append(roots[r] \o v, s))
        = Before(t, roots[r] \o v) \o Sans(SubSeq(t[roots[r] \o v].moves, 1, s[1] - 1))
    BY <2>3, BeforeEquation, Zenon
  <2> QED
    BY <2>3, <2>4, <2>5, <2>7, <2>8, <2>9, Zenon
<1> HIDE DEF S
<1>3. \A n \in Nat : n \in S
  BY <1>1, <1>2, InductionOverNat
<1> QED
  BY <1>0, <1>3 DEF S

-----------------------------------------------------------------------------
(* Orders: reordering, dropping and planting variations of one move                 *)

\* A function with one line set.
LEMMA WithLineFacts ==
  ASSUME NEW tree, NEW path, NEW line
  PROVE  /\ \A q : q \in DOMAIN WithLine(tree, path, line) <=> q = path \/ q \in DOMAIN tree
         /\ WithLine(tree, path, line)[path] = line
         /\ \A q \in DOMAIN tree : q # path => WithLine(tree, path, line)[q] = tree[q]
BY DEF WithLine, Paths

\* Of two variations of one line neither lies in the other.
LEMMA SiblingPrefix ==
  ASSUME NEW P \in Seq(Steps), NEW s \in Steps, NEW t \in Steps
  PROVE  /\ IsPrefix(Append(P, s), Append(P, t)) => s = t
         /\ IsStrictPrefix(P, Append(P, s))
<1>1. IsStrictPrefix(P, Append(P, s))
  BY PrefixItself, PrefixOfAppend
<1>2. ASSUME IsPrefix(Append(P, s), Append(P, t))
      PROVE  s = t
  <2>1. ~IsPrefix(Append(P, s), P)
    BY DEF IsPrefix
  <2>2. Append(P, s) \in Seq(Steps)
    OBVIOUS
  <2>3. Append(P, s) = Append(P, t)
    BY <1>2, <2>1, <2>2, PrefixOfAppend, Zenon
  <2> QED
    BY <2>3, AppendInjective
<1> QED
  BY <1>1, <1>2

\* Place is the inverse of an order without repetitions.
LEMMA PlaceFacts ==
  ASSUME NEW order \in Seq(Nat),
         \A j, k \in 1..Len(order) : order[j] = order[k] => j = k
  PROVE  /\ \A v \in Range(order) : Place(order, v) \in 1..Len(order) /\ order[Place(order, v)] = v
         /\ \A k \in 1..Len(order) : order[k] \in Range(order) /\ Place(order, order[k]) = k
<1>1. DOMAIN order = 1..Len(order)
  OBVIOUS
<1>2. \A v \in Range(order) : \E k \in DOMAIN order : order[k] = v
  BY DEF Range
<1>3. \A v \in Range(order) : Place(order, v) \in DOMAIN order /\ order[Place(order, v)] = v
  BY <1>2, Zenon DEF Place
<1>4. \A k \in DOMAIN order : order[k] \in Range(order)
  BY DEF Range
<1> QED
  BY <1>1, <1>3, <1>4, Zenon

\* New lines that are planted as the variations `order' does not take from the tree.
Plants(P, owner, order, n, added) ==
    /\ \A k \in 1..Len(order) : order[k] \in 1..n \/ Append(P, <<owner, k>>) \in DOMAIN added
    /\ \A q \in DOMAIN added :
          /\ q \in Seq(Steps) /\ added[q] \in VariationLines
          /\ \E k \in 1..Len(order) :
                order[k] \notin 1..n /\ IsPrefix(Append(P, <<owner, k>>), q)
          /\ \A s \in StepsFrom(added[q]) : Append(q, s) \in DOMAIN added
          /\ \/ \E k \in 1..Len(order) : q = Append(P, <<owner, k>>)
             \/ Parent(q) \in DOMAIN added /\ Last(q) \in StepsFrom(added[Parent(q)])

\* Setting the number of variations of a move changes nothing else of the line.
LEMMA WithVarsFacts ==
  ASSUME NEW line \in VariationLines, NEW owner \in 1..Len(line.moves), NEW n \in Nat
  PROVE  /\ WithVars(line, owner, n) \in VariationLines
         /\ Len(WithVars(line, owner, n).moves) = Len(line.moves)
         /\ WithVars(line, owner, n).lead = line.lead /\ WithVars(line, owner, n).trail = line.trail
         /\ \A i \in 1..Len(line.moves) :
               /\ WithVars(line, owner, n).moves[i].san = line.moves[i].san
               /\ WithVars(line, owner, n).moves[i].before = line.moves[i].before
               /\ WithVars(line, owner, n).moves[i].after = line.moves[i].after
               /\ WithVars(line, owner, n).moves[i].vars =
                     IF i = owner THEN n ELSE line.moves[i].vars
<1> DEFINE m == [line.moves[owner] EXCEPT !.vars = n]
           ms == [line.moves EXCEPT ![owner] = m]
<1>1. line.moves \in Seq(Moves) /\ line.moves[owner] \in Moves
  BY LineTypes
<1>2. m \in Moves /\ m.vars = n /\ m.san = line.moves[owner].san
      /\ m.before = line.moves[owner].before /\ m.after = line.moves[owner].after
  BY <1>1 DEF Moves
<1> HIDE DEF m
<1>3. /\ ms \in Seq(Moves) /\ Len(ms) = Len(line.moves)
      /\ \A i \in 1..Len(line.moves) : ms[i] = IF i = owner THEN m ELSE line.moves[i]
  BY <1>1, <1>2, ExceptSeq
<1>4. WithVars(line, owner, n) = [line EXCEPT !.moves = ms]
  BY DEF WithVars, m, VariationLines
<1> HIDE DEF ms
<1>5. WithVars(line, owner, n) \in VariationLines
      /\ WithVars(line, owner, n).moves = ms
      /\ WithVars(line, owner, n).lead = line.lead /\ WithVars(line, owner, n).trail = line.trail
  BY <1>3, <1>4 DEF VariationLines
<1> QED
  BY <1>2, <1>3, <1>5

\* A new order of the variations of one move, some dropped, one perhaps planted.
Reorders(tree, P, owner, order, added) ==
    /\ IsTree(tree) /\ P \in Paths(tree) /\ owner \in 1..Len(tree[P].moves)
    /\ order \in Seq(Nat)
    /\ \A j, k \in 1..Len(order) : order[j] = order[k] => j = k
    /\ Plants(P, owner, order, tree[P].moves[owner].vars, added)

\* The step that a variation of P is reached by after the reordering.
Reseat(P, owner, order, s) == IF s[1] = owner THEN <<owner, Place(order, s[2])>> ELSE s

\* The new addresses of the variations that stay, and which these are.
LEMMA ReseatedFacts ==
  ASSUME NEW tree, NEW P, NEW owner, NEW order, NEW added, Reorders(tree, P, owner, order, added),
         NEW roots, roots = Reseated(tree, P, owner, order)
  PROVE  /\ \A r : r \in DOMAIN roots <=>
               \E s \in StepsFrom(tree[P]) :
                  r = Append(P, s) /\ (s[1] = owner => s[2] \in Range(order))
         /\ \A s \in Steps : Append(P, s) \in DOMAIN roots =>
               /\ s \in StepsFrom(tree[P]) /\ (s[1] = owner => s[2] \in Range(order))
               /\ roots[Append(P, s)] = Append(P, Reseat(P, owner, order, s))
               /\ Reseat(P, owner, order, s) \in Steps
               /\ Reseat(P, owner, order, s)[1] = s[1]
               /\ s[1] = owner => /\ Reseat(P, owner, order, s)[2] \in 1..Len(order)
                                  /\ order[Reseat(P, owner, order, s)[2]] = s[2]
<1>0. IsTree(tree) /\ P \in Paths(tree) /\ P \in Seq(Steps)
  BY TreeFacts DEF Reorders
<1>1. \A s \in StepsFrom(tree[P]) : s \in Steps
  BY <1>0, TreeFacts
<1>2. ASSUME NEW s \in Steps
      PROVE  /\ Owner(Append(P, s)) = s[1] /\ Index(Append(P, s)) = s[2]
             /\ Append(P, s) \in Children(tree, P) <=> s \in StepsFrom(tree[P])
  <2>1. Owner(Append(P, s)) = s[1] /\ Index(Append(P, s)) = s[2]
    BY <1>0, FrontLast DEF Owner, Index
  <2>2. Append(P, s) \in Children(tree, P) => s \in StepsFrom(tree[P])
    <3>1. SUFFICES ASSUME NEW x \in StepsFrom(tree[P]), Append(P, s) = Append(P, x)
                   PROVE  s \in StepsFrom(tree[P])
      BY Zenon DEF Children
    <3>2. s = x
      BY <1>0, <1>1, <3>1, AppendInjective
    <3> QED
      BY <3>2
  <2>3. s \in StepsFrom(tree[P]) => Append(P, s) \in Children(tree, P)
    BY Zenon DEF Children
  <2> QED
    BY <2>1, <2>2, <2>3
<1>3. \A c : c \in Children(tree, P) <=> \E s \in StepsFrom(tree[P]) : c = Append(P, s)
  BY Zenon DEF Children
<1>4. \A r : r \in DOMAIN roots <=>
         r \in Children(tree, P) /\ (Owner(r) = owner => Index(r) \in Range(order))
  BY DEF Reseated
<1>5. \A r \in DOMAIN roots :
         roots[r] = IF Owner(r) = owner THEN Append(P, <<owner, Place(order, Index(r))>>) ELSE r
  BY Zenon DEF Reseated
<1>6. \A r : r \in DOMAIN roots <=>
         \E s \in StepsFrom(tree[P]) : r = Append(P, s) /\ (s[1] = owner => s[2] \in Range(order))
  <2>1. ASSUME NEW s \in StepsFrom(tree[P])
        PROVE  /\ Owner(Append(P, s)) = s[1] /\ Index(Append(P, s)) = s[2]
               /\ Append(P, s) \in Children(tree, P)
    BY <1>1, <1>2
  <2>2. ASSUME NEW r \in DOMAIN roots
        PROVE  \E s \in StepsFrom(tree[P]) :
                  r = Append(P, s) /\ (s[1] = owner => s[2] \in Range(order))
    <3>1. PICK s \in StepsFrom(tree[P]) : r = Append(P, s)
      BY <1>3, <1>4
    <3> QED
      BY <1>4, <2>1, <3>1
  <2>3. ASSUME NEW s \in StepsFrom(tree[P]), s[1] = owner => s[2] \in Range(order)
        PROVE  Append(P, s) \in DOMAIN roots
    BY <1>4, <2>1, <2>3
  <2> QED
    BY <2>2, <2>3
<1>7. ASSUME NEW s \in Steps, Append(P, s) \in DOMAIN roots
      PROVE  /\ s \in StepsFrom(tree[P]) /\ (s[1] = owner => s[2] \in Range(order))
             /\ roots[Append(P, s)] = Append(P, Reseat(P, owner, order, s))
             /\ Reseat(P, owner, order, s) \in Steps
             /\ Reseat(P, owner, order, s)[1] = s[1]
             /\ s[1] = owner => /\ Reseat(P, owner, order, s)[2] \in 1..Len(order)
                                /\ order[Reseat(P, owner, order, s)[2]] = s[2]
  <2>1. s \in StepsFrom(tree[P]) /\ (s[1] = owner => s[2] \in Range(order))
    BY <1>2, <1>4, <1>7, Zenon
  <2>2. roots[Append(P, s)] = Append(P, Reseat(P, owner, order, s))
    BY <1>2, <1>5, <1>7, Zenon DEF Reseat
  <2>3. CASE s[1] # owner
    BY <2>1, <2>2, <2>3 DEF Reseat
  <2>4. CASE s[1] = owner
    <3>1. Reseat(P, owner, order, s) = <<owner, Place(order, s[2])>>
      BY <2>4 DEF Reseat
    <3>2. Place(order, s[2]) \in 1..Len(order) /\ order[Place(order, s[2])] = s[2]
      BY <2>1, <2>4, PlaceFacts DEF Reorders
    <3>3. owner \in Nat
      BY <2>4 DEF Steps
    <3>4. <<owner, Place(order, s[2])>> \in Steps
      BY <3>2, <3>3 DEF Steps, Reorders
    <3> QED
      BY <2>1, <2>2, <2>4, <3>1, <3>2, <3>4
  <2> QED
    BY <2>3, <2>4
<1> QED
  BY <1>6, <1>7

\* Reordering, dropping or planting variations can be carried out.
LEMMA ReseatedGrafts ==
  ASSUME NEW tree, NEW P, NEW owner, NEW order, NEW added, Reorders(tree, P, owner, order, added),
         NEW roots, roots = Reseated(tree, P, owner, order),
         NEW lines, lines = WithLine(added, P, WithVars(tree[P], owner, Len(order)))
  PROVE  Grafts(tree, P, roots, lines)
<1> DEFINE n == tree[P].moves[owner].vars
           line == WithVars(tree[P], owner, Len(order))
<1>0. /\ IsTree(tree) /\ P \in Paths(tree) /\ P \in Seq(Steps) /\ tree[P] \in VariationLines
      /\ owner \in 1..Len(tree[P].moves) /\ owner \in Nat
      /\ order \in Seq(Nat) /\ Len(order) \in Nat
      /\ \A j, k \in 1..Len(order) : order[j] = order[k] => j = k
      /\ Plants(P, owner, order, n, added)
  BY TreeFacts DEF Reorders
<1>1. /\ line \in VariationLines /\ Len(line.moves) = Len(tree[P].moves)
      /\ \A i \in 1..Len(line.moves) :
            line.moves[i].vars = IF i = owner THEN Len(order) ELSE tree[P].moves[i].vars
  BY <1>0, WithVarsFacts
<1>2. \A s : s \in StepsFrom(tree[P]) <=>
         s \in Steps /\ s[1] \in 1..Len(tree[P].moves) /\ s[2] \in 1..tree[P].moves[s[1]].vars
  BY <1>0, StepsFromIs
<1>3. \A s : s \in StepsFrom(line) <=>
         /\ s \in Steps /\ s[1] \in 1..Len(tree[P].moves)
         /\ s[2] \in 1..(IF s[1] = owner THEN Len(order) ELSE tree[P].moves[s[1]].vars)
  <2>1. \A s : s \in StepsFrom(line) <=>
           s \in Steps /\ s[1] \in 1..Len(line.moves) /\ s[2] \in 1..line.moves[s[1]].vars
    BY <1>1, StepsFromIs
  <2> HIDE DEF line
  <2> QED
    BY <1>1, <2>1
<1>4. /\ \A q : q \in DOMAIN lines <=> q = P \/ q \in DOMAIN added
      /\ lines[P] = line
      /\ \A q \in DOMAIN added : q # P => lines[q] = added[q]
  BY WithLineFacts
<1>5. /\ \A k \in 1..Len(order) : order[k] \in 1..n \/ Append(P, <<owner, k>>) \in DOMAIN added
      /\ \A q \in DOMAIN added :
            /\ q \in Seq(Steps) /\ added[q] \in VariationLines
            /\ \E k \in 1..Len(order) :
                  order[k] \notin 1..n /\ IsPrefix(Append(P, <<owner, k>>), q)
            /\ \A s \in StepsFrom(added[q]) : Append(q, s) \in DOMAIN added
            /\ \/ \E k \in 1..Len(order) : q = Append(P, <<owner, k>>)
               \/ Parent(q) \in DOMAIN added /\ Last(q) \in StepsFrom(added[Parent(q)])
  BY <1>0, Zenon DEF Plants
<1> HIDE DEF line, n
<1>6. \A r : r \in DOMAIN roots <=>
         \E s \in StepsFrom(tree[P]) : r = Append(P, s) /\ (s[1] = owner => s[2] \in Range(order))
  BY ReseatedFacts
<1>7. \A s \in Steps : Append(P, s) \in DOMAIN roots =>
         /\ s \in StepsFrom(tree[P]) /\ (s[1] = owner => s[2] \in Range(order))
         /\ roots[Append(P, s)] = Append(P, Reseat(P, owner, order, s))
         /\ Reseat(P, owner, order, s) \in Steps
         /\ Reseat(P, owner, order, s)[1] = s[1]
         /\ s[1] = owner => /\ Reseat(P, owner, order, s)[2] \in 1..Len(order)
                            /\ order[Reseat(P, owner, order, s)[2]] = s[2]
  BY ReseatedFacts
<1>8. ASSUME NEW r \in DOMAIN roots
      PROVE  \E s \in StepsFrom(tree[P]), x \in Steps :
                /\ s \in Steps /\ r = Append(P, s) /\ roots[r] = Append(P, x)
                /\ x[1] = s[1] /\ x \in StepsFrom(line)
                /\ (s[1] # owner => x = s)
                /\ s[1] = owner => s[2] \in 1..n /\ x[2] \in 1..Len(order) /\ order[x[2]] = s[2]
  <2>1. PICK s \in StepsFrom(tree[P]) : r = Append(P, s)
    BY <1>6
  <2>2. s \in Steps /\ s[1] \in 1..Len(tree[P].moves) /\ s[2] \in 1..tree[P].moves[s[1]].vars
    BY <1>2
  <2> DEFINE x == Reseat(P, owner, order, s)
  <2>3. /\ x \in Steps /\ x[1] = s[1] /\ roots[r] = Append(P, x)
        /\ s[1] = owner => x[2] \in 1..Len(order) /\ order[x[2]] = s[2]
    BY <1>7, <2>1, <2>2
  <2>4. s[1] # owner => x = s
    BY DEF Reseat
  <2> HIDE DEF x
  <2>5. x \in StepsFrom(line)
    BY <1>3, <2>2, <2>3, <2>4
  <2>6. s[1] = owner => s[2] \in 1..n
    BY <2>2 DEF n
  <2> QED
    BY <2>1, <2>2, <2>3, <2>4, <2>5, <2>6
<1>9. ASSUME NEW r \in DOMAIN roots
      PROVE  /\ r \in Paths(tree) /\ IsStrictPrefix(P, r)
             /\ roots[r] \in Seq(Steps) /\ IsStrictPrefix(P, roots[r])
  <2>1. PICK s \in StepsFrom(tree[P]), x \in Steps :
           s \in Steps /\ r = Append(P, s) /\ roots[r] = Append(P, x)
    BY <1>8
  <2>2. r \in Paths(tree)
    BY <1>0, <2>1, TreeFacts
  <2>3. Append(P, x) \in Seq(Steps)
    BY <1>0
  <2> QED
    BY <1>0, <2>1, <2>2, <2>3, SiblingPrefix
<1>10. ASSUME NEW r1 \in DOMAIN roots, NEW r2 \in DOMAIN roots,
              IsPrefix(r1, r2) \/ IsPrefix(roots[r1], roots[r2])
       PROVE  r1 = r2
  <2>1. PICK s1 \in StepsFrom(tree[P]), x1 \in Steps :
           /\ s1 \in Steps /\ r1 = Append(P, s1) /\ roots[r1] = Append(P, x1) /\ x1[1] = s1[1]
           /\ (s1[1] # owner => x1 = s1)
           /\ s1[1] = owner => x1[2] \in 1..Len(order) /\ order[x1[2]] = s1[2]
    BY <1>8
  <2>2. PICK s2 \in StepsFrom(tree[P]), x2 \in Steps :
           /\ s2 \in Steps /\ r2 = Append(P, s2) /\ roots[r2] = Append(P, x2) /\ x2[1] = s2[1]
           /\ (s2[1] # owner => x2 = s2)
           /\ s2[1] = owner => x2[2] \in 1..Len(order) /\ order[x2[2]] = s2[2]
    BY <1>8
  <2>3. s1 = s2 \/ x1 = x2
    <3>1. /\ IsPrefix(Append(P, s1), Append(P, s2)) => s1 = s2
          /\ IsPrefix(Append(P, x1), Append(P, x2)) => x1 = x2
      BY <1>0, <2>1, <2>2, SiblingPrefix
    <3> QED
      BY <1>10, <2>1, <2>2, <3>1, Zenon
  <2>4. \A a, b \in Steps : a[1] = b[1] /\ a[2] = b[2] => a = b
    BY DEF Steps
  <2>5. x1 = x2 => s1 = s2
    BY <2>1, <2>2, <2>4
  <2> QED
    BY <2>1, <2>2, <2>3, <2>5
<1>11. ASSUME NEW q \in DOMAIN lines
       PROVE  /\ q \in Seq(Steps) /\ lines[q] \in VariationLines
              /\ q # P => IsStrictPrefix(P, q) /\ \A r \in DOMAIN roots : ~IsPrefix(roots[r], q)
  <2>1. CASE q = P
    BY <1>0, <1>1, <1>4, <2>1
  <2>2. CASE q # P
    <3>1. q \in DOMAIN added /\ lines[q] = added[q]
      BY <1>4, <2>2
    <3>2. q \in Seq(Steps) /\ added[q] \in VariationLines
      BY <1>5, <3>1
    <3>3. PICK k \in 1..Len(order) : order[k] \notin 1..n /\ IsPrefix(Append(P, <<owner, k>>), q)
      BY <1>5, <3>1
    <3> DEFINE a == <<owner, k>>
    <3>4. a \in Steps /\ a[1] = owner /\ a[2] = k
      BY <1>0 DEF Steps
    <3> HIDE DEF a
    <3>5. Append(P, a) \in Seq(Steps) /\ Len(Append(P, a)) = Len(P) + 1
      BY <1>0, <3>4, FrontLast
    <3>6. IsPrefix(Append(P, a), q)
      BY <3>3 DEF a
    <3>7. PICK u \in Seq(Steps) : q = Append(P, a) \o u
      BY <3>2, <3>5, <3>6, PrefixOf
    <3>8. IsStrictPrefix(P, q)
      BY <1>0, <3>4, <3>5, <3>7, SiblingPrefix, PrefixOfConcat
    <3>9. ASSUME NEW r \in DOMAIN roots, IsPrefix(roots[r], q)
          PROVE  FALSE
      <4>1. PICK s \in StepsFrom(tree[P]), x \in Steps :
               /\ s \in Steps /\ roots[r] = Append(P, x) /\ x[1] = s[1]
               /\ s[1] = owner => s[2] \in 1..n /\ x[2] \in 1..Len(order) /\ order[x[2]] = s[2]
        BY <1>8
      <4>2. Append(P, x) \in Seq(Steps) /\ Len(Append(P, x)) = Len(P) + 1
        BY <1>0, FrontLast
      <4>3. Len(Append(P, x)) <= Len(Append(P, a))
        BY <1>0, <3>5, <4>2
      <4>4. IsPrefix(Append(P, x), Append(P, a))
        BY <3>2, <3>5, <3>6, <3>9, <4>1, <4>2, <4>3, Comparable, Zenon
      <4>5. x = a
        BY <1>0, <3>4, <4>4, SiblingPrefix
      <4> QED
        BY <3>3, <3>4, <4>1, <4>5
    <3> QED
      BY <3>1, <3>2, <3>8, <3>9
  <2> QED
    BY <2>1, <2>2
<1>12. \A x : x \in Range(roots) <=> \E r \in DOMAIN roots : x = roots[r]
  BY DEF Range
<1>13. ASSUME NEW q \in DOMAIN lines, NEW s \in StepsFrom(lines[q])
       PROVE  Append(q, s) \in DOMAIN lines \cup Range(roots)
  <2>1. CASE q # P
    BY <1>4, <1>5, <1>13, <2>1
  <2>2. CASE q = P
    <3>1. /\ s \in Steps /\ s[1] \in 1..Len(tree[P].moves)
          /\ s[2] \in 1..(IF s[1] = owner THEN Len(order) ELSE tree[P].moves[s[1]].vars)
      BY <1>3, <1>4, <1>13, <2>2
    <3>2. CASE s[1] # owner
      <4>1. s \in StepsFrom(tree[P])
        BY <1>2, <3>1, <3>2
      <4>2. Append(P, s) \in DOMAIN roots
        BY <1>6, <3>2, <4>1
      <4>3. roots[Append(P, s)] = Append(P, s)
        BY <1>7, <3>1, <3>2, <4>2 DEF Reseat
      <4> QED
        BY <1>12, <2>2, <4>2, <4>3
    <3>3. CASE s[1] = owner /\ order[s[2]] \notin 1..n
      <4>1. s = <<owner, s[2]>> /\ s[2] \in 1..Len(order)
        BY <3>1, <3>3 DEF Steps
      <4>2. Append(P, <<owner, s[2]>>) \in DOMAIN added
        BY <1>5, <3>3, <4>1
      <4> QED
        BY <1>4, <2>2, <4>1, <4>2
    <3>4. CASE s[1] = owner /\ order[s[2]] \in 1..n
      <4> DEFINE x == <<owner, order[s[2]]>>
      <4>1. s = <<owner, s[2]>> /\ s[2] \in 1..Len(order)
        BY <3>1, <3>4 DEF Steps
      <4>2. x \in Steps /\ x[1] = owner /\ x[2] = order[s[2]]
        BY <1>0, <4>1 DEF Steps
      <4> HIDE DEF x
      <4>3. x \in StepsFrom(tree[P])
        BY <1>0, <1>2, <3>4, <4>2 DEF n
      <4>4. x[2] \in Range(order) /\ Place(order, x[2]) = s[2]
        BY <1>0, <4>1, <4>2, PlaceFacts
      <4>5. Append(P, x) \in DOMAIN roots
        BY <1>6, <4>3, <4>4
      <4>6. Reseat(P, owner, order, x) = s
        BY <4>1, <4>2, <4>4 DEF Reseat
      <4>7. roots[Append(P, x)] = Append(P, s)
        BY <1>7, <4>2, <4>5, <4>6
      <4> QED
        BY <1>12, <2>2, <4>5, <4>7
    <3> QED
      BY <3>2, <3>3, <3>4
  <2> QED
    BY <2>1, <2>2
<1>14. ASSUME NEW q \in (DOMAIN lines \ {P}) \cup Range(roots)
       PROVE  Parent(q) \in DOMAIN lines /\ Last(q) \in StepsFrom(lines[Parent(q)])
  <2>1. ASSUME NEW x \in Steps, q = Append(P, x), x \in StepsFrom(line)
        PROVE  Parent(q) \in DOMAIN lines /\ Last(q) \in StepsFrom(lines[Parent(q)])
    <3>1. Parent(q) = P /\ Last(q) = x
      BY <1>0, <2>1, FrontLast
    <3> QED
      BY <1>4, <2>1, <3>1
  <2>2. CASE q \in Range(roots)
    <3>1. PICK r \in DOMAIN roots : q = roots[r]
      BY <1>12, <2>2
    <3>2. PICK x \in Steps : roots[r] = Append(P, x) /\ x \in StepsFrom(line)
      BY <1>8
    <3> QED
      BY <2>1, <3>1, <3>2
  <2>3. CASE q \in DOMAIN lines /\ q # P
    <3>1. q \in DOMAIN added
      BY <1>4, <2>3
    <3>2. CASE \E k \in 1..Len(order) : q = Append(P, <<owner, k>>)
      <4>1. PICK k \in 1..Len(order) : q = Append(P, <<owner, k>>)
        BY <3>2
      <4>2. <<owner, k>> \in Steps
        BY <1>0 DEF Steps
      <4>3. <<owner, k>> \in StepsFrom(line)
        BY <1>0, <1>3, <4>2
      <4> QED
        BY <2>1, <4>1, <4>2, <4>3
    <3>3. CASE Parent(q) \in DOMAIN added /\ Last(q) \in StepsFrom(added[Parent(q)])
      <4>1. Parent(q) # P
        <5>1. PICK k \in 1..Len(order) : IsPrefix(Append(P, <<owner, k>>), Parent(q))
          BY <1>5, <3>3
        <5>2. Len(Append(P, <<owner, k>>)) = Len(P) + 1
          BY <1>0
        <5> QED
          BY <1>0, <5>1, <5>2 DEF IsPrefix
      <4> QED
        BY <1>4, <3>3, <4>1
    <3> QED
      BY <1>5, <3>1, <3>2, <3>3
  <2> QED
    BY <2>2, <2>3
<1>15. P \in DOMAIN lines
  BY <1>4
<1> QED
  BY <1>0, <1>9, <1>10, <1>11, <1>13, <1>14, <1>15 DEF Grafts

-----------------------------------------------------------------------------
(* Cursors, and what they show, through such an edit                                *)

\* Cursor d in t shows the position that c showed in tree.
KeepsPlace(tree, t, c, d) == ValidCursor(t, d) /\ Played(t, d) = Played(tree, c)

\* A cursor is valid when its line is there and it is within the line.
LEMMA CursorsAre ==
  ASSUME NEW tree
  PROVE  \A c : ValidCursor(tree, c) <=>
            \E p \in Paths(tree) : \E n \in 0..Len(tree[p].moves) : c = Cursor(p, n)
BY DEF ValidCursor, Cursors

\* The two fields of a cursor.
LEMMA CursorFields ==
  ASSUME NEW p, NEW n
  PROVE  Cursor(p, n).path = p /\ Cursor(p, n).next = n
BY DEF Cursor

\* The moves played to a cursor.
LEMMA PlayedAt ==
  ASSUME NEW tree, NEW p, NEW n
  PROVE  Played(tree, Cursor(p, n)) = Before(tree, p) \o Sans(SubSeq(tree[p].moves, 1, n))
BY Zenon DEF Played, Cursor

\* Lines that agree on their first k moves have played the same.
LEMMA SameSans ==
  ASSUME NEW a \in Seq(Moves), NEW b \in Seq(Moves), NEW k \in Nat, k <= Len(a), k <= Len(b),
         \A i \in 1..k : a[i].san = b[i].san
  PROVE  Sans(SubSeq(a, 1, k)) = Sans(SubSeq(b, 1, k))
<1>1. DOMAIN SubSeq(a, 1, k) = 1..k /\ DOMAIN SubSeq(b, 1, k) = 1..k
  OBVIOUS
<1>2. \A i \in 1..k : SubSeq(a, 1, k)[i] = a[i] /\ SubSeq(b, 1, k)[i] = b[i]
  OBVIOUS
<1>3. \A i \in 1..k : SubSeq(a, 1, k)[i].san = SubSeq(b, 1, k)[i].san
  BY <1>2
<1> QED
  BY <1>1, <1>3, Zenon DEF Sans

\* An edit that keeps the moves before its roots keeps the place of every cursor that
\* is not on P itself.
THEOREM GraftKeepsPlayed ==
  ASSUME NEW tree, NEW P, NEW roots, NEW lines, Grafts(tree, P, roots, lines),
         NEW goes, goes = Goes(tree, P, roots),
         NEW t, t = Relocated(tree, goes, lines),
         \A r \in DOMAIN roots : Before(t, roots[r]) = Before(tree, r)
  PROVE  \A p \in DOMAIN goes :
            /\ Before(t, goes[p]) = Before(tree, p)
            /\ p # P => \A n \in 0..Len(tree[p].moves) :
                           KeepsPlace(tree, t, Cursor(p, n), Cursor(goes[p], n))
<1>C. Carried(tree, P, roots, goes)
  BY GoesFacts
<1>K. Kept(tree, P, lines, goes, t)
  BY RelocatedFacts
<1> SUFFICES ASSUME NEW p \in DOMAIN goes
             PROVE  /\ Before(t, goes[p]) = Before(tree, p)
                    /\ p # P => \A n \in 0..Len(tree[p].moves) :
                                   KeepsPlace(tree, t, Cursor(p, n), Cursor(goes[p], n))
  OBVIOUS
<1>1. p \in Paths(tree)
  BY <1>C, Zenon DEF Carried
<1>2. Before(t, goes[p]) = Before(tree, p)
  <2>1. CASE ~IsStrictPrefix(P, p)
    <3>1. \A q \in Paths(tree) : ~IsStrictPrefix(P, q) => Before(t, q) = Before(tree, q)
      BY BeforeOutside
    <3> QED
      BY <1>1, <1>C, <2>1, <3>1, Zenon DEF Carried
  <2>2. CASE IsStrictPrefix(P, p)
    <3>1. PICK r \in DOMAIN roots, u \in Seq(Steps) : p = r \o u
      BY <1>C, <2>2 DEF Carried
    <3>2. goes[p] = roots[r] \o u
      BY <1>1, <1>C, <3>1, Zenon DEF Carried
    <3>3. \A v \in Seq(Steps) :
             r \o v \in Paths(tree) => Before(t, roots[r] \o v) = Before(tree, r \o v)
      BY BeforeInside
    <3> QED
      BY <1>1, <3>1, <3>2, <3>3
  <2> QED
    BY <2>1, <2>2
<1>3. ASSUME p # P, NEW n \in 0..Len(tree[p].moves)
      PROVE  KeepsPlace(tree, t, Cursor(p, n), Cursor(goes[p], n))
  <2>1. goes[p] \in Paths(t) /\ t[goes[p]] = tree[p]
    BY <1>3, <1>K, Zenon DEF Kept
  <2>2. ValidCursor(t, Cursor(goes[p], n))
    BY <2>1, CursorsAre
  <2>3. Played(t, Cursor(goes[p], n)) = Played(tree, Cursor(p, n))
    <3>1. Played(t, Cursor(goes[p], n)) =
             Before(t, goes[p]) \o Sans(SubSeq(t[goes[p]].moves, 1, n))
      BY PlayedAt, ZenonT(30)
    <3>2. Played(tree, Cursor(p, n)) = Before(tree, p) \o Sans(SubSeq(tree[p].moves, 1, n))
      BY PlayedAt
    <3> QED
      BY <1>2, <2>1, <3>1, <3>2
  <2> QED
    BY <2>2, <2>3 DEF KeepsPlace
<1> QED
  BY <1>2, <1>3

\* Reordering variations gives a tree and keeps the place of every cursor whose line is
\* kept.
LEMMA ReseatPlayed ==
  ASSUME NEW tree, NEW P, NEW owner, NEW order, NEW added, Reorders(tree, P, owner, order, added),
         NEW roots, roots = Reseated(tree, P, owner, order),
         NEW lines, lines = WithLine(added, P, WithVars(tree[P], owner, Len(order))),
         NEW goes, goes = Goes(tree, P, roots),
         NEW t, t = Relocated(tree, goes, lines)
  PROVE  /\ IsTree(t)
         /\ \A p \in DOMAIN goes : \A n \in 0..Len(tree[p].moves) :
               KeepsPlace(tree, t, Cursor(p, n), Cursor(goes[p], n))
<1>G. Grafts(tree, P, roots, lines)
  BY ReseatedGrafts
<1>C. Carried(tree, P, roots, goes)
  BY <1>G, GoesFacts
<1>K. Kept(tree, P, lines, goes, t)
  BY <1>G, RelocatedFacts
<1> DEFINE line == WithVars(tree[P], owner, Len(order))
<1>0. /\ IsTree(tree) /\ P \in Paths(tree) /\ P \in Seq(Steps) /\ tree[P] \in VariationLines
      /\ owner \in 1..Len(tree[P].moves) /\ Len(order) \in Nat
  BY TreeFacts DEF Reorders
<1>1. /\ line \in VariationLines /\ Len(line.moves) = Len(tree[P].moves)
      /\ \A i \in 1..Len(line.moves) : line.moves[i].san = tree[P].moves[i].san
  BY <1>0, WithVarsFacts
<1>2. P \in DOMAIN lines /\ lines[P] = line
  BY WithLineFacts
<1>3. t[P] = line /\ P \in Paths(t)
  BY <1>2, <1>K, Zenon DEF Kept
<1> HIDE DEF line
<1>4. ~IsStrictPrefix(P, P)
  BY DEF IsStrictPrefix
<1>5. goes[P] = P /\ P \in DOMAIN goes
  BY <1>0, <1>4, <1>C, Zenon DEF Carried
<1>6. Before(t, P) = Before(tree, P)
  BY <1>0, <1>4, <1>G, BeforeOutside
<1>7. ASSUME NEW k \in 0..Len(tree[P].moves)
      PROVE  Sans(SubSeq(line.moves, 1, k)) = Sans(SubSeq(tree[P].moves, 1, k))
  <2>1. line.moves \in Seq(Moves) /\ tree[P].moves \in Seq(Moves)
    BY <1>0, <1>1, LineTypes
  <2> QED
    BY <1>1, <2>1, SameSans, SMTT(30)
<1>8. ASSUME NEW r \in DOMAIN roots
      PROVE  Before(t, roots[r]) = Before(tree, r)
  <2>1. PICK s \in StepsFrom(tree[P]) :
           r = Append(P, s) /\ (s[1] = owner => s[2] \in Range(order))
    BY ReseatedFacts
  <2>2. s \in Steps /\ s[1] \in 1..Len(tree[P].moves)
    BY <1>0, StepsFromIs
  <2> DEFINE x == Reseat(P, owner, order, s)
  <2>3. x \in Steps /\ x[1] = s[1] /\ roots[r] = Append(P, x)
    BY <2>1, <2>2, ReseatedFacts
  <2> HIDE DEF x
  <2>4. Before(t, Append(P, x)) = Before(t, P) \o Sans(SubSeq(t[P].moves, 1, x[1] - 1))
    BY <1>0, <2>3, BeforeEquation
  <2>5. Before(tree, Append(P, s)) = Before(tree, P) \o Sans(SubSeq(tree[P].moves, 1, s[1] - 1))
    BY <1>0, <2>2, BeforeEquation
  <2>6. s[1] - 1 \in 0..Len(tree[P].moves)
    BY <2>2
  <2> QED
    BY <1>3, <1>6, <1>7, <2>1, <2>3, <2>4, <2>5, <2>6
<1>9. ASSUME NEW n \in 0..Len(tree[P].moves)
      PROVE  KeepsPlace(tree, t, Cursor(P, n), Cursor(P, n))
  <2>1. ValidCursor(t, Cursor(P, n))
    BY <1>1, <1>3, CursorsAre
  <2>2. Played(t, Cursor(P, n)) = Played(tree, Cursor(P, n))
    <3>1. Played(t, Cursor(P, n)) = Before(t, P) \o Sans(SubSeq(t[P].moves, 1, n))
      BY DEF Played, Cursor
    <3>2. Played(tree, Cursor(P, n)) = Before(tree, P) \o Sans(SubSeq(tree[P].moves, 1, n))
      BY PlayedAt
    <3> QED
      BY <1>3, <1>6, <1>7, <3>1, <3>2
  <2> QED
    BY <2>1, <2>2 DEF KeepsPlace
<1>10. \A p \in DOMAIN goes : p # P => \A n \in 0..Len(tree[p].moves) :
          KeepsPlace(tree, t, Cursor(p, n), Cursor(goes[p], n))
  BY <1>8, <1>G, GraftKeepsPlayed
<1>11. IsTree(t)
  BY <1>G, RelocatedIsTree
<1> QED
  BY <1>5, <1>9, <1>10, <1>11

\* A line below P lies in one of the variations of P.
LEMMA StepBelow ==
  ASSUME NEW P \in Seq(Steps), NEW p \in Seq(Steps), IsStrictPrefix(P, p)
  PROVE  \E s \in Steps : IsPrefix(Append(P, s), p)
<1>1. IsPrefix(P, p) /\ Len(P) < Len(p)
  BY StrictPrefix
<1> DEFINE u == SubSeq(p, Len(P) + 1, Len(p))
           s == p[Len(P) + 1]
<1>2. s \in Steps /\ Append(P, s) \in Seq(Steps) /\ Len(Append(P, s)) = Len(P) + 1
  BY <1>1
<1>3. SubSeq(p, 1, Len(P)) = P
  BY <1>1 DEF IsPrefix
<1>4. \A i \in 1..Len(P) : P[i] = p[i]
  BY <1>1, <1>3
<1>5. \A i \in 1..Len(P) + 1 : Append(P, s)[i] = p[i]
  BY <1>2, <1>4
<1>6. SubSeq(p, 1, Len(P) + 1) = Append(P, s)
  BY <1>1, <1>2, <1>5
<1>7. SubSeq(Append(P, s), 1, Len(P) + 1) = Append(P, s)
  BY <1>2
<1> QED
  BY <1>1, <1>2, <1>6, <1>7 DEF IsPrefix

\* The lines that a reordering drops are those in the variations it drops.
LEMMA ReseatGone ==
  ASSUME NEW tree, NEW P, NEW owner, NEW order, NEW added, Reorders(tree, P, owner, order, added),
         NEW roots, roots = Reseated(tree, P, owner, order),
         NEW lines, Grafts(tree, P, roots, lines),
         NEW goes, goes = Goes(tree, P, roots)
  PROVE  \A p \in Paths(tree) : p \notin DOMAIN goes =>
            \E s \in StepsFrom(tree[P]) :
               s[1] = owner /\ s[2] \notin Range(order) /\ IsPrefix(Append(P, s), p)
<1> SUFFICES ASSUME NEW p \in Paths(tree), p \notin DOMAIN goes
             PROVE  \E s \in StepsFrom(tree[P]) :
                       s[1] = owner /\ s[2] \notin Range(order) /\ IsPrefix(Append(P, s), p)
  OBVIOUS
<1>C. Carried(tree, P, roots, goes)
  BY GoesFacts
<1>0. IsTree(tree) /\ P \in Seq(Steps) /\ p \in Seq(Steps)
  BY TreeFacts DEF Reorders
<1>1. IsStrictPrefix(P, p)
  BY <1>C, Zenon DEF Carried
<1>2. PICK s \in Steps : IsPrefix(Append(P, s), p)
  BY <1>0, <1>1, StepBelow
<1>3. Append(P, s) \in Seq(Steps)
  BY <1>0
<1>4. PICK u \in Seq(Steps) : p = Append(P, s) \o u
  BY <1>0, <1>2, <1>3, PrefixOf
<1>5. Append(P, s) \in Paths(tree)
  BY <1>0, <1>3, <1>4, PrefixClosed
<1>6. s \in StepsFrom(tree[P])
  BY <1>0, <1>5, TreeFacts
<1>7. Append(P, s) \notin DOMAIN roots
  BY <1>4, <1>C, Zenon DEF Carried
<1>8. \A r : r \in DOMAIN roots <=>
         \E x \in StepsFrom(tree[P]) : r = Append(P, x) /\ (x[1] = owner => x[2] \in Range(order))
  BY ReseatedFacts
<1> QED
  BY <1>2, <1>6, <1>7, <1>8

-----------------------------------------------------------------------------
(* Orders made by inserting and removing                                            *)

\* A sequence of the numbers in S, each of them once.
Arranges(order, S) ==
    /\ order \in Seq(Nat)
    /\ \A j, k \in 1..Len(order) : order[j] = order[k] => j = k
    /\ \A v : v \in S <=> \E k \in 1..Len(order) : order[k] = v

\* The range of an order.
LEMMA RangeOf ==
  ASSUME NEW order, NEW S, Arranges(order, S)
  PROVE  Range(order) = S
<1>1. DOMAIN order = 1..Len(order)
  BY DEF Arranges
<1> QED
  BY <1>1 DEF Arranges, Range

\* The order of n variations as they are.
LEMMA OrderFacts ==
  ASSUME NEW n \in Nat
  PROVE  Arranges(Order(n), 1..n) /\ Len(Order(n)) = n /\ \A k \in 1..n : Order(n)[k] = k
<1>1. Order(n) \in Seq(Nat) /\ Len(Order(n)) = n /\ \A k \in 1..n : Order(n)[k] = k
  BY DEF Order
<1> QED
  BY <1>1 DEF Arranges

\* A part of an order is an order of the elements there.
LEMMA PartArranges ==
  ASSUME NEW order, NEW S, Arranges(order, S), NEW m \in 1..Len(order) + 1, NEW n \in m - 1..Len(order)
  PROVE  /\ Arranges(SubSeq(order, m, n), {order[k] : k \in m..n})
         /\ Len(SubSeq(order, m, n)) = n - m + 1
         /\ \A k \in 1..n - m + 1 : SubSeq(order, m, n)[k] = order[m + k - 1]
<1> DEFINE o == SubSeq(order, m, n)
<1>1. order \in Seq(Nat) /\ Len(order) \in Nat /\ \A k \in 1..Len(order) : order[k] \in Nat
  BY DEF Arranges
<1>2. o \in Seq(Nat) /\ Len(o) = n - m + 1 /\ \A k \in 1..n - m + 1 : o[k] = order[m + k - 1]
  BY <1>1
<1> HIDE DEF o
<1>3. ASSUME NEW j \in 1..Len(o), NEW k \in 1..Len(o), o[j] = o[k]
      PROVE  j = k
  <2>1. m + j - 1 \in 1..Len(order) /\ m + k - 1 \in 1..Len(order)
    BY <1>1, <1>2
  <2>2. order[m + j - 1] = order[m + k - 1]
    BY <1>2, <1>3
  <2>3. m + j - 1 = m + k - 1
    BY <2>1, <2>2, Zenon DEF Arranges
  <2> QED
    BY <1>2, <2>3
<1>4. ASSUME NEW k \in 1..Len(o)
      PROVE  o[k] \in {order[x] : x \in m..n}
  <2>1. m + k - 1 \in m..n
    BY <1>1, <1>2
  <2> QED
    BY <1>2, <2>1
<1>5. ASSUME NEW x \in m..n
      PROVE  \E k \in 1..Len(o) : o[k] = order[x]
  <2>1. PICK k \in Int : k = x - m + 1
    OBVIOUS
  <2>2. k \in 1..Len(o) /\ m + k - 1 = x
    BY <1>1, <1>2, <2>1
  <2> QED
    BY <1>2, <2>2
<1>6. \A v : v \in {order[x] : x \in m..n} <=> \E k \in 1..Len(o) : o[k] = v
  BY <1>4, <1>5, Zenon
<1> QED
  BY <1>2, <1>3, <1>6 DEF Arranges, o

\* o is a, then b.
Chains(a, A, b, B, o) ==
    /\ Arranges(o, A \cup B) /\ Len(o) = Len(a) + Len(b)
    /\ \A k \in 1..Len(a) : o[k] = a[k]
    /\ \A k \in 1..Len(b) : o[Len(a) + k] = b[k]

\* Two orders of separate sets, one after the other.
LEMMA JoinArranges ==
  ASSUME NEW a, NEW A, Arranges(a, A), NEW b, NEW B, Arranges(b, B), A \cap B = {}
  PROVE  Chains(a, A, b, B, a \o b)
<1> DEFINE o == a \o b
<1>1. a \in Seq(Nat) /\ b \in Seq(Nat) /\ Len(a) \in Nat /\ Len(b) \in Nat
  BY DEF Arranges
<1>2. /\ o \in Seq(Nat) /\ Len(o) = Len(a) + Len(b)
      /\ \A k \in 1..Len(a) : o[k] = a[k]
      /\ \A k \in 1..Len(b) : o[Len(a) + k] = b[k]
  BY <1>1
<1> HIDE DEF o
<1>3. \A k \in 1..Len(o) : \/ k \in 1..Len(a) /\ o[k] = a[k] /\ o[k] \in A
                           \/ \E x \in 1..Len(b) : k = Len(a) + x /\ o[k] = b[x] /\ o[k] \in B
  <2> SUFFICES ASSUME NEW k \in 1..Len(o), k \notin 1..Len(a)
               PROVE  \E x \in 1..Len(b) : k = Len(a) + x /\ o[k] = b[x] /\ o[k] \in B
    BY <1>2 DEF Arranges
  <2>1. PICK x \in Int : x = k - Len(a)
    BY <1>1, SMTT(30)
  <2>2. x \in 1..Len(b) /\ k = Len(a) + x
    BY <1>1, <1>2, <2>1
  <2>3. o[k] = b[x] /\ b[x] \in B
    BY <1>2, <2>2 DEF Arranges
  <2> QED
    BY <2>2, <2>3
<1>4. ASSUME NEW j \in 1..Len(o), NEW k \in 1..Len(o), o[j] = o[k]
      PROVE  j = k
  <2>1. \A x, y \in 1..Len(a) : a[x] = a[y] => x = y
    BY DEF Arranges
  <2>2. \A x, y \in 1..Len(b) : b[x] = b[y] => x = y
    BY DEF Arranges
  <2> QED
    BY <1>3, <1>4, <2>1, <2>2, Zenon
<1>5. ASSUME NEW v \in A \cup B
      PROVE  \E k \in 1..Len(o) : o[k] = v
  <2>1. CASE v \in A
    <3>1. PICK k \in 1..Len(a) : a[k] = v
      BY <2>1 DEF Arranges
    <3>2. k \in 1..Len(o)
      BY <1>1, <1>2
    <3> QED
      BY <1>2, <3>1, <3>2
  <2>2. CASE v \in B
    <3>1. PICK k \in 1..Len(b) : b[k] = v
      BY <2>2 DEF Arranges
    <3>2. Len(a) + k \in 1..Len(o)
      BY <1>1, <1>2
    <3> QED
      BY <1>2, <3>1, <3>2
  <2> QED
    BY <2>1, <2>2
<1>6. \A v : v \in A \cup B <=> \E k \in 1..Len(o) : o[k] = v
  BY <1>3, <1>5, Zenon
<1> QED
  BY <1>2, <1>4, <1>6 DEF Arranges, Chains, o

\* The order of one element.
LEMMA OneArranges ==
  ASSUME NEW e \in Nat
  PROVE  Arranges(<<e>>, {e}) /\ Len(<<e>>) = 1 /\ <<e>>[1] = e
BY DEF Arranges

\* An order without its i-th element.
LEMMA RemoveArranges ==
  ASSUME NEW order, NEW S, Arranges(order, S), NEW i \in 1..Len(order)
  PROVE  Arranges(RemoveAt(order, i), S \ {order[i]}) /\ Len(RemoveAt(order, i)) = Len(order) - 1
<1>0. Len(order) \in Nat /\ \A j, k \in 1..Len(order) : order[j] = order[k] => j = k
  BY DEF Arranges
<1>1. /\ Arranges(SubSeq(order, 1, i - 1), {order[k] : k \in 1..i - 1})
      /\ Len(SubSeq(order, 1, i - 1)) = i - 1
  <2>1. 1 \in 1..Len(order) + 1 /\ i - 1 \in 1 - 1..Len(order) /\ (i - 1) - 1 + 1 = i - 1
    BY <1>0
  <2> DEFINE m == i - 1
  <2>2. Len(SubSeq(order, 1, m)) = m - 1 + 1 /\ Arranges(SubSeq(order, 1, m), {order[k] : k \in 1..m})
    BY <2>1, PartArranges, SMTT(30)
  <2> QED
    BY <2>1, <2>2
<1>2. /\ Arranges(SubSeq(order, i + 1, Len(order)), {order[k] : k \in i + 1..Len(order)})
      /\ Len(SubSeq(order, i + 1, Len(order))) = Len(order) - i
  <2> DEFINE j == i + 1  n == Len(order)
  <2>1. j \in 1..Len(order) + 1 /\ n \in j - 1..Len(order) /\ n - j + 1 = Len(order) - i
    BY <1>0
  <2> HIDE DEF j, n
  <2>2. /\ Len(SubSeq(order, j, n)) = n - j + 1
        /\ Arranges(SubSeq(order, j, n), {order[k] : k \in j..n})
    BY <2>1, PartArranges
  <2> QED
    BY <2>1, <2>2 DEF j, n
<1>3. {order[k] : k \in 1..i - 1} \cap {order[k] : k \in i + 1..Len(order)} = {}
  BY <1>0
<1>4. {order[k] : k \in 1..i - 1} \cup {order[k] : k \in i + 1..Len(order)} = S \ {order[i]}
  <2>1. \A v : v \in S <=> \E k \in 1..Len(order) : order[k] = v
    BY DEF Arranges
  <2>2. \A k \in 1..Len(order) : k \in 1..i - 1 \/ k = i \/ k \in i + 1..Len(order)
    OBVIOUS
  <2>3. \A k \in 1..i - 1 : k \in 1..Len(order) /\ k # i
    BY <1>0
  <2>4. \A k \in i + 1..Len(order) : k \in 1..Len(order) /\ k # i
    BY <1>0
  <2> QED
    BY <1>0, <2>1, <2>2, <2>3, <2>4
<1> DEFINE a == SubSeq(order, 1, i - 1)  A == {order[k] : k \in 1..i - 1}
           b == SubSeq(order, i + 1, Len(order))  B == {order[k] : k \in i + 1..Len(order)}
<1> HIDE DEF a, b, A, B
<1>5. Arranges(a, A) /\ Arranges(b, B) /\ A \cap B = {} /\ A \cup B = S \ {order[i]}
      /\ Len(a) = i - 1 /\ Len(b) = Len(order) - i
  BY <1>1, <1>2, <1>3, <1>4, Zenon DEF a, A, b, B
<1>6. Arranges(a \o b, A \cup B) /\ Len(a \o b) = Len(a) + Len(b)
  <2>1. Chains(a, A, b, B, a \o b)
    BY <1>5, JoinArranges, Zenon
  <2> QED
    BY <2>1, Zenon DEF Chains
<1>7. RemoveAt(order, i) = a \o b
  BY Zenon DEF RemoveAt, a, b
<1>8. i - 1 + (Len(order) - i) = Len(order) - 1
  BY <1>0
<1>9. Len(a \o b) = Len(order) - 1
  BY <1>5, <1>6, <1>8, Zenon
<1> QED
  BY <1>5, <1>6, <1>7, <1>9, Zenon

\* o is order with e inserted at i.
Inserts(order, S, i, e, o) ==
    /\ Arranges(o, S \cup {e}) /\ Len(o) = Len(order) + 1 /\ o[i] = e
    /\ \A k \in 1..i - 1 : o[k] = order[k]
    /\ \A k \in i..Len(order) : o[k + 1] = order[k]

\* An order with a new element in the i-th place.
LEMMA InsertArranges ==
  ASSUME NEW order, NEW S, Arranges(order, S), NEW i \in 1..Len(order) + 1,
         NEW e \in Nat, e \notin S
  PROVE  Inserts(order, S, i, e, InsertAt(order, i, e))
<1> DEFINE a == SubSeq(order, 1, i - 1)  A == {order[k] : k \in 1..i - 1}
           b == SubSeq(order, i, Len(order))  B == {order[k] : k \in i..Len(order)}
           ae == a \o <<e>>
<1>0. /\ Len(order) \in Nat /\ \A j, k \in 1..Len(order) : order[j] = order[k] => j = k
      /\ \A v : v \in S <=> \E k \in 1..Len(order) : order[k] = v
  BY DEF Arranges
<1>1. Arranges(a, A) /\ Len(a) = i - 1 /\ \A k \in 1..i - 1 : a[k] = order[1 + k - 1]
  BY <1>0, PartArranges
<1>2. /\ Arranges(b, B) /\ Len(b) = Len(order) - i + 1
      /\ \A k \in 1..Len(order) - i + 1 : b[k] = order[i + k - 1]
  BY <1>0, PartArranges
<1>3. A \cap B = {} /\ A \cup B = S
  <2>1. \A k \in 1..Len(order) : k \in 1..i - 1 \/ k \in i..Len(order)
    OBVIOUS
  <2>2. \A k \in 1..i - 1 : k \in 1..Len(order) /\ k \notin i..Len(order)
    BY <1>0
  <2>3. \A k \in i..Len(order) : k \in 1..Len(order)
    BY <1>0
  <2> QED
    BY <1>0, <2>1, <2>2, <2>3
<1>4. InsertAt(order, i, e) = ae \o b
  BY DEF InsertAt
<1> HIDE DEF a, b, A, B
<1>5. /\ Arranges(ae, A \cup {e}) /\ Len(ae) = i
      /\ \A k \in 1..i - 1 : ae[k] = a[k]
      /\ ae[i] = e
  <2>1. A \cap {e} = {}
    BY <1>3
  <2>2. Arranges(<<e>>, {e}) /\ Len(<<e>>) = 1 /\ <<e>>[1] = e
    BY OneArranges
  <2>3. /\ Arranges(ae, A \cup {e}) /\ Len(ae) = Len(a) + Len(<<e>>)
        /\ \A k \in 1..Len(a) : ae[k] = a[k]
        /\ \A k \in 1..Len(<<e>>) : ae[Len(a) + k] = <<e>>[k]
    BY <1>1, <2>1, <2>2, JoinArranges DEF Chains
  <2> HIDE DEF ae
  <2>4. ae[i - 1 + 1] = e
    BY <1>1, <2>2, <2>3
  <2> QED
    BY <1>1, <2>2, <2>3, <2>4
<1> HIDE DEF ae
<1>6. /\ Arranges(ae \o b, (A \cup {e}) \cup B) /\ Len(ae \o b) = Len(ae) + Len(b)
      /\ \A k \in 1..Len(ae) : (ae \o b)[k] = ae[k]
      /\ \A k \in 1..Len(b) : (ae \o b)[Len(ae) + k] = b[k]
  <2>1. (A \cup {e}) \cap B = {}
    BY <1>3
  <2> QED
    BY <1>2, <1>5, <2>1, JoinArranges DEF Chains
<1> DEFINE o == ae \o b
<1> HIDE DEF o
<1>7. Arranges(o, S \cup {e})
  BY <1>3, <1>6 DEF o
<1>8. Len(o) = Len(order) + 1
  BY <1>0, <1>2, <1>5, <1>6 DEF o
<1>9. o[i] = e /\ \A k \in 1..i - 1 : o[k] = order[k]
  <2>1. \A k \in 1..i : o[k] = ae[k]
    BY <1>5, <1>6 DEF o
  <2>2. i \in 1..i /\ \A k \in 1..i - 1 : k \in 1..i /\ 1 + k - 1 = k
    BY <1>0
  <2> QED
    BY <1>1, <1>5, <2>1, <2>2
<1>10. ASSUME NEW k \in i..Len(order)
       PROVE  o[k + 1] = order[k]
  <2>1. PICK x \in Int : x = k - i + 1
    BY <1>0
  <2>2. x \in 1..Len(b) /\ i + x = k + 1 /\ i + x - 1 = k /\ x \in 1..Len(order) - i + 1
    BY <1>0, <1>2, <2>1
  <2>3. o[i + x] = b[x]
    BY <1>5, <1>6, <2>2 DEF o
  <2>4. b[x] = order[i + x - 1]
    BY <1>2, <2>2
  <2> QED
    BY <2>2, <2>3, <2>4
<1> QED
  BY <1>4, <1>7, <1>8, <1>9, <1>10 DEF o, Inserts

-----------------------------------------------------------------------------
(* Comments through such an edit                                                    *)

\* The comments of a line, without the union of sets.
LEMMA CommentsAre ==
  ASSUME NEW line \in VariationLines
  PROVE  \A x : x \in CommentsOf(line) <=>
            \/ x \in Range(line.lead) \/ x \in Range(line.trail)
            \/ \E i \in 1..Len(line.moves) :
                  x \in Range(line.moves[i].before) \/ x \in Range(line.moves[i].after)
<1>1. DOMAIN line.moves = 1..Len(line.moves)
  BY LineTypes
<1>2. \A x : x \in CommentsOf(line) <=>
            \/ x \in Range(line.lead) \/ x \in Range(line.trail)
            \/ \E i \in DOMAIN line.moves :
                  x \in Range(line.moves[i].before) \/ x \in Range(line.moves[i].after)
  <2> DEFINE At(i) == Range(line.moves[i].before) \cup Range(line.moves[i].after)
  <2>1. CommentsOf(line) =
           UNION ({Range(line.lead), Range(line.trail)} \cup {At(i) : i \in DOMAIN line.moves})
    BY DEF CommentsOf
  <2>2. \A i, x : x \in At(i) <=>
           x \in Range(line.moves[i].before) \/ x \in Range(line.moves[i].after)
    OBVIOUS
  <2> HIDE DEF At
  <2>3. \A x : x \in CommentsOf(line) <=>
            \/ x \in Range(line.lead) \/ x \in Range(line.trail)
            \/ \E i \in DOMAIN line.moves : x \in At(i)
    BY <2>1
  <2> QED
    BY <2>2, <2>3, Zenon
<1> QED
  BY <1>1, <1>2, Zenon

\* Setting the number of variations keeps the comments of a line.
LEMMA WithVarsComments ==
  ASSUME NEW line \in VariationLines, NEW owner \in 1..Len(line.moves), NEW n \in Nat
  PROVE  CommentsOf(WithVars(line, owner, n)) = CommentsOf(line)
<1> DEFINE new == WithVars(line, owner, n)
<1>1. /\ new \in VariationLines /\ Len(new.moves) = Len(line.moves)
      /\ new.lead = line.lead /\ new.trail = line.trail
      /\ \A i \in 1..Len(line.moves) :
            new.moves[i].before = line.moves[i].before /\ new.moves[i].after = line.moves[i].after
  BY WithVarsFacts
<1> HIDE DEF new
<1>2. \A x : x \in CommentsOf(new) <=> x \in CommentsOf(line)
  <2>1. \A x : x \in CommentsOf(new) <=>
            \/ x \in Range(new.lead) \/ x \in Range(new.trail)
            \/ \E i \in 1..Len(new.moves) :
                  x \in Range(new.moves[i].before) \/ x \in Range(new.moves[i].after)
    BY <1>1, CommentsAre
  <2>2. \A x : x \in CommentsOf(line) <=>
            \/ x \in Range(line.lead) \/ x \in Range(line.trail)
            \/ \E i \in 1..Len(line.moves) :
                  x \in Range(line.moves[i].before) \/ x \in Range(line.moves[i].after)
    BY CommentsAre
  <2> QED
    BY <1>1, <2>1, <2>2
<1>3. CommentsOf(new) = CommentsOf(line)
  BY <1>2
<1> QED
  BY <1>3 DEF new

\* The comments of a line are among those of its tree.
LEMMA CommentsIn ==
  ASSUME NEW t, NEW q \in Paths(t)
  PROVE  CommentsOf(t[q]) \subseteq Comments(t)
BY DEF Comments

\* An edit keeps the comments of every line it carries and has those of the lines it
\* sets.
LEMMA GraftKeepsComments ==
  ASSUME NEW tree, NEW P, NEW roots, NEW lines, Grafts(tree, P, roots, lines),
         NEW goes, goes = Goes(tree, P, roots),
         NEW t, t = Relocated(tree, goes, lines)
  PROVE  /\ \A p \in DOMAIN goes : p # P => CommentsOf(tree[p]) \subseteq Comments(t)
         /\ \A q \in DOMAIN lines : CommentsOf(lines[q]) \subseteq Comments(t)
<1>K. Kept(tree, P, lines, goes, t)
  BY RelocatedFacts
<1>1. ASSUME NEW p \in DOMAIN goes, p # P
      PROVE  CommentsOf(tree[p]) \subseteq Comments(t)
  <2>1. goes[p] \in Paths(t) /\ t[goes[p]] = tree[p]
    BY <1>1, <1>K, Zenon DEF Kept
  <2> QED
    BY <2>1, CommentsIn
<1>2. ASSUME NEW q \in DOMAIN lines
      PROVE  CommentsOf(lines[q]) \subseteq Comments(t)
  <2>1. q \in Paths(t) /\ t[q] = lines[q]
    BY <1>K, Zenon DEF Kept
  <2> QED
    BY <2>1, CommentsIn
<1> QED
  BY <1>1, <1>2

\* An edit of siblings keeps every line that goes somewhere.
Reseats(tree, edit) ==
    /\ IsTree(edit.tree)
    /\ \A p \in DOMAIN edit.goes :
          /\ CommentsOf(tree[p]) \subseteq Comments(edit.tree)
          /\ \A n \in 0..Len(tree[p].moves) :
                KeepsPlace(tree, edit.tree, Cursor(p, n), Cursor(edit.goes[p], n))

\* WithSiblings reseats the variations, and what it drops lies in those it leaves out.
LEMMA SiblingsFacts ==
  ASSUME NEW tree, NEW P, NEW owner, NEW order, NEW added, Reorders(tree, P, owner, order, added),
         NEW edit, edit = WithSiblings(tree, P, owner, order, added)
  PROVE  /\ Reseats(tree, edit)
         /\ edit.goes = Goes(tree, P, Reseated(tree, P, owner, order))
         /\ Carried(tree, P, Reseated(tree, P, owner, order), edit.goes)
         /\ \A p \in Paths(tree) : p \notin DOMAIN edit.goes =>
               \E s \in StepsFrom(tree[P]) :
                  s[1] = owner /\ s[2] \notin Range(order) /\ IsPrefix(Append(P, s), p)
<1> DEFINE roots == Reseated(tree, P, owner, order)
           line == WithVars(tree[P], owner, Len(order))
           lines == WithLine(added, P, line)
           goes == Goes(tree, P, roots)
           t == Relocated(tree, goes, lines)
<1>1. edit.goes = goes /\ edit.tree = t
  BY DEF WithSiblings, Edit
<1>2. Grafts(tree, P, roots, lines)
  BY ReseatedGrafts
<1>3. /\ IsTree(t)
      /\ \A p \in DOMAIN goes : \A n \in 0..Len(tree[p].moves) :
            KeepsPlace(tree, t, Cursor(p, n), Cursor(goes[p], n))
  BY ReseatPlayed
<1>4. \A p \in Paths(tree) : p \notin DOMAIN goes =>
         \E s \in StepsFrom(tree[P]) :
            s[1] = owner /\ s[2] \notin Range(order) /\ IsPrefix(Append(P, s), p)
  BY <1>2, ReseatGone
<1>5. /\ \A p \in DOMAIN goes : p # P => CommentsOf(tree[p]) \subseteq Comments(t)
      /\ \A q \in DOMAIN lines : CommentsOf(lines[q]) \subseteq Comments(t)
  BY <1>2, GraftKeepsComments
<1>6. P \in DOMAIN lines /\ lines[P] = line
  BY WithLineFacts
<1>7. CommentsOf(line) = CommentsOf(tree[P])
  <2>1. tree[P] \in VariationLines /\ owner \in 1..Len(tree[P].moves) /\ Len(order) \in Nat
    BY TreeFacts DEF Reorders
  <2> QED
    BY <2>1, WithVarsComments
<1>8. Carried(tree, P, roots, goes)
  BY <1>2, GoesFacts
<1> HIDE DEF roots, line, lines, goes, t
<1>9. CommentsOf(tree[P]) \subseteq Comments(t)
  BY <1>5, <1>6, <1>7
<1>10. Reseats(tree, edit)
  BY <1>1, <1>3, <1>5, <1>9, Zenon DEF Reseats
<1> QED
  BY <1>1, <1>4, <1>8, <1>10, Zenon DEF roots, goes

-----------------------------------------------------------------------------
(* Reordering and deleting a variation                                              *)

\* A variation: its parent, the move it replaces and its number among the variations
\* there.
LEMMA BranchFacts ==
  ASSUME NEW tree, IsTree(tree), NEW path \in Branches(tree)
  PROVE  /\ path \in Paths(tree) /\ path \in Seq(Steps) /\ path # <<>>
         /\ Parent(path) \in Paths(tree) /\ Parent(path) \in Seq(Steps)
         /\ Last(path) \in StepsFrom(tree[Parent(path)]) /\ Last(path) \in Steps
         /\ Last(path) = <<Owner(path), Index(path)>>
         /\ path = Append(Parent(path), Last(path))
         /\ Owner(path) \in 1..Len(tree[Parent(path)].moves)
         /\ OwnerMove(tree, path) = tree[Parent(path)].moves[Owner(path)]
         /\ OwnerMove(tree, path).vars \in Nat
         /\ Index(path) \in 1..OwnerMove(tree, path).vars
<1>1. path \in Paths(tree) /\ path \in Seq(Steps) /\ path # <<>>
  BY TreeFacts DEF Branches
<1>2. /\ Parent(path) \in Seq(Steps) /\ Last(path) \in Steps
      /\ path = Append(Parent(path), Last(path))
  BY <1>1, FrontOf
<1>3. Parent(path) \in Paths(tree) /\ Last(path) \in StepsFrom(tree[Parent(path)])
  BY <1>1, <1>2, TreeFacts
<1>4. tree[Parent(path)] \in VariationLines
  BY <1>3, TreeFacts
<1>5. OwnerMove(tree, path) = tree[Parent(path)].moves[Owner(path)]
  BY DEF OwnerMove
<1>6. /\ Last(path)[1] \in 1..Len(tree[Parent(path)].moves)
      /\ Last(path)[2] \in 1..tree[Parent(path)].moves[Last(path)[1]].vars
  BY <1>3, <1>4, StepsFromIs
<1>7. tree[Parent(path)].moves[Last(path)[1]].vars \in Nat
  BY <1>4, <1>6, LineTypes
<1>8. Last(path) = <<Last(path)[1], Last(path)[2]>>
  BY <1>2 DEF Steps
<1> QED
  BY <1>1, <1>2, <1>3, <1>5, <1>6, <1>7, <1>8, Zenon DEF Owner, Index

\* An edit that plants nothing seats only variations there were.
LEMMA NothingPlanted ==
  ASSUME NEW P, NEW owner, NEW n \in Nat, NEW order, NEW S, Arranges(order, S), S \subseteq 1..n
  PROVE  Plants(P, owner, order, n, <<>>)
<1>1. \A k \in 1..Len(order) : order[k] \in 1..n
  BY DEF Arranges
<1>2. DOMAIN <<>> = {}
  OBVIOUS
<1> QED
  BY <1>1, <1>2, Zenon DEF Plants

\* ReorderVariation loses no line.
LEMMA ReorderFacts ==
  ASSUME NEW tree, IsTree(tree), NEW path \in Branches(tree),
         NEW new \in 1..OwnerMove(tree, path).vars,
         NEW edit, edit = ReorderVariation(tree, path, new)
  PROVE  Reseats(tree, edit) /\ DOMAIN edit.goes = Paths(tree)
<1> DEFINE P == Parent(path)  owner == Owner(path)  n == OwnerMove(tree, path).vars
           i == Index(path)
           rest == RemoveAt(Order(n), i)
           order == InsertAt(rest, new, i)
<1>1. /\ P \in Paths(tree) /\ owner \in 1..Len(tree[P].moves) /\ n \in Nat /\ i \in 1..n
      /\ n = tree[P].moves[owner].vars /\ tree[P] \in VariationLines
  BY BranchFacts, TreeFacts
<1>2. edit = WithSiblings(tree, P, owner, order, <<>>)
  BY DEF ReorderVariation
<1>3. new \in 1..n
  OBVIOUS
<1> HIDE DEF P, owner, n, i
<1>4. Arranges(Order(n), 1..n) /\ Len(Order(n)) = n /\ Order(n)[i] = i
  BY <1>1, OrderFacts
<1>5. Arranges(rest, (1..n) \ {i}) /\ Len(rest) = n - 1
  BY <1>1, <1>4, RemoveArranges
<1> HIDE DEF rest
<1>6. Arranges(order, ((1..n) \ {i}) \cup {i})
  <2>1. new \in 1..Len(rest) + 1 /\ i \in Nat /\ i \notin (1..n) \ {i}
    BY <1>1, <1>3, <1>5
  <2> QED
    BY <1>5, <2>1, InsertArranges DEF Inserts
<1> HIDE DEF order
<1>7. Arranges(order, 1..n)
  <2>1. ((1..n) \ {i}) \cup {i} = 1..n
    BY <1>1
  <2> QED
    BY <1>6, <2>1
<1>8. Plants(P, owner, order, n, <<>>)
  BY <1>1, <1>7, NothingPlanted
<1>9. Reorders(tree, P, owner, order, <<>>)
  BY <1>1, <1>7, <1>8 DEF Reorders, Arranges
<1>10. /\ Reseats(tree, edit)
       /\ Carried(tree, P, Reseated(tree, P, owner, order), edit.goes)
       /\ \A p \in Paths(tree) : p \notin DOMAIN edit.goes =>
             \E s \in StepsFrom(tree[P]) :
                s[1] = owner /\ s[2] \notin Range(order) /\ IsPrefix(Append(P, s), p)
  BY <1>2, <1>9, SiblingsFacts
<1>11. \A s \in StepsFrom(tree[P]) : s[1] = owner => s[2] \in Range(order)
  <2>1. \A s \in StepsFrom(tree[P]) : s[1] = owner => s[2] \in 1..n
    BY <1>1, StepsFromIs
  <2> QED
    BY <1>7, <2>1, RangeOf
<1>12. \A p \in DOMAIN edit.goes : p \in Paths(tree)
  BY <1>10, Zenon DEF Carried
<1> QED
  BY <1>10, <1>11, <1>12

\* DeleteVariation loses the lines of the variation it deletes and no other.
LEMMA DeleteFacts ==
  ASSUME NEW tree, IsTree(tree), NEW path \in Branches(tree),
         NEW edit, edit = DeleteVariation(tree, path)
  PROVE  /\ Reseats(tree, edit) /\ DOMAIN edit.goes \subseteq Paths(tree)
         /\ \A p \in Paths(tree) : p \notin DOMAIN edit.goes => IsPrefix(path, p)
         /\ Parent(path) \in DOMAIN edit.goes /\ edit.goes[Parent(path)] = Parent(path)
<1> DEFINE P == Parent(path)  owner == Owner(path)  n == OwnerMove(tree, path).vars
           i == Index(path)
           order == RemoveAt(Order(n), i)
<1>1. /\ P \in Paths(tree) /\ owner \in 1..Len(tree[P].moves) /\ n \in Nat /\ i \in 1..n
      /\ n = tree[P].moves[owner].vars /\ tree[P] \in VariationLines
      /\ path = Append(P, <<owner, i>>)
  BY BranchFacts, TreeFacts
<1>2. edit = WithSiblings(tree, P, owner, order, <<>>)
  BY DEF DeleteVariation
<1> HIDE DEF P, owner, n, i
<1>4. Arranges(Order(n), 1..n) /\ Len(Order(n)) = n /\ Order(n)[i] = i
  BY <1>1, OrderFacts
<1>5. Arranges(order, (1..n) \ {i})
  BY <1>1, <1>4, RemoveArranges
<1> HIDE DEF order
<1>8. Plants(P, owner, order, n, <<>>)
  BY <1>1, <1>5, NothingPlanted
<1>9. Reorders(tree, P, owner, order, <<>>)
  BY <1>1, <1>5, <1>8 DEF Reorders, Arranges
<1>10. /\ Reseats(tree, edit)
       /\ Carried(tree, P, Reseated(tree, P, owner, order), edit.goes)
       /\ \A p \in Paths(tree) : p \notin DOMAIN edit.goes =>
             \E s \in StepsFrom(tree[P]) :
                s[1] = owner /\ s[2] \notin Range(order) /\ IsPrefix(Append(P, s), p)
  BY <1>2, <1>9, SiblingsFacts
<1>11. \A s \in StepsFrom(tree[P]) : s[1] = owner /\ s[2] \notin Range(order) => s = <<owner, i>>
  <2>1. \A s \in StepsFrom(tree[P]) :
           s \in Steps /\ (s[1] = owner => s[2] \in 1..n)
    BY <1>1, StepsFromIs
  <2>2. \A s \in Steps : s = <<s[1], s[2]>>
    BY DEF Steps
  <2>3. Range(order) = (1..n) \ {i}
    BY <1>5, RangeOf
  <2> QED
    BY <2>1, <2>2, <2>3
<1>12. \A p \in DOMAIN edit.goes : p \in Paths(tree)
  BY <1>10, Zenon DEF Carried
<1>13. ~IsStrictPrefix(P, P)
  BY DEF IsStrictPrefix
<1>14. P \in DOMAIN edit.goes /\ edit.goes[P] = P
  BY <1>1, <1>10, <1>13, Zenon DEF Carried
<1> QED
  BY <1>1, <1>10, <1>11, <1>12, <1>14 DEF P

-----------------------------------------------------------------------------
(* Adding a variation                                                               *)

\* The lines of a planted variation: those of the variation, at their new addresses.
LEMMA PlantedFacts ==
  ASSUME NEW variation, IsTree(variation), NEW R \in Seq(Steps),
         NEW added, added = Planted(variation, R)
  PROVE  /\ \A q : q \in DOMAIN added <=> \E p \in Paths(variation) : q = R \o p
         /\ \A p \in Paths(variation) : added[R \o p] = variation[p]
<1>1. \A q : q \in DOMAIN added <=> \E p \in Paths(variation) : q = R \o p
  BY DEF Planted
<1>2. ASSUME NEW p \in Paths(variation)
      PROVE  added[R \o p] = variation[p]
  <2>1. p \in Seq(Steps)
    BY TreeFacts
  <2>2. SubSeq(R \o p, Len(R) + 1, Len(R \o p)) = p
    BY <2>1, PathConcat
  <2>3. R \o p \in {R \o x : x \in Paths(variation)}
    OBVIOUS
  <2>4. added[R \o p] = variation[SubSeq(R \o p, Len(R) + 1, Len(R \o p))]
    BY <2>3, Zenon DEF Planted
  <2> QED
    BY <2>2, <2>4
<1> QED
  BY <1>1, <1>2

\* Planting a variation in the place an order leaves for it.
LEMMA PlantedPlants ==
  ASSUME NEW P \in Seq(Steps), NEW owner \in Nat, NEW order \in Seq(Nat), NEW n \in Nat,
         NEW index \in 1..Len(order), order[index] = 0,
         \A k \in 1..Len(order) : k # index => order[k] \in 1..n,
         NEW variation, IsTree(variation)
  PROVE  Plants(P, owner, order, n, Planted(variation, Append(P, <<owner, index>>)))
<1> DEFINE R == Append(P, <<owner, index>>)
           added == Planted(variation, R)
<1>0. Len(order) \in Nat /\ index \in Nat /\ order[index] \notin 1..n
  OBVIOUS
<1>1. R \in Seq(Steps)
  BY <1>0 DEF Steps
<1>2. /\ \A q : q \in DOMAIN added <=> \E p \in Paths(variation) : q = R \o p
      /\ \A p \in Paths(variation) : added[R \o p] = variation[p]
  BY <1>1, PlantedFacts, ZenonT(30)
<1>3. /\ <<>> \in Paths(variation)
      /\ \A p \in Paths(variation) : p \in Seq(Steps) /\ variation[p] \in VariationLines
      /\ \A p \in Paths(variation) : \A s \in StepsFrom(variation[p]) :
            s \in Steps /\ Append(p, s) \in Paths(variation)
      /\ \A p \in Seq(Steps), s \in Steps : Append(p, s) \in Paths(variation) =>
            p \in Paths(variation) /\ s \in StepsFrom(variation[p])
  BY TreeFacts
<1> HIDE DEF added
<1>4. R \in DOMAIN added
  <2>1. R \o <<>> = R
    BY <1>1, ConcatEmptySeq
  <2> QED
    BY <1>2, <1>3, <2>1
<1> HIDE DEF R
<1>5. ASSUME NEW q \in DOMAIN added
      PROVE  /\ q \in Seq(Steps) /\ added[q] \in VariationLines
             /\ IsPrefix(R, q)
             /\ \A s \in StepsFrom(added[q]) : Append(q, s) \in DOMAIN added
             /\ \/ q = R
                \/ Parent(q) \in DOMAIN added /\ Last(q) \in StepsFrom(added[Parent(q)])
  <2>1. PICK p \in Paths(variation) : q = R \o p
    BY <1>2
  <2>2. p \in Seq(Steps) /\ added[q] = variation[p] /\ variation[p] \in VariationLines
    BY <1>2, <1>3, <2>1
  <2>3. q \in Seq(Steps) /\ IsPrefix(R, q)
    BY <1>1, <2>1, <2>2, PathConcat
  <2>4. ASSUME NEW s \in StepsFrom(added[q])
        PROVE  Append(q, s) \in DOMAIN added
    <3>1. s \in Steps /\ Append(p, s) \in Paths(variation)
      BY <1>3, <2>2
    <3>2. Append(q, s) = R \o Append(p, s)
      BY <1>1, <2>1, <2>2, <3>1, AppendConcat
    <3> QED
      BY <1>2, <3>1, <3>2
  <2>5. CASE p = <<>>
    BY <1>1, <2>1, <2>2, <2>3, <2>4, <2>5, ConcatEmptySeq
  <2>6. CASE p # <<>>
    <3>1. PICK x \in Seq(Steps), s \in Steps : p = Append(x, s)
      BY <2>2, <2>6, SequenceEmptyOrAppend
    <3>2. x \in Paths(variation) /\ s \in StepsFrom(variation[x])
      BY <1>3, <3>1
    <3>3. q = Append(R \o x, s) /\ R \o x \in Seq(Steps)
      BY <1>1, <2>1, <3>1, AppendConcat, PathConcat
    <3>4. Parent(q) = R \o x /\ Last(q) = s
      BY <3>1, <3>3, FrontLast
    <3>5. Parent(q) \in DOMAIN added /\ added[Parent(q)] = variation[x]
      BY <1>2, <3>2, <3>4
    <3> QED
      BY <2>2, <2>3, <2>4, <3>2, <3>4, <3>5
  <2> QED
    BY <2>5, <2>6
<1> USE DEF R
<1>6. \A k \in 1..Len(order) : order[k] \in 1..n \/ Append(P, <<owner, k>>) \in DOMAIN added
  BY <1>4
<1>7. \A q \in DOMAIN added :
         \E k \in 1..Len(order) : order[k] \notin 1..n /\ IsPrefix(Append(P, <<owner, k>>), q)
  BY <1>0, <1>5
<1>8. \A q \in DOMAIN added :
         \/ \E k \in 1..Len(order) : q = Append(P, <<owner, k>>)
         \/ Parent(q) \in DOMAIN added /\ Last(q) \in StepsFrom(added[Parent(q)])
  BY <1>5
<1>9. Plants(P, owner, order, n, added)
  BY <1>5, <1>6, <1>7, <1>8, Zenon DEF Plants
<1> QED
  BY <1>9, Zenon DEF added

\* The step that takes the place of the first step below P.
LEMMA StepReplaced ==
  ASSUME NEW P \in Seq(Steps), NEW s \in Steps, NEW x \in Steps, NEW u \in Seq(Steps)
  PROVE  /\ (Append(P, s) \o u)[Len(P) + 1] = s
         /\ Len(Append(P, s) \o u) >= Len(P) + 1
         /\ SubSeq(Append(P, s) \o u, 1, Len(P)) = P
         /\ [Append(P, s) \o u EXCEPT ![Len(P) + 1] = x] = Append(P, x) \o u
<1> DEFINE a == Append(P, s) \o u  b == Append(P, x) \o u
<1>1. /\ a \in Seq(Steps) /\ Len(a) = Len(P) + 1 + Len(u)
      /\ \A i \in 1..Len(P) : a[i] = P[i]
      /\ a[Len(P) + 1] = s
      /\ \A i \in 1..Len(u) : a[Len(P) + 1 + i] = u[i]
  OBVIOUS
<1>2. /\ b \in Seq(Steps) /\ Len(b) = Len(P) + 1 + Len(u)
      /\ \A i \in 1..Len(P) : b[i] = P[i]
      /\ b[Len(P) + 1] = x
      /\ \A i \in 1..Len(u) : b[Len(P) + 1 + i] = u[i]
  OBVIOUS
<1> HIDE DEF a, b
<1>3. SubSeq(a, 1, Len(P)) = P
  BY <1>1
<1>4. \A i \in 1..Len(P) + 1 + Len(u) : i # Len(P) + 1 => a[i] = b[i]
  <2> SUFFICES ASSUME NEW i \in 1..Len(P) + 1 + Len(u), i # Len(P) + 1
               PROVE  a[i] = b[i]
    OBVIOUS
  <2>0. Len(P) \in Nat /\ Len(u) \in Nat /\ i \in Int
    OBVIOUS
  <2>1. CASE i \in 1..Len(P)
    BY <1>1, <1>2, <2>1
  <2>2. CASE i > Len(P) + 1
    <3>1. \A j \in 1..Len(u) : a[Len(P) + 1 + j] = b[Len(P) + 1 + j]
      BY <1>1, <1>2
    <3>2. i - Len(P) - 1 \in 1..Len(u) /\ i = Len(P) + 1 + (i - Len(P) - 1)
      BY <2>0, <2>2
    <3> QED
      BY <3>1, <3>2, Zenon
  <2> QED
    BY <2>1, <2>2
<1>5. [a EXCEPT ![Len(P) + 1] = x] = b
  <2>1. Len(P) + 1 \in 1..Len(a)
    BY <1>1
  <2>2. /\ [a EXCEPT ![Len(P) + 1] = x] \in Seq(Steps)
        /\ Len([a EXCEPT ![Len(P) + 1] = x]) = Len(a)
        /\ \A i \in 1..Len(a) : [a EXCEPT ![Len(P) + 1] = x][i] = IF i = Len(P) + 1 THEN x ELSE a[i]
    BY <1>1, <2>1, ExceptSeq
  <2> DEFINE c == [a EXCEPT ![Len(P) + 1] = x]
  <2> HIDE DEF c
  <2>3. c \in Seq(Steps) /\ Len(c) = Len(b) /\ \A i \in 1..Len(b) : c[i] = b[i]
    BY <1>1, <1>2, <1>4, <2>2 DEF c
  <2>4. c = b
    BY <1>2, <2>3
  <2> QED
    BY <2>4 DEF c
<1>6. Len(a) >= Len(P) + 1
  BY <1>1
<1> QED
  BY <1>1, <1>3, <1>5, <1>6 DEF a, b

\* What ShiftPath does to a path: outside, and below each variation of the line.
LEMMA ShiftFacts ==
  ASSUME NEW P \in Seq(Steps), NEW owner \in Nat, NEW index \in Nat
  PROVE  /\ \A p \in Seq(Steps) : ~IsStrictPrefix(P, p) => ShiftPath(p, P, owner, index) = p
         /\ \A s \in Steps, u \in Seq(Steps) :
               ShiftPath(Append(P, s) \o u, P, owner, index) =
                  Append(P, IF s[1] = owner /\ s[2] >= index THEN <<owner, s[2] + 1>> ELSE s) \o u
<1>1. ASSUME NEW p \in Seq(Steps), ~IsStrictPrefix(P, p)
      PROVE  ShiftPath(p, P, owner, index) = p
  <2>1. ~(Len(p) >= Len(P) + 1 /\ SubSeq(p, 1, Len(P) + 1 - 1) = P)
    <3>1. SUFFICES ASSUME Len(p) >= Len(P) + 1, SubSeq(p, 1, Len(P) + 1 - 1) = P
                   PROVE  FALSE
      OBVIOUS
    <3>2. Len(P) + 1 - 1 = Len(P) /\ Len(P) < Len(p) /\ Len(P) <= Len(p)
      BY <3>1
    <3>3. SubSeq(P, 1, Len(P)) = P
      OBVIOUS
    <3>4. IsPrefix(P, p)
      BY <3>1, <3>2, <3>3 DEF IsPrefix
    <3> QED
      BY <1>1, <3>2, <3>4, StrictPrefix
  <2> QED
    BY <2>1 DEF ShiftPath
<1>2. ASSUME NEW s \in Steps, NEW u \in Seq(Steps)
      PROVE  ShiftPath(Append(P, s) \o u, P, owner, index) =
                Append(P, IF s[1] = owner /\ s[2] >= index THEN <<owner, s[2] + 1>> ELSE s) \o u
  <2> DEFINE p == Append(P, s) \o u
             x == <<owner, s[2] + 1>>
  <2>1. x \in Steps
    BY DEF Steps
  <2> HIDE DEF x
  <2>2. /\ p[Len(P) + 1] = s /\ Len(p) >= Len(P) + 1
        /\ SubSeq(p, 1, Len(P)) = P
        /\ [p EXCEPT ![Len(P) + 1] = x] = Append(P, x) \o u
    BY <2>1, StepReplaced
  <2>3. Len(P) + 1 - 1 = Len(P)
    OBVIOUS
  <2> HIDE DEF p
  <2>4. ShiftPath(p, P, owner, index) =
           IF /\ Len(p) >= Len(P) + 1 /\ SubSeq(p, 1, Len(P) + 1 - 1) = P
              /\ p[Len(P) + 1][1] = owner /\ p[Len(P) + 1][2] >= index
           THEN [p EXCEPT ![Len(P) + 1] = <<owner, @[2] + 1>>]
           ELSE p
    BY DEF ShiftPath
  <2>5. ShiftPath(p, P, owner, index) =
           IF s[1] = owner /\ s[2] >= index THEN [p EXCEPT ![Len(P) + 1] = x] ELSE p
    BY <2>2, <2>3, <2>4 DEF x
  <2>6. ShiftPath(p, P, owner, index) =
           Append(P, IF s[1] = owner /\ s[2] >= index THEN x ELSE s) \o u
    BY <2>2, <2>5, Zenon DEF p
  <2> QED
    BY <2>6, Zenon DEF p, x
<1> QED
  BY <1>1, <1>2, Zenon

\* AddVariation loses no line, and ShiftPath, which renumbers paths without following
\* any line, sends each where it went.
THEOREM AddFacts ==
  ASSUME NEW tree, IsTree(tree), NEW P \in Paths(tree), NEW owner \in DOMAIN tree[P].moves,
         NEW index \in 1..tree[P].moves[owner].vars + 1,
         NEW variation, IsTree(variation),
         NEW edit, edit = AddVariation(tree, P, owner, index, variation)
  PROVE  /\ Reseats(tree, edit) /\ DOMAIN edit.goes = Paths(tree)
         /\ \A p \in Paths(tree) : ShiftPath(p, P, owner, index) = edit.goes[p]
<1> DEFINE n == tree[P].moves[owner].vars
           order == InsertAt(Order(n), index, 0)
           added == Planted(variation, Append(P, <<owner, index>>))
           roots == Reseated(tree, P, owner, order)
<1>1. /\ P \in Seq(Steps) /\ tree[P] \in VariationLines /\ owner \in 1..Len(tree[P].moves)
      /\ owner \in Nat /\ n \in Nat /\ index \in 1..n + 1 /\ index \in Nat
  <2>1. P \in Seq(Steps) /\ tree[P] \in VariationLines
    BY TreeFacts
  <2> QED
    BY <2>1, LineTypes
<1>2. edit = WithSiblings(tree, P, owner, order, added)
  BY DEF AddVariation
<1>3. Arranges(Order(n), 1..n) /\ Len(Order(n)) = n /\ \A k \in 1..n : Order(n)[k] = k
  BY <1>1, OrderFacts
<1>4. /\ Arranges(order, (1..n) \cup {0}) /\ Len(order) = n + 1 /\ order[index] = 0
      /\ \A k \in 1..index - 1 : order[k] = Order(n)[k]
      /\ \A k \in index..n : order[k + 1] = Order(n)[k]
  <2>1. 0 \in Nat /\ 0 \notin 1..n /\ index \in 1..Len(Order(n)) + 1
    BY <1>1, <1>3
  <2> DEFINE o == Order(n)  S == 1..n
  <2>2. Arranges(o, S) /\ index \in 1..Len(o) + 1 /\ 0 \notin S
    BY <1>3, <2>1
  <2> HIDE DEF n, o, S
  <2>3. Inserts(o, S, index, 0, InsertAt(o, index, 0))
    BY <2>1, <2>2, InsertArranges
  <2>4. Len(o) = n
    BY <1>3 DEF o
  <2> QED
    BY <2>3, <2>4 DEF o, S, Inserts
<1> HIDE DEF order
<1>5. /\ order \in Seq(Nat) /\ Len(order) \in Nat
      /\ \A j, k \in 1..Len(order) : order[j] = order[k] => j = k
      /\ \A k \in 1..Len(order) : order[k] \in (1..n) \cup {0}
  BY <1>4 DEF Arranges
<1>6. index \in 1..Len(order) /\ \A k \in 1..Len(order) : k # index => order[k] \in 1..n
  BY <1>1, <1>4, <1>5
<1>7. Plants(P, owner, order, n, added)
  BY <1>1, <1>4, <1>5, <1>6, PlantedPlants
<1>8. Reorders(tree, P, owner, order, added)
  BY <1>1, <1>5, <1>7 DEF Reorders
<1> HIDE DEF added
<1>9. /\ Reseats(tree, edit)
      /\ Carried(tree, P, roots, edit.goes)
      /\ \A p \in Paths(tree) : p \notin DOMAIN edit.goes =>
            \E s \in StepsFrom(tree[P]) :
               s[1] = owner /\ s[2] \notin Range(order) /\ IsPrefix(Append(P, s), p)
  BY <1>2, <1>8, SiblingsFacts
<1>10. \A s \in StepsFrom(tree[P]) : s \in Steps /\ (s[1] = owner => s[2] \in 1..n)
  BY <1>1, StepsFromIs
<1>11. \A v \in 1..n : v \in Range(order)
  BY <1>4, RangeOf
<1>12. DOMAIN edit.goes = Paths(tree)
  <2>1. \A p \in DOMAIN edit.goes : p \in Paths(tree)
    BY <1>9, Zenon DEF Carried
  <2> QED
    BY <1>9, <1>10, <1>11, <2>1
<1>13. \A v \in 1..n : Place(order, v) = IF v >= index THEN v + 1 ELSE v
  <2> SUFFICES ASSUME NEW v \in 1..n
               PROVE  Place(order, v) = IF v >= index THEN v + 1 ELSE v
    OBVIOUS
  <2>1. \A k \in 1..Len(order) : Place(order, order[k]) = k
    BY <1>5, PlaceFacts
  <2>2. CASE v >= index
    <3>0. v \in index..n /\ v + 1 \in 1..n + 1
      BY <1>1, <2>2
    <3>1. v + 1 \in 1..Len(order) /\ order[v + 1] = v
      BY <1>3, <1>4, <3>0, Zenon
    <3> QED
      BY <2>1, <2>2, <3>1
  <2>3. CASE ~(v >= index)
    <3>0. v \in 1..index - 1 /\ v \in 1..n + 1
      BY <1>1, <2>3
    <3>1. v \in 1..Len(order) /\ order[v] = v
      BY <1>3, <1>4, <3>0, Zenon
    <3> QED
      BY <2>1, <2>3, <3>1
  <2> QED
    BY <2>2, <2>3
<1>14. ASSUME NEW p \in Paths(tree)
       PROVE  ShiftPath(p, P, owner, index) = edit.goes[p]
  <2>1. p \in Seq(Steps)
    BY TreeFacts
  <2>2. CASE ~IsStrictPrefix(P, p)
    <3>1. edit.goes[p] = p
      BY <1>9, <2>2, Zenon DEF Carried
    <3> QED
      BY <1>1, <2>1, <2>2, <3>1, ShiftFacts
  <2>3. CASE IsStrictPrefix(P, p)
    <3>1. PICK r \in DOMAIN roots, u \in Seq(Steps) : p = r \o u
      BY <1>9, <1>12, <2>3, Zenon DEF Carried
    <3>2. edit.goes[p] = roots[r] \o u
      BY <1>9, <3>1, Zenon DEF Carried
    <3>3. PICK s \in StepsFrom(tree[P]) : r = Append(P, s)
      BY <1>8, ReseatedFacts
    <3>4. s \in Steps /\ (s[1] = owner => s[2] \in 1..n)
      BY <1>10
    <3>5. roots[r] = Append(P, Reseat(P, owner, order, s))
      BY <1>8, <3>3, <3>4, ReseatedFacts
    <3>6. Reseat(P, owner, order, s) =
             IF s[1] = owner /\ s[2] >= index THEN <<owner, s[2] + 1>> ELSE s
      <4>1. CASE s[1] # owner
        BY <4>1 DEF Reseat
      <4>2. CASE s[1] = owner /\ s[2] >= index
        BY <1>13, <3>4, <4>2 DEF Reseat
      <4>3. CASE s[1] = owner /\ ~(s[2] >= index)
        <5>1. Place(order, s[2]) = s[2] /\ s = <<s[1], s[2]>>
          BY <1>13, <3>4, <4>3 DEF Steps
        <5> QED
          BY <4>3, <5>1 DEF Reseat
      <4> QED
        BY <4>1, <4>2, <4>3
    <3>7. ShiftPath(Append(P, s) \o u, P, owner, index) =
             Append(P, IF s[1] = owner /\ s[2] >= index THEN <<owner, s[2] + 1>> ELSE s) \o u
      BY <1>1, <3>4, ShiftFacts, ZenonT(30)
    <3> QED
      BY <3>1, <3>2, <3>3, <3>5, <3>6, <3>7, Zenon
  <2> QED
    BY <2>2, <2>3
<1> QED
  BY <1>9, <1>12, <1>14

-----------------------------------------------------------------------------
(* Promotion: the two lines it makes                                                *)

\* The moves of the line a promotion makes of the parent and the selected line.
Joins(parent, owner, selected, count, line) ==
    /\ line \in VariationLines
    /\ Len(line.moves) = owner - 1 + Len(selected.moves)
    /\ \A j \in 1..owner - 1 : line.moves[j] = parent.moves[j]
    /\ line.moves[owner].san = selected.moves[1].san
    /\ line.moves[owner].before = selected.lead \o selected.moves[1].before
    /\ line.moves[owner].after = selected.moves[1].after
    /\ line.moves[owner].vars = count + selected.moves[1].vars
    /\ \A k \in 2..Len(selected.moves) : line.moves[owner + k - 1] = selected.moves[k]
    /\ line.lead = parent.lead /\ line.trail = selected.trail

\* The moves of the line it makes of the rest of the parent.
Splits(parent, owner, line) ==
    /\ line \in VariationLines
    /\ Len(line.moves) = Len(parent.moves) - owner + 1
    /\ line.moves[1].san = parent.moves[owner].san
    /\ line.moves[1].before = parent.moves[owner].before
    /\ line.moves[1].after = parent.moves[owner].after
    /\ line.moves[1].vars = 0
    /\ \A k \in 2..Len(parent.moves) - owner + 1 : line.moves[k] = parent.moves[owner + k - 1]
    /\ line.trail = parent.trail

\* c is a followed by b.
IsJoin(T, a, b, c) ==
    /\ c \in Seq(T) /\ Len(c) = Len(a) + Len(b)
    /\ \A j \in 1..Len(a) : c[j] = a[j]
    /\ \A j \in 1..Len(b) : c[Len(a) + j] = b[j]

\* Concatenation joins.
LEMMA Joined ==
  ASSUME NEW T, NEW a \in Seq(T), NEW b \in Seq(T)
  PROVE  IsJoin(T, a, b, a \o b)
BY DEF IsJoin

\* The first promoted move: its comment and its number of variations change.
IsChange(m, comment, n, new) ==
    /\ new \in Moves /\ new.san = m.san /\ new.before = comment
    /\ new.after = m.after /\ new.vars = n

\* EXCEPT makes that change.
LEMMA HeadChanged ==
  ASSUME NEW m \in Moves, NEW comment \in Seq(Texts), NEW n \in Nat
  PROVE  IsChange(m, comment, n, [m EXCEPT !.before = comment, !.vars = n])
BY DEF Moves, IsChange

\* Demoted is the rest of the parent from the replaced move on.
LEMMA DemotedSplits ==
  ASSUME NEW parent \in VariationLines, NEW owner \in 1..Len(parent.moves)
  PROVE  Splits(parent, owner, Demoted(parent, owner))
<1> DEFINE m == [parent.moves[owner] EXCEPT !.vars = 0]
           rest == SubSeq(parent.moves, owner + 1, Len(parent.moves))
           ms == <<m>> \o rest
           line == Demoted(parent, owner)
<1>1. /\ parent.moves \in Seq(Moves) /\ parent.moves[owner] \in Moves
      /\ parent.trail \in Seq(Texts) /\ parent.result \in Results \cup {None}
      /\ Len(parent.moves) \in Nat /\ owner \in Nat
  BY LineTypes
<1>2. /\ m \in Moves /\ m.vars = 0 /\ m.san = parent.moves[owner].san
      /\ m.before = parent.moves[owner].before /\ m.after = parent.moves[owner].after
  BY <1>1 DEF Moves
<1> HIDE DEF m
<1>3. /\ rest \in Seq(Moves) /\ Len(rest) = Len(parent.moves) - owner
      /\ \A j \in 1..Len(parent.moves) - owner : rest[j] = parent.moves[owner + j]
  BY <1>1, SMTT(30)
<1> HIDE DEF rest
<1>4. /\ ms \in Seq(Moves) /\ Len(ms) = 1 + Len(rest) /\ ms[1] = m
      /\ \A j \in 1..Len(rest) : ms[1 + j] = rest[j]
  <2>1. <<m>> \in Seq(Moves) /\ Len(<<m>>) = 1 /\ <<m>>[1] = m /\ 1 \in 1..1
    BY <1>2
  <2> QED
    <3> DEFINE one == <<m>>
    <3> HIDE DEF one
    <3>1. IsJoin(Moves, one, rest, one \o rest)
      BY <1>3, <2>1, Joined DEF one
    <3>2. ms = one \o rest /\ one[1] = m /\ Len(one) = 1 /\ 1 \in 1..1
      BY <2>1 DEF one
    <3> HIDE DEF ms
    <3> QED
      BY <3>1, <3>2, Zenon DEF IsJoin
<1> HIDE DEF ms
<1>5. line = [moves |-> ms, lead |-> <<>>, trail |-> parent.trail, result |-> parent.result]
  BY Zenon DEF Demoted, ms, m, rest
<1>6. line \in VariationLines /\ line.moves = ms /\ line.trail = parent.trail
  <2>1. <<>> \in Seq(Texts)
    OBVIOUS
  <2> HIDE DEF line
  <2> QED
    BY <1>1, <1>4, <1>5, <2>1 DEF VariationLines
<1> HIDE DEF line
<1>7. Len(ms) = Len(parent.moves) - owner + 1
  BY <1>1, <1>3, <1>4
<1>8. ASSUME NEW k \in 2..Len(parent.moves) - owner + 1
      PROVE  ms[k] = parent.moves[owner + k - 1]
  <2>1. k - 1 \in 1..Len(parent.moves) - owner /\ 1 + (k - 1) = k /\ owner + (k - 1) = owner + k - 1
    BY <1>1
  <2> QED
    BY <1>3, <1>4, <2>1
<1>9. Splits(parent, owner, line)
  BY <1>2, <1>4, <1>6, <1>7, <1>8 DEF Splits
<1> QED
  BY <1>9 DEF line

\* PromotedLine is the parent up to the replaced move and then the selected line.
LEMMA PromotedJoins ==
  ASSUME NEW tree, IsTree(tree), NEW path \in Branches(tree), tree[path].moves # <<>>,
         NEW count \in Nat, count = Len(Siblings(tree, path))
  PROVE  Joins(tree[Parent(path)], Owner(path), tree[path], count, PromotedLine(tree, path))
<1> DEFINE parent == tree[Parent(path)]  selected == tree[path]  owner == Owner(path)
           head == selected.moves[1]
           comment == selected.lead \o head.before
           first == [head EXCEPT !.before = comment, !.vars = count + @]
           start == SubSeq(parent.moves, 1, owner - 1)
           rest == Tail(selected.moves)
           begun == start \o <<first>>
           ms == begun \o rest
           result == IF selected.result # None THEN selected.result ELSE parent.result
           line == PromotedLine(tree, path)
<1>1. parent \in VariationLines /\ selected \in VariationLines /\ owner \in 1..Len(parent.moves)
  BY BranchFacts, TreeFacts
<1>2. /\ parent.moves \in Seq(Moves) /\ parent.lead \in Seq(Texts)
      /\ parent.result \in Results \cup {None} /\ Len(parent.moves) \in Nat /\ owner \in Nat
  BY <1>1, LineTypes
<1>3. /\ selected.moves \in Seq(Moves) /\ selected.lead \in Seq(Texts)
      /\ selected.trail \in Seq(Texts) /\ selected.result \in Results \cup {None}
      /\ Len(selected.moves) \in Nat
  BY <1>1, LineTypes
<1> HIDE DEF parent, selected, owner
<1>4. selected.moves # <<>>
  BY DEF selected
<1>5. Len(selected.moves) >= 1 /\ head \in Moves /\ Head(selected.moves) = head
  BY <1>3, <1>4
<1>6. comment \in Seq(Texts)
  <2>1. head.before \in Seq(Texts)
    BY <1>5 DEF Moves
  <2> QED
    BY <1>3, <2>1
<1> HIDE DEF head, comment
<1>7. /\ first \in Moves /\ first.san = head.san /\ first.before = comment
      /\ first.after = head.after /\ first.vars = count + head.vars
  <2>1. head.vars \in Nat
    BY <1>5 DEF Moves
  <2>2. count + head.vars \in Nat
    BY <2>1
  <2> DEFINE k == count + head.vars
             new == [head EXCEPT !.before = comment, !.vars = k]
  <2>3. first = new
    BY <1>5 DEF Moves
  <2> HIDE DEF k, first
  <2>4. k \in Nat
    BY <2>2 DEF k
  <2>5. IsChange(head, comment, k, new)
    BY <1>5, <1>6, <2>4, HeadChanged
  <2> HIDE DEF new
  <2> QED
    BY <2>3, <2>5, Zenon DEF IsChange, k
<1> HIDE DEF first
<1>8. /\ start \in Seq(Moves) /\ Len(start) = owner - 1
      /\ \A j \in 1..owner - 1 : start[j] = parent.moves[j]
  BY <1>1, <1>2 DEF parent, owner
<1>9. /\ rest \in Seq(Moves) /\ Len(rest) = Len(selected.moves) - 1
      /\ \A j \in 1..Len(selected.moves) - 1 : rest[j] = selected.moves[j + 1]
  BY <1>3, <1>4, <1>5
<1> HIDE DEF start, rest
<1>10. /\ begun \in Seq(Moves) /\ Len(begun) = owner /\ begun[owner] = first
       /\ \A j \in 1..owner - 1 : begun[j] = parent.moves[j]
  <2>1. <<first>> \in Seq(Moves) /\ Len(<<first>>) = 1 /\ <<first>>[1] = first /\ 1 \in 1..1
    BY <1>7
  <2>2. /\ begun \in Seq(Moves) /\ Len(begun) = Len(start) + Len(<<first>>)
        /\ \A j \in 1..Len(start) : begun[j] = start[j]
        /\ \A j \in 1..Len(<<first>>) : begun[Len(start) + j] = <<first>>[j]
    BY <1>8, <2>1, Joined DEF IsJoin
  <2> HIDE DEF begun
  <2>3. owner - 1 + 1 = owner
    BY <1>2
  <2> QED
    BY <1>8, <2>1, <2>2, <2>3, ZenonT(30)
<1> HIDE DEF begun
<1>11. /\ ms \in Seq(Moves) /\ Len(ms) = owner + (Len(selected.moves) - 1)
       /\ \A j \in 1..owner : ms[j] = begun[j]
       /\ \A j \in 1..Len(selected.moves) - 1 : ms[owner + j] = rest[j]
  <2>1. IsJoin(Moves, begun, rest, ms)
    BY <1>9, <1>10, Joined, Zenon
  <2> HIDE DEF ms
  <2> QED
    BY <1>9, <1>10, <2>1, Zenon DEF IsJoin
<1> HIDE DEF ms, result
<1>12. line = [parent EXCEPT !.moves = ms, !.trail = selected.trail, !.result = result]
  BY <1>5, Zenon DEF PromotedLine, CommentsBeforePromoted, ms, begun, start, first, rest, comment,
                     result, parent, selected, owner
<1>13. result \in Results \cup {None}
  BY <1>2, <1>3 DEF result
<1>14. /\ line \in VariationLines /\ line.moves = ms /\ line.lead = parent.lead
       /\ line.trail = selected.trail
  <2>1. parent \in VariationLines
    BY <1>1 DEF parent
  <2> HIDE DEF line
  <2> QED
    BY <1>3, <1>11, <1>12, <1>13, <2>1 DEF VariationLines
<1> HIDE DEF line
<1>15. /\ Len(ms) = owner - 1 + Len(selected.moves) /\ owner \in 1..owner
       /\ \A j \in 1..owner - 1 : j \in 1..owner
  BY <1>1, <1>2, <1>3, <1>11, SMTT(30) DEF owner, parent
<1>16. \A j \in 1..owner - 1 : ms[j] = parent.moves[j]
  BY <1>10, <1>11, <1>15
<1>17. ms[owner] = first
  BY <1>10, <1>11, <1>15
<1>18. ASSUME NEW k \in 2..Len(selected.moves)
       PROVE  ms[owner + k - 1] = selected.moves[k]
  <2>1. /\ k - 1 \in 1..Len(selected.moves) - 1 /\ owner + (k - 1) = owner + k - 1
        /\ k - 1 + 1 = k
    BY <1>2, <1>3
  <2> QED
    BY <1>9, <1>11, <2>1
<1>19. Joins(parent, owner, selected, count, line)
  BY <1>7, <1>14, <1>15, <1>16, <1>17, <1>18 DEF Joins, comment, head
<1> QED
  BY <1>19 DEF parent, owner, selected, line

-----------------------------------------------------------------------------
(* Promotion: where the variations go.  They stay, sink with the demoted line or rise *)
(* with the promoted one.                                                           *)

\* The variations of the replaced move after the promotion: the demoted line and all
\* the old ones but the promoted.
LEMMA SiblingsAre ==
  ASSUME NEW tree, IsTree(tree), NEW path \in Branches(tree),
         NEW n, n = OwnerMove(tree, path).vars, NEW sib, sib = Siblings(tree, path)
  PROVE  /\ Arranges(sib, {0} \cup ((1..n) \ {Index(path)})) /\ Len(sib) = n /\ sib[1] = 0
         /\ n \in Nat /\ n >= 1
<1> DEFINE i == Index(path)
           rest == RemoveAt(Order(n), i)
           S == (1..n) \ {i}
           one == <<0>>
<1>1. n \in Nat /\ i \in 1..n
  BY BranchFacts
<1> HIDE DEF i
<1>2. Arranges(Order(n), 1..n) /\ Len(Order(n)) = n /\ Order(n)[i] = i
  BY <1>1, OrderFacts
<1>3. Arranges(rest, S) /\ Len(rest) = n - 1
  BY <1>1, <1>2, RemoveArranges
<1>4. Arranges(one, {0}) /\ Len(one) = 1 /\ one[1] = 0 /\ {0} \cap S = {}
  BY <1>1, OneArranges
<1>5. sib = one \o rest
  BY Zenon DEF Siblings, SiblingsAfterPromotion, one, rest, i
<1> HIDE DEF rest, S, one
<1>6. /\ Arranges(one \o rest, {0} \cup S) /\ Len(one \o rest) = Len(one) + Len(rest)
      /\ \A k \in 1..Len(one) : (one \o rest)[k] = one[k]
  <2>1. Chains(one, {0}, rest, S, one \o rest)
    BY <1>3, <1>4, JoinArranges, Zenon
  <2> QED
    BY <2>1, Zenon DEF Chains
<1>7. Len(sib) = n
  BY <1>1, <1>3, <1>4, <1>5, <1>6
<1>8. sib[1] = 0
  BY <1>4, <1>5, <1>6
<1>9. n >= 1
  BY <1>1
<1> QED
  BY <1>1, <1>5, <1>6, <1>7, <1>8, <1>9, Zenon DEF S, i

\* Where a step below the parent goes, and a step below the selected line.
Stays(o, i, n, sib, s, x) ==
    \/ s[1] < o /\ x = s
    \/ s[1] = o /\ s[2] # i /\ x[1] = o /\ x[2] \in 2..n /\ sib[x[2]] = s[2]

\* A variation of a later move of the parent goes down with the demoted line.
Sinks(o, s, x) == s[1] > o /\ x[1] = s[1] - o + 1 /\ x[2] = s[2]

\* A variation of the selected line goes up with it, behind the siblings at its first
\* move.
Rises(o, n, s, x) == x[1] = o + s[1] - 1 /\ x[2] = s[2] + (IF s[1] = 1 THEN n ELSE 0)

\* The lines below the parent and the selected line that go elsewhere.
IsStay(tree, path, roots, r, s, x) ==
    /\ s \in StepsFrom(tree[Parent(path)]) /\ s \in Steps /\ x \in Steps
    /\ Stays(Owner(path), Index(path), OwnerMove(tree, path).vars, Siblings(tree, path), s, x)
    /\ r = Append(Parent(path), s) /\ roots[r] = Append(Parent(path), x)

\* The root r of such a variation that goes down, from step s to step x.
IsSink(tree, path, roots, r, s, x) ==
    /\ s \in StepsFrom(tree[Parent(path)]) /\ s \in Steps /\ x \in Steps
    /\ Sinks(Owner(path), s, x)
    /\ r = Append(Parent(path), s)
    /\ roots[r] = Append(Append(Parent(path), <<Owner(path), 1>>), x)

\* The root r of such a variation that goes up, from step s to step x.
IsRise(tree, path, roots, r, s, x) ==
    /\ s \in StepsFrom(tree[path]) /\ s \in Steps /\ x \in Steps
    /\ Rises(Owner(path), OwnerMove(tree, path).vars, s, x)
    /\ r = Append(path, s) /\ roots[r] = Append(Parent(path), x)

\* The steps of a new address, one by one.
LEMMA OneStep ==
  ASSUME NEW P \in Seq(Steps), NEW y \in Steps, NEW x \in Steps
  PROVE  P \o <<x>> = Append(P, x) /\ P \o <<y, x>> = Append(Append(P, y), x)
OBVIOUS

\* Every root stays, sinks or rises, and every variation of the parent and of the
\* selected line, but the promoted one, is a root.
LEMMA PromotedRootsAre ==
  ASSUME NEW tree, IsTree(tree), NEW path \in Branches(tree),
         NEW roots, roots = PromotedRoots(tree, path)
  PROVE  /\ \A r \in DOMAIN roots :
               \/ \E s, x : IsStay(tree, path, roots, r, s, x)
               \/ \E s, x : IsSink(tree, path, roots, r, s, x)
               \/ \E s, x : IsRise(tree, path, roots, r, s, x)
         /\ \A s \in StepsFrom(tree[Parent(path)]) :
               s # Last(path) => Append(Parent(path), s) \in DOMAIN roots
         /\ \A s \in StepsFrom(tree[path]) : Append(path, s) \in DOMAIN roots
<1> DEFINE P == Parent(path)  o == Owner(path)  i == Index(path)  n == OwnerMove(tree, path).vars
           sib == Siblings(tree, path)
<1>1. /\ path \in Seq(Steps) /\ P \in Seq(Steps) /\ path \in Paths(tree) /\ P \in Paths(tree)
      /\ tree[P] \in VariationLines /\ tree[path] \in VariationLines
      /\ Last(path) = <<o, i>> /\ Last(path) \in Steps /\ o \in 1..Len(tree[P].moves)
      /\ n \in Nat /\ i \in 1..n /\ n = tree[P].moves[o].vars /\ path # P /\ o \in Nat
  <2>1. Len(P) = Len(path) - 1 /\ path \in Seq(Steps)
    BY BranchFacts, FrontOf
  <2>2. path # P
    BY <2>1
  <2>3. o \in Nat
    BY BranchFacts, LineTypes
  <2> QED
    BY <2>2, <2>3, BranchFacts, TreeFacts
<1>2. /\ Arranges(sib, {0} \cup ((1..n) \ {i})) /\ Len(sib) = n /\ sib[1] = 0 /\ n >= 1
  BY SiblingsAre
<1>3. Range(sib) = {0} \cup ((1..n) \ {i})
  BY <1>2, RangeOf
<1>4. \A s \in StepsFrom(tree[P]) : s \in Steps /\ (s[1] = o => s[2] \in 1..n)
  BY <1>1, StepsFromIs
<1>5. \A s \in StepsFrom(tree[path]) : s \in Steps /\ s[1] >= 1 /\ s[2] \in Nat
  <2>1. \A s \in StepsFrom(tree[path]) : s \in Steps /\ s[1] \in 1..Len(tree[path].moves)
    BY <1>1, StepsFromIs
  <2>2. \A s \in Steps : s[2] \in Nat
    BY DEF Steps
  <2> QED
    BY <2>1, <2>2
<1>6. /\ \A c : c \in DOMAIN roots <=>
            /\ c \in Children(tree, P) \/ c \in Children(tree, path)
            /\ Parent(c) = P /\ Owner(c) = o => Index(c) \in Range(sib)
      /\ \A c \in DOMAIN roots :
            roots[c] = P \o IF Parent(c) = path THEN PromotedFromSelected(tree, path, c)
                            ELSE PromotedFromParent(tree, path, c)
  BY DEF PromotedRoots
<1>7. \A c : /\ c \in Children(tree, P) <=> \E s \in StepsFrom(tree[P]) : c = Append(P, s)
             /\ c \in Children(tree, path) <=> \E s \in StepsFrom(tree[path]) : c = Append(path, s)
  BY Zenon DEF Children
<1>8. \A s \in Steps : /\ Parent(Append(P, s)) = P /\ Last(Append(P, s)) = s
                       /\ Owner(Append(P, s)) = s[1] /\ Index(Append(P, s)) = s[2]
                       /\ Parent(Append(path, s)) = path /\ Last(Append(path, s)) = s
                       /\ Owner(Append(path, s)) = s[1] /\ Index(Append(path, s)) = s[2]
  BY <1>1, FrontLast DEF Owner, Index
<1>9. ASSUME NEW s \in StepsFrom(tree[P])
      PROVE  Append(P, s) \in DOMAIN roots <=> s # Last(path)
  <2>1. Append(P, s) \in DOMAIN roots <=> (s[1] = o => s[2] \in Range(sib))
    <3>1. /\ Append(P, s) \in Children(tree, P) /\ Parent(Append(P, s)) = P
          /\ Owner(Append(P, s)) = s[1] /\ Index(Append(P, s)) = s[2]
      BY <1>4, <1>7, <1>8
    <3> QED
      BY <1>6, <3>1, Zenon
  <2>2. s = <<s[1], s[2]>>
    BY <1>4 DEF Steps
  <2>3. s # Last(path) <=> (s[1] = o => s[2] # i)
    BY <1>1, <2>2
  <2>4. s[1] = o => (s[2] \in Range(sib) <=> s[2] # i)
    BY <1>3, <1>4
  <2> QED
    BY <2>1, <2>3, <2>4, Zenon
<1>10. ASSUME NEW s \in StepsFrom(tree[path])
       PROVE  Append(path, s) \in DOMAIN roots
  BY <1>1, <1>5, <1>6, <1>7, <1>8, Zenon
<1>11. ASSUME NEW s \in StepsFrom(tree[P]), NEW r, r = Append(P, s), r \in DOMAIN roots
       PROVE  \/ \E y, x : IsStay(tree, path, roots, r, y, x)
              \/ \E y, x : IsSink(tree, path, roots, r, y, x)
  <2>1. s \in Steps /\ s[1] \in Nat /\ s[2] \in Nat /\ (s[1] = o => s[2] \in 1..n)
    BY <1>4 DEF Steps
  <2>2. roots[r] = P \o PromotedFromParent(tree, path, r)
    BY <1>1, <1>6, <1>8, <1>11, <2>1, Zenon
  <2>3. Owner(r) = s[1] /\ Index(r) = s[2] /\ Last(r) = s
    BY <1>8, <1>11, <2>1, Zenon
  <2>4. CASE s[1] < o
    <3>1. PromotedFromParent(tree, path, r) = <<s>>
      BY <2>3, <2>4 DEF PromotedFromParent
    <3>2. roots[r] = Append(P, s)
      BY <1>1, <2>1, <2>2, <3>1, OneStep
    <3>3. Stays(o, i, n, sib, s, s)
      BY <2>4 DEF Stays
    <3>4. IsStay(tree, path, roots, r, s, s)
      BY <1>11, <2>1, <3>2, <3>3, Zenon DEF IsStay
    <3> QED
      BY <3>4
  <2>5. CASE s[1] = o
    <3> DEFINE k == Place(sib, s[2])  x == <<o, k>>
    <3>1. PromotedFromParent(tree, path, r) = <<x>>
      <4>1. ~(o < o)
        BY <1>1
      <4> QED
        BY <2>3, <2>5, <4>1 DEF PromotedFromParent
    <3>2. s[2] # i
      <4>1. s = <<s[1], s[2]>>
        BY <2>1 DEF Steps
      <4>2. s # Last(path)
        BY <1>9, <1>11
      <4> QED
        BY <1>1, <2>5, <4>1, <4>2
    <3>3. k \in 1..n /\ sib[k] = s[2]
      <4>1. s[2] \in Range(sib)
        BY <1>3, <2>1, <2>5, <3>2
      <4> QED
        BY <1>2, <4>1, PlaceFacts DEF Arranges
    <3> HIDE DEF k
    <3>4. k \in 2..n
      BY <1>2, <2>1, <2>5, <3>3
    <3>5. x \in Steps /\ x[1] = o /\ x[2] = k
      BY <1>1, <3>4, SMTT(30) DEF Steps
    <3> HIDE DEF x
    <3>6. roots[r] = Append(P, x)
      BY <1>1, <2>2, <3>1, <3>5, OneStep
    <3>7. Stays(o, i, n, sib, s, x)
      BY <2>5, <3>2, <3>3, <3>4, <3>5, Zenon DEF Stays
    <3>8. IsStay(tree, path, roots, r, s, x)
      BY <1>11, <2>1, <3>5, <3>6, <3>7, Zenon DEF IsStay
    <3> QED
      BY <3>8
  <2>6. CASE s[1] > o
    <3> DEFINE x == <<s[1] - o + 1, s[2]>>  y == <<o, 1>>
    <3>1. PromotedFromParent(tree, path, r) = <<y, x>>
      <4>1. ~(s[1] < o) /\ s[1] # o
        BY <1>1, <2>1, <2>6
      <4> QED
        BY <2>3, <4>1 DEF PromotedFromParent
    <3>2. x \in Steps /\ y \in Steps /\ x[1] = s[1] - o + 1 /\ x[2] = s[2]
      BY <1>1, <2>1, <2>6, SMTT(30) DEF Steps
    <3> HIDE DEF x, y
    <3>3. roots[r] = Append(Append(P, y), x)
      BY <1>1, <2>2, <3>1, <3>2, OneStep
    <3>4. Sinks(o, s, x)
      BY <2>6, <3>2, Zenon DEF Sinks
    <3>5. IsSink(tree, path, roots, r, s, x)
      BY <1>11, <2>1, <3>2, <3>3, <3>4, Zenon DEF IsSink, y
    <3> QED
      BY <3>5
  <2> QED
    BY <1>1, <2>1, <2>4, <2>5, <2>6
<1>12. ASSUME NEW s \in StepsFrom(tree[path]), NEW r, r = Append(path, s), r \in DOMAIN roots
       PROVE  \E y, x : IsRise(tree, path, roots, r, y, x)
  <2> DEFINE k == s[2] + (IF s[1] = 1 THEN n ELSE 0)
             x == <<o + s[1] - 1, k>>
  <2>1. s \in Steps /\ s[1] \in Nat /\ s[1] >= 1 /\ s[2] \in Nat
    BY <1>5 DEF Steps
  <2>2. roots[r] = P \o PromotedFromSelected(tree, path, r)
    BY <1>1, <1>6, <1>8, <1>12, <2>1, Zenon
  <2>3. Owner(r) = s[1] /\ Index(r) = s[2]
    BY <1>8, <1>12, <2>1, Zenon
  <2>4. PromotedFromSelected(tree, path, r) = <<x>>
    BY <1>2, <2>3, Zenon DEF PromotedFromSelected
  <2>5. k \in Nat /\ o + s[1] - 1 \in Nat
    BY <1>1, <2>1, SMTT(30)
  <2> HIDE DEF k
  <2>6. x \in Steps /\ x[1] = o + s[1] - 1 /\ x[2] = k
    BY <2>5 DEF Steps
  <2> HIDE DEF x
  <2>7. roots[r] = Append(P, x)
    BY <1>1, <2>2, <2>4, <2>6, OneStep
  <2>8. Rises(o, n, s, x)
    BY <2>6, Zenon DEF Rises, k
  <2>9. IsRise(tree, path, roots, r, s, x)
    BY <1>12, <2>1, <2>6, <2>7, <2>8, Zenon DEF IsRise
  <2> QED
    BY <2>9
<1>13. ASSUME NEW r \in DOMAIN roots
       PROVE  \/ \E s, x : IsStay(tree, path, roots, r, s, x)
              \/ \E s, x : IsSink(tree, path, roots, r, s, x)
              \/ \E s, x : IsRise(tree, path, roots, r, s, x)
  <2>1. CASE r \in Children(tree, P)
    <3>1. PICK s \in StepsFrom(tree[P]) : r = Append(P, s)
      BY <1>7, <2>1
    <3> QED
      BY <1>11, <3>1, Zenon
  <2>2. CASE r \in Children(tree, path)
    <3>1. PICK s \in StepsFrom(tree[path]) : r = Append(path, s)
      BY <1>7, <2>2
    <3> QED
      BY <1>12, <3>1, Zenon
  <2> QED
    BY <1>6, <2>1, <2>2, Zenon
<1> QED
  BY <1>9, <1>10, <1>13, Zenon

\* Arithmetic of the positions in the joined line.
Above(a, o, m, k) ==
    /\ ~(a < o) /\ a >= o /\ a # o /\ k >= 2 /\ k \in Nat /\ a = o + k - 1
    /\ a \in 1..o - 1 + m <=> k \in 2..m
    /\ k \in 1..m <=> k \in 2..m

\* Arithmetic of move numbers: a later move of the parent, counted in the demoted line.
LEMMA IsAbove ==
  ASSUME NEW a \in Nat, NEW o \in Nat, NEW m \in Nat, o >= 1, a > o
  PROVE  Above(a, o, m, a - o + 1)
BY DEF Above

\* Arithmetic of move numbers: the move at which the demoted line hangs.
LEMMA FirstStep ==
  ASSUME NEW o \in Nat, NEW m \in Nat, NEW n \in Nat, NEW v \in Nat, o >= 1, m >= 1
  PROVE  /\ ~(o < o) /\ o >= o /\ o - o + 1 = 1
         /\ o \in 1..o - 1 + m /\ 1 \in 1..m /\ n + v = v + n
         /\ \A b \in 2..n : b \in 1..v + n /\ b # 1
OBVIOUS

\* The number of a promoted move and of a variation of it, in bounds.
Risen(a, b, o, n, v, x1, x2) ==
    /\ x1 >= o /\ x1 - o + 1 = a /\ (x1 = o <=> a = 1)
    /\ x2 \in 1..(v + (IF x1 = o THEN n ELSE 0))
    /\ x1 = o => x2 # 1

\* Arithmetic of move numbers: such a move, from its number in the selected line.
LEMMA IsRisen ==
  ASSUME NEW a \in Nat, NEW b \in Nat, NEW o \in Nat, NEW n \in Nat, NEW v \in Nat,
         a >= 1, b \in 1..v, n >= 1,
         NEW x1 \in Nat, NEW x2 \in Nat, x1 = o + a - 1, x2 = b + (IF a = 1 THEN n ELSE 0)
  PROVE  Risen(a, b, o, n, v, x1, x2)
BY DEF Risen

\* The number of a demoted move after the first, in bounds.
Sunk(a, o, m, k) ==
    /\ a >= 2 /\ a \in 2..m - o + 1 /\ k \in 1..m /\ k \in Nat

\* Arithmetic of move numbers: such a move, from its number in the demoted line.
LEMMA IsSunk ==
  ASSUME NEW a \in Nat, NEW o \in Nat, NEW m \in Nat, o \in 1..m, a \in 1..m - o + 1, a # 1
  PROVE  Sunk(a, o, m, o + a - 1)
BY DEF Sunk

\* Arithmetic of move numbers: such a move, from its number in the parent.
LEMMA IsRaised ==
  ASSUME NEW a \in Nat, NEW o \in Nat, NEW m \in Nat, o >= 1, a \in 1..m, a > o
  PROVE  Sunk(a - o + 1, o, m, a) /\ a - o + 1 \in 1..m - o + 1 /\ o + (a - o + 1) - 1 = a
BY DEF Sunk

\* Arithmetic of move numbers: a promoted move, back to its number in the selected
\* line.
LEMMA IsFallen ==
  ASSUME NEW a \in Nat, NEW o \in Nat, a >= o
  PROVE  a - o + 1 \in Nat /\ a = o + (a - o + 1) - 1 /\ (a = o <=> a - o + 1 = 1)
OBVIOUS

\* A variation of the promoted line that came from the selected one.
Past(a, b, o, n) == a >= o /\ (a = o => b > n)

\* The three kinds of variations of the promoted line.
LEMMA SideOf ==
  ASSUME NEW a \in Nat, NEW b \in Nat, NEW o \in Nat, NEW n \in Nat
  PROVE  a < o \/ (a = o /\ b <= n) \/ Past(a, b, o, n)
BY DEF Past

\* The steps from the promoted line: those of the parent before the replaced move, then
\* those of the selected line, with the siblings in front at its first move.
LEMMA JoinsSteps ==
  ASSUME NEW parent \in VariationLines, NEW o \in 1..Len(parent.moves),
         NEW selected \in VariationLines, Len(selected.moves) >= 1, NEW n \in Nat,
         NEW line, Joins(parent, o, selected, n, line)
  PROVE  \A s \in Steps : s \in StepsFrom(line) <=>
            \/ s[1] < o /\ s \in StepsFrom(parent)
            \/ /\ s[1] >= o /\ s[1] - o + 1 \in 1..Len(selected.moves)
               /\ s[2] \in 1..(selected.moves[s[1] - o + 1].vars + (IF s[1] = o THEN n ELSE 0))
<1>1. /\ line \in VariationLines
      /\ Len(line.moves) = o - 1 + Len(selected.moves)
      /\ \A j \in 1..o - 1 : line.moves[j] = parent.moves[j]
      /\ line.moves[o].vars = n + selected.moves[1].vars
      /\ \A k \in 2..Len(selected.moves) : line.moves[o + k - 1] = selected.moves[k]
  BY DEF Joins
<1>2. /\ Len(parent.moves) \in Nat /\ Len(selected.moves) \in Nat /\ o \in Nat
      /\ \A k \in 1..Len(selected.moves) : selected.moves[k].vars \in Nat
  BY LineTypes
<1>3. \A s : s \in StepsFrom(line) <=>
         s \in Steps /\ s[1] \in 1..Len(line.moves) /\ s[2] \in 1..line.moves[s[1]].vars
  BY <1>1, StepsFromIs
<1>4. \A s : s \in StepsFrom(parent) <=>
         s \in Steps /\ s[1] \in 1..Len(parent.moves) /\ s[2] \in 1..parent.moves[s[1]].vars
  BY StepsFromIs
<1> SUFFICES ASSUME NEW s \in Steps
             PROVE  s \in StepsFrom(line) <=>
            \/ s[1] < o /\ s \in StepsFrom(parent)
            \/ /\ s[1] >= o /\ s[1] - o + 1 \in 1..Len(selected.moves)
               /\ s[2] \in 1..(selected.moves[s[1] - o + 1].vars + (IF s[1] = o THEN n ELSE 0))
  OBVIOUS
<1>5. s[1] \in Nat /\ s[2] \in Nat
  BY DEF Steps
<1>6. CASE s[1] < o
  <2>1. /\ ~(s[1] >= o)
        /\ s[1] \in 1..Len(line.moves) <=> s[1] \in 1..o - 1
        /\ s[1] \in 1..Len(parent.moves) <=> s[1] \in 1..o - 1
    BY <1>1, <1>2, <1>5, <1>6, SMTT(30)
  <2>2. s[1] \in 1..o - 1 => line.moves[s[1]] = parent.moves[s[1]]
    BY <1>1
  <2> QED
    BY <1>3, <1>4, <1>6, <2>1, <2>2, Zenon
<1>7. CASE s[1] = o
  <2>0. selected.moves[1].vars \in Nat /\ o >= 1
    BY <1>2
  <2>1. /\ ~(s[1] < o) /\ s[1] >= o /\ s[1] - o + 1 = 1
        /\ s[1] \in 1..o - 1 + Len(selected.moves) /\ 1 \in 1..Len(selected.moves)
        /\ n + selected.moves[1].vars = selected.moves[1].vars + n
    BY <1>2, <1>7, <2>0, FirstStep
  <2>2. s[1] \in 1..Len(line.moves)
    BY <1>1, <2>1
  <2>3. s \in StepsFrom(line) <=> s[2] \in 1..(selected.moves[1].vars + n)
    BY <1>1, <1>3, <1>7, <2>1, <2>2, Zenon
  <2> QED
    BY <1>7, <2>1, <2>3
<1>8. CASE s[1] > o
  <2> DEFINE k == s[1] - o + 1
  <2>0. Above(s[1], o, Len(selected.moves), k)
    BY <1>2, <1>5, <1>8, IsAbove
  <2>1. /\ ~(s[1] < o) /\ s[1] >= o /\ s[1] # o /\ k >= 2 /\ k \in Nat /\ s[1] = o + k - 1
        /\ s[1] \in 1..Len(line.moves) <=> k \in 2..Len(selected.moves)
        /\ k \in 1..Len(selected.moves) <=> k \in 2..Len(selected.moves)
    BY <1>1, <2>0 DEF Above
  <2> HIDE DEF k
  <2>2. k \in 2..Len(selected.moves) =>
           /\ line.moves[s[1]] = selected.moves[k]
           /\ selected.moves[k].vars + 0 = selected.moves[k].vars
    <3> SUFFICES ASSUME k \in 2..Len(selected.moves)
                 PROVE  /\ line.moves[s[1]] = selected.moves[k]
                        /\ selected.moves[k].vars + 0 = selected.moves[k].vars
      OBVIOUS
    <3>1. line.moves[s[1]] = selected.moves[k]
      BY <1>1, <2>1, Zenon
    <3>2. k \in 1..Len(selected.moves)
      BY <2>1
    <3>3. selected.moves[k].vars \in Nat
      BY <1>2, <3>2, Zenon
    <3> QED
      BY <3>1, <3>3
  <2>3. s \in StepsFrom(line) <=>
           k \in 2..Len(selected.moves) /\ s[2] \in 1..selected.moves[k].vars
    BY <1>3, <2>1, <2>2, Zenon
  <2>4. s \in StepsFrom(line) <=>
           /\ k \in 1..Len(selected.moves)
           /\ s[2] \in 1..(selected.moves[k].vars + (IF s[1] = o THEN n ELSE 0))
    BY <2>1, <2>2, <2>3
  <2> QED
    BY <2>1, <2>4 DEF k
<1> QED
  BY <1>2, <1>5, <1>6, <1>7, <1>8

\* The steps from the demoted line: those of the parent after the replaced move.
LEMMA SplitsSteps ==
  ASSUME NEW parent \in VariationLines, NEW o \in 1..Len(parent.moves),
         NEW line, Splits(parent, o, line)
  PROVE  /\ \A s \in StepsFrom(line) :
               s \in Steps /\ s[1] >= 2 /\ <<o + s[1] - 1, s[2]>> \in StepsFrom(parent)
         /\ \A s \in StepsFrom(parent), x \in Steps :
               Sinks(o, s, x) => x \in StepsFrom(line)
<1>1. /\ line \in VariationLines
      /\ Len(line.moves) = Len(parent.moves) - o + 1
      /\ line.moves[1].vars = 0
      /\ \A k \in 2..Len(parent.moves) - o + 1 : line.moves[k] = parent.moves[o + k - 1]
  BY DEF Splits
<1>2. Len(parent.moves) \in Nat /\ o \in Nat
  BY LineTypes
<1>3. \A s : s \in StepsFrom(line) <=>
         s \in Steps /\ s[1] \in 1..Len(line.moves) /\ s[2] \in 1..line.moves[s[1]].vars
  BY <1>1, StepsFromIs
<1>4. \A s : s \in StepsFrom(parent) <=>
         s \in Steps /\ s[1] \in 1..Len(parent.moves) /\ s[2] \in 1..parent.moves[s[1]].vars
  BY StepsFromIs
<1>5. ASSUME NEW s \in StepsFrom(line)
      PROVE  s \in Steps /\ s[1] >= 2 /\ <<o + s[1] - 1, s[2]>> \in StepsFrom(parent)
  <2>1. s \in Steps /\ s[1] \in 1..Len(line.moves) /\ s[2] \in 1..line.moves[s[1]].vars
        /\ s[1] \in Nat /\ s[2] \in Nat
    BY <1>3 DEF Steps
  <2>2. s[1] # 1
    <3>1. 1..0 = {}
      OBVIOUS
    <3> QED
      BY <1>1, <2>1, <3>1
  <2> DEFINE j == o + s[1] - 1  x == <<j, s[2]>>
  <2>0. Sunk(s[1], o, Len(parent.moves), j)
    BY <1>1, <1>2, <2>1, <2>2, IsSunk
  <2>3. /\ s[1] >= 2 /\ s[1] \in 2..Len(parent.moves) - o + 1
        /\ j \in 1..Len(parent.moves) /\ j \in Nat
    BY <2>0 DEF Sunk
  <2>4. line.moves[s[1]] = parent.moves[j]
    BY <1>1, <2>3
  <2> HIDE DEF j
  <2>5. x \in Steps /\ x[1] = j /\ x[2] = s[2]
    BY <2>1, <2>3 DEF Steps
  <2> HIDE DEF x
  <2>6. x \in StepsFrom(parent)
    BY <1>4, <2>1, <2>3, <2>4, <2>5
  <2> QED
    BY <2>1, <2>3, <2>6 DEF x, j
<1>6. ASSUME NEW s \in StepsFrom(parent), NEW x \in Steps, Sinks(o, s, x)
      PROVE  x \in StepsFrom(line)
  <2>1. s \in Steps /\ s[1] \in 1..Len(parent.moves) /\ s[2] \in 1..parent.moves[s[1]].vars
    BY <1>4
  <2>2. s[1] > o /\ x[1] = s[1] - o + 1 /\ x[2] = s[2]
    BY <1>6 DEF Sinks
  <2>0. s[1] \in Nat /\ o >= 1
    BY <1>2, <2>1 DEF Steps
  <2>9. /\ Sunk(s[1] - o + 1, o, Len(parent.moves), s[1])
        /\ s[1] - o + 1 \in 1..Len(parent.moves) - o + 1 /\ o + (s[1] - o + 1) - 1 = s[1]
    BY <1>2, <2>0, <2>1, <2>2, IsRaised
  <2>3. /\ x[1] \in 2..Len(parent.moves) - o + 1 /\ x[1] \in 1..Len(line.moves)
        /\ o + x[1] - 1 = s[1]
    BY <1>1, <2>2, <2>9, Zenon DEF Sunk
  <2>4. line.moves[x[1]] = parent.moves[s[1]]
    BY <1>1, <2>3
  <2> QED
    BY <1>3, <2>1, <2>2, <2>3, <2>4
<1> QED
  BY <1>5, <1>6

\* Whatever stays or rises has a step from the promoted line, and not that of the
\* demoted line.
IntoPromoted(parent, selected, line, o, i, n, sib) ==
    /\ \A s \in StepsFrom(parent), x \in Steps :
          Stays(o, i, n, sib, s, x) => x \in StepsFrom(line) /\ (x[1] = o => x[2] # 1)
    /\ \A s \in StepsFrom(selected), x \in Steps :
          Rises(o, n, s, x) => x \in StepsFrom(line) /\ (x[1] = o => x[2] # 1)

\* Where the steps go: into the new lines, no two to the same place, and everywhere.
LEMMA SeatsInto ==
  ASSUME NEW parent \in VariationLines, NEW o \in 1..Len(parent.moves),
         NEW selected \in VariationLines, Len(selected.moves) >= 1, NEW n \in Nat,
         NEW line, Joins(parent, o, selected, n, line), n = parent.moves[o].vars, n >= 1,
         NEW i \in 1..n, NEW sib
  PROVE  IntoPromoted(parent, selected, line, o, i, n, sib)
<1>1. \A s \in Steps : s \in StepsFrom(line) <=>
            \/ s[1] < o /\ s \in StepsFrom(parent)
            \/ /\ s[1] >= o /\ s[1] - o + 1 \in 1..Len(selected.moves)
               /\ s[2] \in 1..(selected.moves[s[1] - o + 1].vars + (IF s[1] = o THEN n ELSE 0))
  BY JoinsSteps
<1>2. /\ o \in Nat /\ Len(selected.moves) \in Nat
      /\ \A k \in 1..Len(selected.moves) : selected.moves[k].vars \in Nat
  BY LineTypes
<1>3. ASSUME NEW s \in StepsFrom(parent), NEW x \in Steps, Stays(o, i, n, sib, s, x)
      PROVE  x \in StepsFrom(line) /\ (x[1] = o => x[2] # 1)
  <2>1. CASE s[1] < o /\ x = s
    <3>1. x[1] # o
      BY <1>2, <2>1
    <3> QED
      BY <1>1, <2>1, <3>1
  <2>2. CASE x[1] = o /\ x[2] \in 2..n
    <3>0. selected.moves[1].vars \in Nat /\ o >= 1
      BY <1>2
    <3>1. /\ x[1] >= o /\ x[1] - o + 1 = 1 /\ 1 \in 1..Len(selected.moves)
          /\ x[2] \in 1..(selected.moves[1].vars + n) /\ x[2] # 1
      BY <1>2, <2>2, <3>0, FirstStep
    <3> QED
      BY <1>1, <2>2, <3>1
  <2> QED
    BY <1>3, <2>1, <2>2 DEF Stays
<1>4. ASSUME NEW s \in StepsFrom(selected), NEW x \in Steps, Rises(o, n, s, x)
      PROVE  x \in StepsFrom(line) /\ (x[1] = o => x[2] # 1)
  <2>1. s \in Steps /\ s[1] \in 1..Len(selected.moves) /\ s[2] \in 1..selected.moves[s[1]].vars
    BY StepsFromIs
  <2>2. x[1] = o + s[1] - 1 /\ x[2] = s[2] + (IF s[1] = 1 THEN n ELSE 0)
    BY <1>4 DEF Rises
  <2>3. /\ s[1] \in Nat /\ s[2] \in Nat /\ x[1] \in Nat /\ x[2] \in Nat /\ s[1] >= 1
        /\ selected.moves[s[1]].vars \in Nat
    BY <1>2, <2>1 DEF Steps
  <2>4. Risen(s[1], s[2], o, n, selected.moves[s[1]].vars, x[1], x[2])
    BY <1>2, <2>1, <2>2, <2>3, IsRisen
  <2>5. /\ x[1] >= o /\ x[1] - o + 1 = s[1]
        /\ x[2] \in 1..(selected.moves[s[1]].vars + (IF x[1] = o THEN n ELSE 0))
        /\ x[1] = o => x[2] # 1
    BY <2>4, Zenon DEF Risen
  <2> QED
    BY <1>1, <2>1, <2>5
<1> QED
  BY <1>3, <1>4 DEF IntoPromoted

\* Every step from the promoted line but the demoted line's is taken by what stays or
\* rises.
LEMMA SeatsFilled ==
  ASSUME NEW parent \in VariationLines, NEW o \in 1..Len(parent.moves),
         NEW selected \in VariationLines, Len(selected.moves) >= 1, NEW n \in Nat,
         NEW line, Joins(parent, o, selected, n, line), n = parent.moves[o].vars,
         NEW i \in 1..n, NEW sib, Arranges(sib, {0} \cup ((1..n) \ {i})), Len(sib) = n, sib[1] = 0,
         NEW x \in StepsFrom(line), x # <<o, 1>>
  PROVE  \/ \E s \in StepsFrom(parent) : s # <<o, i>> /\ Stays(o, i, n, sib, s, x)
         \/ \E s \in StepsFrom(selected) : Rises(o, n, s, x)
<1>0. x \in Steps
  BY StepsFromIs DEF Joins
<1>1. \/ x[1] < o /\ x \in StepsFrom(parent)
      \/ /\ x[1] >= o /\ x[1] - o + 1 \in 1..Len(selected.moves)
         /\ x[2] \in 1..(selected.moves[x[1] - o + 1].vars + (IF x[1] = o THEN n ELSE 0))
  BY <1>0, JoinsSteps
<1>2. /\ o \in Nat /\ Len(selected.moves) \in Nat /\ x[1] \in Nat /\ x[2] \in Nat
      /\ \A k \in 1..Len(selected.moves) : selected.moves[k].vars \in Nat
      /\ x = <<x[1], x[2]>>
  <2>1. x[1] \in Nat /\ x[2] \in Nat /\ x = <<x[1], x[2]>>
    BY <1>0 DEF Steps
  <2>2. /\ Len(parent.moves) \in Nat /\ Len(selected.moves) \in Nat
        /\ \A k \in 1..Len(selected.moves) : selected.moves[k].vars \in Nat
    BY LineTypes
  <2> QED
    BY <2>1, <2>2
<1>3. \A s : s \in StepsFrom(parent) <=>
         s \in Steps /\ s[1] \in 1..Len(parent.moves) /\ s[2] \in 1..parent.moves[s[1]].vars
  BY StepsFromIs
<1>4. \A s : s \in StepsFrom(selected) <=>
         s \in Steps /\ s[1] \in 1..Len(selected.moves) /\ s[2] \in 1..selected.moves[s[1]].vars
  BY StepsFromIs
<1>5. CASE x[1] < o
  <2>1. x \in StepsFrom(parent)
    BY <1>1, <1>2, <1>5
  <2>2. x # <<o, i>>
    BY <1>2, <1>5
  <2>3. Stays(o, i, n, sib, x, x)
    BY <1>5 DEF Stays
  <2> QED
    BY <2>1, <2>2, <2>3
<1>6. CASE x[1] = o /\ x[2] <= n
  <2> DEFINE v == sib[x[2]]  s == <<o, v>>
  <2>1. x[1] - o + 1 = 1 /\ x[2] >= 1
    BY <1>1, <1>2, <1>6
  <2>2. x[2] \in 2..n
    BY <1>2, <1>6, <2>1
  <2>3. v \in {0} \cup ((1..n) \ {i}) /\ v # 0
    <3>1. x[2] \in 1..Len(sib) /\ 1 \in 1..Len(sib) /\ x[2] # 1
      BY <2>2
    <3> QED
      BY <3>1 DEF Arranges
  <2> HIDE DEF v
  <2>4. v \in 1..n /\ v # i /\ v \in Nat
    BY <2>3
  <2>5. s \in Steps /\ s[1] = o /\ s[2] = v
    BY <1>2, <2>4 DEF Steps
  <2>6. s # <<o, i>>
    BY <2>4
  <2> HIDE DEF s
  <2>7. s \in StepsFrom(parent)
    BY <1>3, <2>4, <2>5
  <2>8. Stays(o, i, n, sib, s, x)
    BY <1>6, <2>2, <2>4, <2>5, Zenon DEF Stays, v
  <2> QED
    BY <2>6, <2>7, <2>8
<1>7. CASE Past(x[1], x[2], o, n)
  <2> DEFINE k == x[1] - o + 1  c == IF x[1] = o THEN n ELSE 0  v == x[2] - c  s == <<k, v>>
  <2>1. k \in 1..Len(selected.moves) /\ x[2] \in 1..(selected.moves[k].vars + c)
    BY <1>1, <1>2, <1>7 DEF Past
  <2>2. k \in Nat /\ x[1] = o + k - 1 /\ (x[1] = o <=> k = 1)
    BY <1>2, <1>7, IsFallen DEF Past
  <2>3. c \in Nat /\ x[2] > c /\ selected.moves[k].vars \in Nat
    BY <1>2, <1>7, <2>1 DEF Past
  <2>4. c = IF k = 1 THEN n ELSE 0
    BY <2>2
  <2> HIDE DEF k, c
  <2>5. v \in 1..selected.moves[k].vars /\ v \in Nat /\ x[2] = v + c
    BY <1>2, <2>1, <2>3, SMTT(30)
  <2> HIDE DEF v
  <2>6. s \in Steps /\ s[1] = k /\ s[2] = v
    BY <2>2, <2>5 DEF Steps
  <2> HIDE DEF s
  <2>7. s \in StepsFrom(selected)
    BY <1>4, <2>1, <2>5, <2>6
  <2>8. Rises(o, n, s, x)
    BY <2>2, <2>4, <2>5, <2>6 DEF Rises
  <2> QED
    BY <2>7, <2>8
<1>8. \/ x[1] < o
      \/ x[1] = o /\ x[2] <= n
      \/ Past(x[1], x[2], o, n)
  BY <1>2, SideOf, Zenon
<1> QED
  BY <1>5, <1>6, <1>7, <1>8, Zenon

-----------------------------------------------------------------------------
(* Promotion: no two variations get one address                                     *)

\* Steps are equal when their parts are.
LEMMA SameStep ==
  ASSUME NEW a \in Steps, NEW b \in Steps, a[1] = b[1], a[2] = b[2]
  PROVE  a = b
BY DEF Steps

\* No two steps go to the same place.
LEMMA SeatsApart ==
  ASSUME NEW o \in Nat, NEW i, NEW n \in Nat, NEW sib, NEW a \in Steps, NEW b \in Steps, NEW x \in Steps
  PROVE  /\ Stays(o, i, n, sib, a, x) /\ Stays(o, i, n, sib, b, x) => a = b
         /\ Rises(o, n, a, x) /\ Rises(o, n, b, x) => a = b
         /\ Sinks(o, a, x) /\ Sinks(o, b, x) => a = b
         /\ Stays(o, i, n, sib, a, x) /\ Rises(o, n, b, x) => b[1] < 1 \/ b[2] < 1
<1>1. /\ a[1] \in Nat /\ a[2] \in Nat /\ b[1] \in Nat /\ b[2] \in Nat
      /\ x[1] \in Nat /\ x[2] \in Nat
  BY DEF Steps
<1>2. ASSUME Stays(o, i, n, sib, a, x), Stays(o, i, n, sib, b, x)
      PROVE  a = b
  <2>1. a[1] = b[1]
    BY <1>1, <1>2 DEF Stays
  <2>2. a[2] = b[2]
    BY <1>1, <1>2 DEF Stays
  <2> QED
    BY <2>1, <2>2, SameStep
<1>3. ASSUME Rises(o, n, a, x), Rises(o, n, b, x)
      PROVE  a = b
  <2>1. a[1] = b[1]
    BY <1>1, <1>3 DEF Rises
  <2>2. a[2] = b[2]
    BY <1>1, <1>3, <2>1 DEF Rises
  <2> QED
    BY <2>1, <2>2, SameStep
<1>4. ASSUME Sinks(o, a, x), Sinks(o, b, x)
      PROVE  a = b
  <2>1. a[1] = b[1] /\ a[2] = b[2]
    BY <1>1, <1>4 DEF Sinks
  <2> QED
    BY <2>1, SameStep
<1>5. ASSUME Stays(o, i, n, sib, a, x), Rises(o, n, b, x), ~(b[1] < 1)
      PROVE  b[2] < 1
  <2>1. x[1] = o + b[1] - 1 /\ x[2] = b[2] + (IF b[1] = 1 THEN n ELSE 0)
    BY <1>5 DEF Rises
  <2>2. x[1] >= o
    BY <1>1, <1>5, <2>1
  <2>3. x[1] = o /\ x[2] \in 2..n
    BY <1>1, <1>5, <2>2 DEF Stays
  <2>4. b[1] = 1
    BY <1>1, <2>1, <2>3
  <2> QED
    BY <1>1, <2>1, <2>3, <2>4
<1> QED
  BY <1>2, <1>3, <1>4, <1>5

\* The edit of a promotion, in the terms of the lines it makes.
Promotes(tree, path, roots, promoted, demoted, lines) ==
    /\ IsTree(tree) /\ path \in Branches(tree) /\ tree[path].moves # <<>>
    /\ roots = PromotedRoots(tree, path)
    /\ promoted = PromotedLine(tree, path)
    /\ demoted = Demoted(tree[Parent(path)], Owner(path))
    /\ lines = WithLine(WithLine(<<>>, Append(Parent(path), <<Owner(path), 1>>), demoted),
                        Parent(path), promoted)

\* What the lines of a promotion are.
PromotionAt(tree, path, P, o, i, n, sib, D, promoted, demoted, lines) ==
    /\ path \in Seq(Steps) /\ P \in Seq(Steps) /\ D \in Seq(Steps)
    /\ path \in Paths(tree) /\ P \in Paths(tree)
    /\ tree[P] \in VariationLines /\ tree[path] \in VariationLines
    /\ Last(path) = <<o, i>> /\ <<o, i>> \in Steps /\ path = Append(P, <<o, i>>)
    /\ <<o, 1>> \in Steps /\ D = Append(P, <<o, 1>>)
    /\ o \in 1..Len(tree[P].moves) /\ o \in Nat
    /\ n \in Nat /\ n >= 1 /\ i \in 1..n /\ n = tree[P].moves[o].vars
    /\ Len(tree[path].moves) >= 1
    /\ Arranges(sib, {0} \cup ((1..n) \ {i})) /\ Len(sib) = n /\ sib[1] = 0
    /\ Joins(tree[P], o, tree[path], n, promoted)
    /\ Splits(tree[P], o, demoted)
    /\ \A q : q \in DOMAIN lines <=> q = P \/ q = D
    /\ lines[P] = promoted /\ lines[D] = demoted
    /\ P # D /\ path # P

\* The promotion in terms of the parent, the replaced move and the number of the
\* variation.
LEMMA PromotionIs ==
  ASSUME NEW tree, NEW path, NEW roots, NEW promoted, NEW demoted, NEW lines,
         Promotes(tree, path, roots, promoted, demoted, lines)
  PROVE  PromotionAt(tree, path, Parent(path), Owner(path), Index(path),
                     OwnerMove(tree, path).vars, Siblings(tree, path),
                     Append(Parent(path), <<Owner(path), 1>>), promoted, demoted, lines)
<1> DEFINE P == Parent(path)  o == Owner(path)  i == Index(path)  n == OwnerMove(tree, path).vars
           sib == Siblings(tree, path)  D == Append(P, <<o, 1>>)
<1>0. IsTree(tree) /\ path \in Branches(tree) /\ tree[path].moves # <<>>
  BY DEF Promotes
<1>1. /\ path \in Seq(Steps) /\ P \in Seq(Steps) /\ path \in Paths(tree) /\ P \in Paths(tree)
      /\ tree[P] \in VariationLines /\ tree[path] \in VariationLines
      /\ Last(path) = <<o, i>> /\ Last(path) \in Steps /\ path = Append(P, Last(path))
      /\ o \in 1..Len(tree[P].moves) /\ n = tree[P].moves[o].vars /\ i \in 1..n
  BY <1>0, BranchFacts, TreeFacts
<1>2. /\ Arranges(sib, {0} \cup ((1..n) \ {i})) /\ Len(sib) = n /\ sib[1] = 0
      /\ n \in Nat /\ n >= 1
  BY <1>0, SiblingsAre
<1>3. o \in Nat /\ <<o, 1>> \in Steps
  <2>1. o \in Nat
    BY <1>1, LineTypes
  <2> QED
    BY <2>1 DEF Steps
<1>4. Len(tree[path].moves) >= 1
  <2>1. tree[path].moves \in Seq(Moves)
    BY <1>1, LineTypes
  <2> QED
    BY <1>0, <2>1
<1>5. Joins(tree[P], o, tree[path], n, promoted)
  BY <1>0, <1>2, PromotedJoins DEF Promotes
<1>6. Splits(tree[P], o, demoted)
  BY <1>1, DemotedSplits DEF Promotes
<1>7. D \in Seq(Steps) /\ Len(D) = Len(P) + 1 /\ Len(path) = Len(P) + 1 /\ Len(P) \in Nat
  BY <1>1, <1>3, FrontLast
<1>8. P # D /\ path # P
  BY <1>7
<1> HIDE DEF P, o, i, n, sib, D
<1>9. lines = WithLine(WithLine(<<>>, D, demoted), P, promoted)
  BY Zenon DEF Promotes, P, o, D
<1>10. /\ \A q : q \in DOMAIN WithLine(<<>>, D, demoted) <=> q = D
       /\ WithLine(<<>>, D, demoted)[D] = demoted
  <2>1. DOMAIN <<>> = {}
    OBVIOUS
  <2> QED
    BY <2>1, WithLineFacts
<1>11. /\ \A q : q \in DOMAIN lines <=> q = P \/ q = D
       /\ lines[P] = promoted /\ lines[D] = demoted
  BY <1>8, <1>9, <1>10, WithLineFacts
<1>12. D = Append(P, <<o, 1>>)
  BY DEF D
<1>13. <<o, i>> \in Steps /\ path = Append(P, <<o, i>>)
  BY <1>1
<1>14. PromotionAt(tree, path, P, o, i, n, sib, D, promoted, demoted, lines)
  BY <1>1, <1>2, <1>3, <1>4, <1>5, <1>6, <1>7, <1>8, <1>11, <1>12, <1>13, Zenon DEF PromotionAt
<1> QED
  BY <1>14, Zenon DEF P, o, i, n, sib, D

\* A variation of one line and a variation of a variation of it are not confused.
LEMMA BelowSibling ==
  ASSUME NEW P \in Seq(Steps), NEW y \in Steps, NEW a \in Steps, NEW b \in Steps
  PROVE  /\ IsPrefix(Append(P, a), Append(Append(P, y), b)) => a = y
         /\ ~IsPrefix(Append(Append(P, y), b), Append(P, a))
         /\ Append(P, a) # Append(Append(P, y), b)
<1>1. /\ Append(P, a) \in Seq(Steps) /\ Append(P, y) \in Seq(Steps)
      /\ Append(Append(P, y), b) \in Seq(Steps)
      /\ Len(Append(P, a)) = Len(P) + 1 /\ Len(Append(Append(P, y), b)) = Len(P) + 2
      /\ Len(P) \in Nat
  OBVIOUS
<1>0. Append(P, a) # Append(Append(P, y), b)
  BY <1>1
<1>2. ~IsPrefix(Append(Append(P, y), b), Append(P, a))
  <2>1. ~(Len(Append(Append(P, y), b)) <= Len(Append(P, a)))
    BY <1>1
  <2> QED
    BY <2>1, Zenon DEF IsPrefix
<1>3. ASSUME IsPrefix(Append(P, a), Append(Append(P, y), b))
      PROVE  a = y
  <2>2. IsPrefix(Append(P, a), Append(P, y))
    BY <1>0, <1>1, <1>3, PrefixOfAppend, Zenon
  <2> QED
    BY <2>2, SiblingPrefix
<1> QED
  BY <1>0, <1>2, <1>3

\* Two lines that are below P or below its child Q, but in Q only if so said.
Below(P, Q, y, r, a) ==
    a \in Steps /\ (\/ r = Append(P, a) /\ a # y
                    \/ r = Append(Q, a))

\* Two such places are on the same side.
Alike(P, Q, r1, r2, a) ==
    \/ r1 = Append(P, a) /\ r2 = Append(P, a)
    \/ r1 = Append(Q, a) /\ r2 = Append(Q, a)

\* Q is the variation of P at step y.
IsChild(P, y, Q) == P \in Seq(Steps) /\ y \in Steps /\ Q = Append(P, y)

\* Of the variations of P and of Q, none lies in another.
LEMMA BelowMeet ==
  ASSUME NEW P, NEW y, NEW Q, IsChild(P, y, Q),
         NEW r1, NEW r2, NEW a, NEW b, Below(P, Q, y, r1, a), Below(P, Q, y, r2, b),
         IsPrefix(r1, r2)
  PROVE  a = b /\ Alike(P, Q, r1, r2, a) /\ r1 = r2
<1>0. P \in Seq(Steps) /\ y \in Steps /\ Q = Append(P, y)
  BY DEF IsChild
<1>1. a \in Steps /\ b \in Steps /\ Q \in Seq(Steps)
  BY <1>0, FrontLast DEF Below
<1>2. /\ IsPrefix(Append(P, a), Append(Q, b)) => a = y
      /\ ~IsPrefix(Append(Q, a), Append(P, b))
  BY <1>0, <1>1, BelowSibling
<1>3. /\ IsPrefix(Append(P, a), Append(P, b)) => a = b
      /\ IsPrefix(Append(Q, a), Append(Q, b)) => a = b
  BY <1>0, <1>1, SiblingPrefix
<1> QED
  BY <1>2, <1>3, Zenon DEF Below, Alike

\* The three kinds of lines that go elsewhere, and where they go.
SeatStay(tree, roots, r, s, x, P, o, i, n, sib, promoted) ==
    /\ s \in Steps /\ x \in Steps /\ s \in StepsFrom(tree[P]) /\ s # <<o, i>>
    /\ r = Append(P, s) /\ Stays(o, i, n, sib, s, x)
    /\ roots[r] = Append(P, x) /\ x \in StepsFrom(promoted) /\ x # <<o, 1>>

\* A root that sinks has a step from the demoted line.
SeatSink(tree, roots, r, s, x, P, o, i, D, demoted) ==
    /\ s \in Steps /\ x \in Steps /\ s \in StepsFrom(tree[P]) /\ s # <<o, i>>
    /\ r = Append(P, s) /\ Sinks(o, s, x)
    /\ roots[r] = Append(D, x) /\ x \in StepsFrom(demoted)

\* A root that rises has a step from the promoted line.
SeatRise(tree, path, roots, r, s, x, P, o, n, promoted) ==
    /\ s \in Steps /\ x \in Steps /\ s \in StepsFrom(tree[path])
    /\ r = Append(path, s) /\ Rises(o, n, s, x) /\ ~(s[1] < 1 \/ s[2] < 1)
    /\ roots[r] = Append(P, x) /\ x \in StepsFrom(promoted) /\ x # <<o, 1>>

\* A root stays, sinks or rises, to a step that there is.
Seated(tree, path, roots, r, s, x, P, o, i, n, sib, D, promoted, demoted) ==
    \/ SeatStay(tree, roots, r, s, x, P, o, i, n, sib, promoted)
    \/ SeatSink(tree, roots, r, s, x, P, o, i, D, demoted)
    \/ SeatRise(tree, path, roots, r, s, x, P, o, n, promoted)

\* Every root of a promotion is seated, and every variation is a root.
LEMMA SeatsAre ==
  ASSUME NEW tree, NEW path, NEW roots, NEW promoted, NEW demoted, NEW lines,
         Promotes(tree, path, roots, promoted, demoted, lines),
         NEW P, NEW o, NEW i, NEW n, NEW sib, NEW D,
         P = Parent(path), o = Owner(path), i = Index(path), n = OwnerMove(tree, path).vars,
         sib = Siblings(tree, path), D = Append(P, <<o, 1>>)
  PROVE  /\ \A r \in DOMAIN roots : \E s, x :
               Seated(tree, path, roots, r, s, x, P, o, i, n, sib, D, promoted, demoted)
         /\ \A s \in StepsFrom(tree[P]) : s # <<o, i>> => Append(P, s) \in DOMAIN roots
         /\ \A s \in StepsFrom(tree[path]) : Append(path, s) \in DOMAIN roots
<1>0. PromotionAt(tree, path, P, o, i, n, sib, D, promoted, demoted, lines)
  BY PromotionIs
<1>1. IsTree(tree) /\ path \in Branches(tree) /\ roots = PromotedRoots(tree, path)
  BY DEF Promotes
<1>2. /\ tree[P] \in VariationLines /\ tree[path] \in VariationLines
      /\ o \in 1..Len(tree[P].moves) /\ o \in Nat /\ n \in Nat /\ n >= 1 /\ i \in 1..n
      /\ n = tree[P].moves[o].vars /\ Len(tree[path].moves) >= 1
      /\ Joins(tree[P], o, tree[path], n, promoted) /\ Splits(tree[P], o, demoted)
      /\ Last(path) = <<o, i>>
  BY <1>0, Zenon DEF PromotionAt
<1>30. IntoPromoted(tree[P], tree[path], promoted, o, i, n, sib)
  <2> DEFINE parent == tree[P]  selected == tree[path]
  <2>1. /\ parent \in VariationLines /\ selected \in VariationLines
        /\ o \in 1..Len(parent.moves) /\ n \in Nat /\ n >= 1 /\ i \in 1..n
        /\ n = parent.moves[o].vars /\ Len(selected.moves) >= 1
        /\ Joins(parent, o, selected, n, promoted)
    BY <1>2, Zenon
  <2> HIDE DEF parent, selected
  <2>2. IntoPromoted(parent, selected, promoted, o, i, n, sib)
    BY <2>1, SeatsInto, Zenon
  <2> QED
    BY <2>2 DEF parent, selected
<1>3. /\ \A s \in StepsFrom(tree[P]), x \in Steps :
            Stays(o, i, n, sib, s, x) => x \in StepsFrom(promoted) /\ (x[1] = o => x[2] # 1)
      /\ \A s \in StepsFrom(tree[path]), x \in Steps :
            Rises(o, n, s, x) => x \in StepsFrom(promoted) /\ (x[1] = o => x[2] # 1)
  BY <1>30, Zenon DEF IntoPromoted
<1>4. \A s \in StepsFrom(tree[P]), x \in Steps : Sinks(o, s, x) => x \in StepsFrom(demoted)
  BY <1>2, SplitsSteps
<1>5. \A x : (x[1] = o => x[2] # 1) => x # <<o, 1>>
  OBVIOUS
<1>6. \A s, x : Stays(o, i, n, sib, s, x) => s # <<o, i>>
  BY <1>2 DEF Stays
<1>7. \A s, x : Sinks(o, s, x) => s # <<o, i>>
  BY <1>2 DEF Sinks
<1>8. \A s \in StepsFrom(tree[path]) : s \in Steps => ~(s[1] < 1 \/ s[2] < 1)
  <2>1. \A s \in StepsFrom(tree[path]) :
           s \in Steps /\ s[1] \in 1..Len(tree[path].moves) /\ s[2] \in 1..tree[path].moves[s[1]].vars
    BY <1>2, StepsFromIs
  <2> QED
    BY <2>1
<1>9. /\ \A r \in DOMAIN roots :
            \/ \E s, x : IsStay(tree, path, roots, r, s, x)
            \/ \E s, x : IsSink(tree, path, roots, r, s, x)
            \/ \E s, x : IsRise(tree, path, roots, r, s, x)
      /\ \A s \in StepsFrom(tree[P]) : s # Last(path) => Append(P, s) \in DOMAIN roots
      /\ \A s \in StepsFrom(tree[path]) : Append(path, s) \in DOMAIN roots
  BY <1>1, PromotedRootsAre
<1>10. ASSUME NEW r, NEW s, NEW x, IsStay(tree, path, roots, r, s, x)
       PROVE  SeatStay(tree, roots, r, s, x, P, o, i, n, sib, promoted)
  BY <1>3, <1>5, <1>6, <1>10, Zenon DEF IsStay, SeatStay
<1>11. ASSUME NEW r, NEW s, NEW x, IsSink(tree, path, roots, r, s, x)
       PROVE  SeatSink(tree, roots, r, s, x, P, o, i, D, demoted)
  BY <1>4, <1>7, <1>11, Zenon DEF IsSink, SeatSink
<1>12. ASSUME NEW r, NEW s, NEW x, IsRise(tree, path, roots, r, s, x)
       PROVE  SeatRise(tree, path, roots, r, s, x, P, o, n, promoted)
  BY <1>3, <1>5, <1>8, <1>12, Zenon DEF IsRise, SeatRise
<1>13. \A r \in DOMAIN roots : \E s, x :
          Seated(tree, path, roots, r, s, x, P, o, i, n, sib, D, promoted, demoted)
  BY <1>9, <1>10, <1>11, <1>12, Zenon DEF Seated
<1> QED
  BY <1>2, <1>9, <1>13, Zenon

\* A variation has one new step, and does not both stay and sink.
LEMMA StaysOnce ==
  ASSUME NEW o \in Nat, NEW i, NEW n \in Nat, NEW sib, NEW S, Arranges(sib, S), Len(sib) = n,
         NEW s \in Steps, NEW x \in Steps, NEW y \in Steps
  PROVE  /\ Stays(o, i, n, sib, s, x) /\ Stays(o, i, n, sib, s, y) => x = y
         /\ Sinks(o, s, x) /\ Sinks(o, s, y) => x = y
         /\ Rises(o, n, s, x) /\ Rises(o, n, s, y) => x = y
         /\ ~(Stays(o, i, n, sib, s, x) /\ Sinks(o, s, y))
<1>1. /\ s[1] \in Nat /\ s[2] \in Nat /\ x[1] \in Nat /\ x[2] \in Nat
      /\ y[1] \in Nat /\ y[2] \in Nat
  BY DEF Steps
<1>2. ASSUME Stays(o, i, n, sib, s, x), Stays(o, i, n, sib, s, y)
      PROVE  x = y
  <2>1. CASE s[1] < o
    BY <1>1, <1>2, <2>1 DEF Stays
  <2>2. CASE ~(s[1] < o)
    <3>1. /\ x[1] = o /\ y[1] = o /\ x[2] \in 2..n /\ y[2] \in 2..n
          /\ sib[x[2]] = s[2] /\ sib[y[2]] = s[2]
      BY <1>2, <2>2 DEF Stays
    <3>2. x[2] \in 1..Len(sib) /\ y[2] \in 1..Len(sib)
      BY <3>1
    <3>3. x[2] = y[2]
      BY <3>1, <3>2 DEF Arranges
    <3> QED
      BY <3>1, <3>3, SameStep
  <2> QED
    BY <2>1, <2>2
<1>3. ASSUME Sinks(o, s, x), Sinks(o, s, y)
      PROVE  x = y
  <2>1. x[1] = y[1] /\ x[2] = y[2]
    BY <1>3 DEF Sinks
  <2> QED
    BY <2>1, SameStep
<1>4. ASSUME Rises(o, n, s, x), Rises(o, n, s, y)
      PROVE  x = y
  <2>1. x[1] = y[1] /\ x[2] = y[2]
    BY <1>4 DEF Rises
  <2> QED
    BY <2>1, SameStep
<1>5. ASSUME Stays(o, i, n, sib, s, x), Sinks(o, s, y)
      PROVE  FALSE
  BY <1>1, <1>5 DEF Stays, Sinks
<1> QED
  BY <1>2, <1>3, <1>4, <1>5

\* Every seat has its line below the parent or the selected line, and its place.
Seating(tree, path, roots, P, o, i, n, sib, D, promoted, demoted) ==
    \A r \in DOMAIN roots : \E s, x :
        Seated(tree, path, roots, r, s, x, P, o, i, n, sib, D, promoted, demoted)

\* Where a seated root was, and where it goes.
LEMMA SeatedBelow ==
  ASSUME NEW tree, NEW path, NEW roots, NEW r, NEW s, NEW x, NEW P, NEW o, NEW i, NEW n,
         NEW sib, NEW D, NEW promoted, NEW demoted,
         Seated(tree, path, roots, r, s, x, P, o, i, n, sib, D, promoted, demoted)
  PROVE  Below(P, path, <<o, i>>, r, s) /\ Below(P, D, <<o, 1>>, roots[r], x)
<1>1. CASE SeatStay(tree, roots, r, s, x, P, o, i, n, sib, promoted)
  BY <1>1, Zenon DEF SeatStay, Below
<1>2. CASE SeatSink(tree, roots, r, s, x, P, o, i, D, demoted)
  BY <1>2, Zenon DEF SeatSink, Below
<1>3. CASE SeatRise(tree, path, roots, r, s, x, P, o, n, promoted)
  BY <1>3, Zenon DEF SeatRise, Below
<1> QED
  BY <1>1, <1>2, <1>3, Zenon DEF Seated

\* Where the lines come from and go, and that every step of the new lines is taken.
SeatsTaken(tree, P, roots, promoted, demoted, D, y) ==
    /\ \A r \in DOMAIN roots : r \in Paths(tree)
    /\ \A r \in DOMAIN roots :
          \/ \E x \in StepsFrom(promoted) : x # y /\ roots[r] = Append(P, x)
          \/ \E x \in StepsFrom(demoted) : roots[r] = Append(D, x)

\* Every root goes below the parent, to a step from one of the two new lines.
LEMMA SeatsTake ==
  ASSUME NEW tree, IsTree(tree), NEW path \in Paths(tree), NEW P \in Paths(tree),
         NEW roots, NEW o, NEW i, NEW n, NEW sib, NEW D, NEW promoted, NEW demoted,
         Seating(tree, path, roots, P, o, i, n, sib, D, promoted, demoted)
  PROVE  SeatsTaken(tree, P, roots, promoted, demoted, D, <<o, 1>>)
<1>1. ASSUME NEW r \in DOMAIN roots
      PROVE  /\ r \in Paths(tree)
             /\ \/ \E x \in StepsFrom(promoted) : x # <<o, 1>> /\ roots[r] = Append(P, x)
                \/ \E x \in StepsFrom(demoted) : roots[r] = Append(D, x)
  <2>1. PICK s, x : Seated(tree, path, roots, r, s, x, P, o, i, n, sib, D, promoted, demoted)
    BY Zenon DEF Seating
  <2>2. CASE SeatStay(tree, roots, r, s, x, P, o, i, n, sib, promoted)
    <3>1. /\ s \in StepsFrom(tree[P]) /\ r = Append(P, s)
          /\ roots[r] = Append(P, x) /\ x \in StepsFrom(promoted) /\ x # <<o, 1>>
      BY <2>2, Zenon DEF SeatStay
    <3> QED
      BY <3>1, TreeFacts, Zenon
  <2>3. CASE SeatSink(tree, roots, r, s, x, P, o, i, D, demoted)
    <3>1. /\ s \in StepsFrom(tree[P]) /\ r = Append(P, s)
          /\ roots[r] = Append(D, x) /\ x \in StepsFrom(demoted)
      BY <2>3, Zenon DEF SeatSink
    <3> QED
      BY <3>1, TreeFacts, Zenon
  <2>4. CASE SeatRise(tree, path, roots, r, s, x, P, o, n, promoted)
    <3>1. /\ s \in StepsFrom(tree[path]) /\ r = Append(path, s)
          /\ roots[r] = Append(P, x) /\ x \in StepsFrom(promoted) /\ x # <<o, 1>>
      BY <2>4, Zenon DEF SeatRise
    <3> QED
      BY <3>1, TreeFacts, Zenon
  <2> QED
    BY <2>1, <2>2, <2>3, <2>4, Zenon DEF Seated
<1> QED
  BY <1>1 DEF SeatsTaken

\* No two lines are one below the other, or go to such places.
Separate(roots) ==
    \A r1, r2 \in DOMAIN roots : IsPrefix(r1, r2) \/ IsPrefix(roots[r1], roots[r2]) => r1 = r2

\* No root lies in another, before the promotion or after it.
LEMMA SeatsSeparate ==
  ASSUME NEW tree, NEW path, NEW roots, NEW P \in Seq(Steps), NEW o \in Nat, NEW i, NEW n \in Nat,
         NEW sib, NEW D, NEW promoted, NEW demoted,
         Seating(tree, path, roots, P, o, i, n, sib, D, promoted, demoted),
         IsChild(P, <<o, i>>, path), IsChild(P, <<o, 1>>, D)
  PROVE  Separate(roots)
<1> SUFFICES ASSUME NEW r1 \in DOMAIN roots, NEW r2 \in DOMAIN roots,
                    IsPrefix(r1, r2) \/ IsPrefix(roots[r1], roots[r2])
             PROVE  r1 = r2
  BY DEF Separate
<1> DEFINE St(r, s, x) == SeatStay(tree, roots, r, s, x, P, o, i, n, sib, promoted)
           Si(r, s, x) == SeatSink(tree, roots, r, s, x, P, o, i, D, demoted)
           Ri(r, s, x) == SeatRise(tree, path, roots, r, s, x, P, o, n, promoted)
<1>1. PICK s1, x1 : Seated(tree, path, roots, r1, s1, x1, P, o, i, n, sib, D, promoted, demoted)
  BY Zenon DEF Seating
<1>2. PICK s2, x2 : Seated(tree, path, roots, r2, s2, x2, P, o, i, n, sib, D, promoted, demoted)
  BY Zenon DEF Seating
<1>3. Below(P, path, <<o, i>>, r1, s1) /\ Below(P, D, <<o, 1>>, roots[r1], x1)
  BY <1>1, SeatedBelow, Zenon
<1>4. Below(P, path, <<o, i>>, r2, s2) /\ Below(P, D, <<o, 1>>, roots[r2], x2)
  BY <1>2, SeatedBelow, Zenon
<1>5. CASE IsPrefix(r1, r2)
  <2> QED
    BY <1>3, <1>4, <1>5, BelowMeet, Zenon
<1>6. CASE IsPrefix(roots[r1], roots[r2])
  <2>1. x1 = x2 /\ roots[r1] = roots[r2]
    BY <1>3, <1>4, <1>6, BelowMeet, Zenon
  <2>2. s1 \in Steps /\ s2 \in Steps /\ x1 \in Steps /\ x2 \in Steps
    BY <1>3, <1>4, Zenon DEF Below
  <2>3. roots[r1] = roots[r2]
    BY <2>1
  <2>4. Append(P, x1) # Append(D, x2) /\ Append(P, x2) # Append(D, x1)
    BY <2>2, BelowSibling DEF IsChild
  <2>5. /\ Stays(o, i, n, sib, s1, x1) /\ Stays(o, i, n, sib, s2, x1) => s1 = s2
        /\ Rises(o, n, s1, x1) /\ Rises(o, n, s2, x1) => s1 = s2
        /\ Sinks(o, s1, x1) /\ Sinks(o, s2, x1) => s1 = s2
        /\ Stays(o, i, n, sib, s1, x1) /\ Rises(o, n, s2, x1) => s2[1] < 1 \/ s2[2] < 1
        /\ Stays(o, i, n, sib, s2, x1) /\ Rises(o, n, s1, x1) => s1[1] < 1 \/ s1[2] < 1
    BY <2>2, SeatsApart
  <2>6. /\ St(r1, s1, x1) => r1 = Append(P, s1) /\ Stays(o, i, n, sib, s1, x1) /\ roots[r1] = Append(P, x1)
        /\ Si(r1, s1, x1) => r1 = Append(P, s1) /\ Sinks(o, s1, x1) /\ roots[r1] = Append(D, x1)
        /\ Ri(r1, s1, x1) => r1 = Append(path, s1) /\ Rises(o, n, s1, x1) /\ roots[r1] = Append(P, x1)
                             /\ ~(s1[1] < 1 \/ s1[2] < 1)
    BY Zenon DEF SeatStay, SeatSink, SeatRise
  <2>7. /\ St(r2, s2, x2) => r2 = Append(P, s2) /\ Stays(o, i, n, sib, s2, x1) /\ roots[r2] = Append(P, x2)
        /\ Si(r2, s2, x2) => r2 = Append(P, s2) /\ Sinks(o, s2, x1) /\ roots[r2] = Append(D, x2)
        /\ Ri(r2, s2, x2) => r2 = Append(path, s2) /\ Rises(o, n, s2, x1) /\ roots[r2] = Append(P, x2)
                             /\ ~(s2[1] < 1 \/ s2[2] < 1)
    BY <2>1, Zenon DEF SeatStay, SeatSink, SeatRise
  <2>8. /\ St(r1, s1, x1) \/ Si(r1, s1, x1) \/ Ri(r1, s1, x1)
        /\ St(r2, s2, x2) \/ Si(r2, s2, x2) \/ Ri(r2, s2, x2)
    BY <1>1, <1>2, Zenon DEF Seated
  <2> HIDE DEF St, Si, Ri
  <2>9. CASE St(r1, s1, x1)
    BY <2>3, <2>4, <2>5, <2>6, <2>7, <2>8, <2>9, Zenon
  <2>10. CASE Si(r1, s1, x1)
    BY <2>3, <2>4, <2>5, <2>6, <2>7, <2>8, <2>10, Zenon
  <2>11. CASE Ri(r1, s1, x1)
    BY <2>3, <2>4, <2>5, <2>6, <2>7, <2>8, <2>11, Zenon
  <2> QED
    BY <2>8, <2>9, <2>10, <2>11, Zenon
<1> QED
  BY <1>5, <1>6

-----------------------------------------------------------------------------
(* Promotion: no step is left without a line, so that it can be carried out         *)

\* The two lines that a promotion makes of the parent and the selected line.
Halves(parent, o, selected, n, i, sib, promoted, demoted) ==
    /\ parent \in VariationLines /\ selected \in VariationLines
    /\ o \in 1..Len(parent.moves) /\ o \in Nat
    /\ n \in Nat /\ n >= 1 /\ i \in 1..n /\ n = parent.moves[o].vars
    /\ Len(selected.moves) >= 1
    /\ Arranges(sib, {0} \cup ((1..n) \ {i})) /\ Len(sib) = n /\ sib[1] = 0
    /\ Joins(parent, o, selected, n, promoted)
    /\ Splits(parent, o, demoted)

\* The lines that go elsewhere are all those below the parent and the selected line.
Complete(tree, path, roots, P, o, i) ==
    /\ \A s \in StepsFrom(tree[P]) : s # <<o, i>> => Append(P, s) \in DOMAIN roots
    /\ \A s \in StepsFrom(tree[path]) : Append(path, s) \in DOMAIN roots

\* Every step from the two new lines is taken by a root, or is that of the demoted
\* line.
Fills(roots, promoted, demoted, P, D, y) ==
    /\ \A x \in StepsFrom(promoted) : x # y => \E r \in DOMAIN roots : roots[r] = Append(P, x)
    /\ \A x \in StepsFrom(demoted) : \E r \in DOMAIN roots : roots[r] = Append(D, x)

\* The promotion leaves no gap: every step from the two new lines is taken.
LEMMA SeatsFill ==
  ASSUME NEW tree, NEW path, NEW roots, NEW P, NEW o, NEW i, NEW n, NEW sib, NEW D,
         NEW promoted, NEW demoted,
         Seating(tree, path, roots, P, o, i, n, sib, D, promoted, demoted),
         Complete(tree, path, roots, P, o, i),
         Halves(tree[P], o, tree[path], n, i, sib, promoted, demoted),
         IsChild(P, <<o, i>>, path)
  PROVE  Fills(roots, promoted, demoted, P, D, <<o, 1>>)
<1>1. /\ tree[P] \in VariationLines /\ tree[path] \in VariationLines
      /\ promoted \in VariationLines /\ demoted \in VariationLines
      /\ o \in Nat /\ n \in Nat
      /\ Arranges(sib, {0} \cup ((1..n) \ {i})) /\ Len(sib) = n
  BY Zenon DEF Halves, Joins, Splits
<1>2. /\ \A s \in StepsFrom(tree[P]) : s \in Steps
      /\ \A s \in StepsFrom(tree[path]) : s \in Steps
      /\ \A s \in StepsFrom(promoted) : s \in Steps
      /\ \A s \in StepsFrom(demoted) : s \in Steps
  BY <1>1, StepsFromIs
<1>3. P \in Seq(Steps) /\ <<o, i>> \in Steps /\ path = Append(P, <<o, i>>)
  BY DEF IsChild
<1>4. \A x \in StepsFrom(promoted) : x # <<o, 1>> =>
         \/ \E s \in StepsFrom(tree[P]) : s # <<o, i>> /\ Stays(o, i, n, sib, s, x)
         \/ \E s \in StepsFrom(tree[path]) : Rises(o, n, s, x)
  BY SeatsFilled, Zenon DEF Halves
<1>5. ASSUME NEW x \in StepsFrom(demoted)
      PROVE  \E s \in StepsFrom(tree[P]) : s # <<o, i>> /\ Sinks(o, s, x)
  <2> DEFINE j == o + x[1] - 1  s == <<j, x[2]>>
  <2>1. x[1] >= 2 /\ s \in StepsFrom(tree[P])
    BY SplitsSteps DEF Halves
  <2>2. x[1] \in Nat
    BY <1>2 DEF Steps
  <2>3. j > o /\ x[1] = j - o + 1
    BY <1>1, <2>1, <2>2
  <2> HIDE DEF j
  <2>4. s # <<o, i>>
    BY <1>1, <2>3
  <2>5. Sinks(o, s, x)
    BY <2>3 DEF Sinks
  <2> QED
    BY <2>1, <2>4, <2>5
<1>6. \A s, x, y : s \in Steps /\ x \in Steps /\ y \in Steps =>
         /\ Stays(o, i, n, sib, s, x) /\ Stays(o, i, n, sib, s, y) => x = y
         /\ Sinks(o, s, x) /\ Sinks(o, s, y) => x = y
         /\ Rises(o, n, s, x) /\ Rises(o, n, s, y) => x = y
         /\ ~(Stays(o, i, n, sib, s, x) /\ Sinks(o, s, y))
  BY <1>1, StaysOnce
<1> DEFINE St(r, s, x) == SeatStay(tree, roots, r, s, x, P, o, i, n, sib, promoted)
           Si(r, s, x) == SeatSink(tree, roots, r, s, x, P, o, i, D, demoted)
           Ri(r, s, x) == SeatRise(tree, path, roots, r, s, x, P, o, n, promoted)
<1>7. ASSUME NEW r \in DOMAIN roots, NEW s, Below(P, path, <<o, i>>, r, s)
      PROVE  \E x \in Steps : St(r, s, x) \/ Si(r, s, x) \/ Ri(r, s, x)
  <2>1. PICK s2, x : Seated(tree, path, roots, r, s2, x, P, o, i, n, sib, D, promoted, demoted)
    BY Zenon DEF Seating
  <2>2. Below(P, path, <<o, i>>, r, s2) /\ Below(P, D, <<o, 1>>, roots[r], x)
    BY <2>1, SeatedBelow, Zenon
  <2>3. r \in Seq(Steps)
    BY <1>3, <1>7, FrontLast DEF Below
  <2>4. IsPrefix(r, r)
    BY <2>3, PrefixItself, Zenon
  <2>5. s = s2
    BY <1>7, <2>2, <2>4, BelowMeet, Zenon
  <2>6. x \in Steps
    BY <2>2, Zenon DEF Below
  <2> QED
    BY <2>1, <2>5, <2>6, Zenon DEF Seated
<1>8. ASSUME NEW r, NEW s, NEW x, St(r, s, x)
       PROVE  r = Append(P, s) /\ Stays(o, i, n, sib, s, x) /\ roots[r] = Append(P, x)
  BY <1>8, Zenon DEF SeatStay
<1>9. ASSUME NEW r, NEW s, NEW x, Si(r, s, x)
       PROVE  r = Append(P, s) /\ Sinks(o, s, x) /\ roots[r] = Append(D, x)
  BY <1>9, Zenon DEF SeatSink
<1>10. ASSUME NEW r, NEW s, NEW x, Ri(r, s, x)
       PROVE  r = Append(path, s) /\ Rises(o, n, s, x) /\ roots[r] = Append(P, x)
  BY <1>10, Zenon DEF SeatRise
<1> HIDE DEF St, Si, Ri
<1>11. \A s \in Steps : Append(P, s) # Append(path, s)
  BY <1>3, BelowSibling
<1>12. ASSUME NEW s \in StepsFrom(tree[P]), s # <<o, i>>, NEW x \in Steps
       PROVE  /\ Stays(o, i, n, sib, s, x) => \E r \in DOMAIN roots : roots[r] = Append(P, x)
              /\ Sinks(o, s, x) => \E r \in DOMAIN roots : roots[r] = Append(D, x)
  <2> DEFINE r == Append(P, s)
  <2>1. r \in DOMAIN roots
    BY <1>12, Zenon DEF Complete
  <2>2. s \in Steps /\ Below(P, path, <<o, i>>, r, s)
    BY <1>2, <1>12, Zenon DEF Below
  <2>3. PICK y \in Steps : St(r, s, y) \/ Si(r, s, y) \/ Ri(r, s, y)
    BY <1>7, <2>1, <2>2, Zenon
  <2>4. ~Ri(r, s, y)
    BY <1>11, <1>10, <2>2, Zenon
  <2> HIDE DEF r
  <2>5. \/ Stays(o, i, n, sib, s, y) /\ roots[r] = Append(P, y)
        \/ Sinks(o, s, y) /\ roots[r] = Append(D, y)
    BY <1>8, <1>9, <2>3, <2>4, Zenon
  <2>6. /\ Stays(o, i, n, sib, s, x) /\ Stays(o, i, n, sib, s, y) => x = y
        /\ Sinks(o, s, x) /\ Sinks(o, s, y) => x = y
        /\ ~(Stays(o, i, n, sib, s, x) /\ Sinks(o, s, y))
        /\ ~(Stays(o, i, n, sib, s, y) /\ Sinks(o, s, x))
    BY <1>6, <2>2, Zenon
  <2> QED
    BY <2>1, <2>5, <2>6, Zenon
<1>13. ASSUME NEW s \in StepsFrom(tree[path]), NEW x \in Steps, Rises(o, n, s, x)
       PROVE  \E r \in DOMAIN roots : roots[r] = Append(P, x)
  <2> DEFINE r == Append(path, s)
  <2>1. r \in DOMAIN roots
    BY Zenon DEF Complete
  <2>2. s \in Steps /\ Below(P, path, <<o, i>>, r, s)
    BY <1>2, Zenon DEF Below
  <2>3. PICK y \in Steps : St(r, s, y) \/ Si(r, s, y) \/ Ri(r, s, y)
    BY <1>7, <2>1, <2>2, Zenon
  <2>4. Append(P, s) # r
    BY <1>11, <2>2, Zenon
  <2> HIDE DEF r
  <2>5. ~St(r, s, y)
    BY <1>8, <2>4, Zenon
  <2>6. ~Si(r, s, y)
    BY <1>9, <2>4, Zenon
  <2>7. Rises(o, n, s, y) /\ roots[r] = Append(P, y)
    BY <1>10, <2>3, <2>5, <2>6, Zenon
  <2>8. x = y
    BY <1>6, <1>13, <2>2, <2>7, Zenon
  <2> QED
    BY <2>1, <2>7, <2>8, Zenon
<1>14. ASSUME NEW x \in StepsFrom(promoted), x # <<o, 1>>
       PROVE  \E r \in DOMAIN roots : roots[r] = Append(P, x)
  BY <1>2, <1>4, <1>12, <1>13, <1>14, Zenon
<1>15. ASSUME NEW x \in StepsFrom(demoted)
       PROVE  \E r \in DOMAIN roots : roots[r] = Append(D, x)
  BY <1>2, <1>5, <1>12, <1>15, Zenon
<1> QED
  BY <1>14, <1>15, Zenon DEF Fills

\* A line below P, or below its child Q, is not above Q.
Beneath(P, Q, r) == r \in Seq(Steps) /\ IsStrictPrefix(P, r) /\ ~IsPrefix(r, Q)

\* Places below P or Q are beneath P, and not on the way to Q.
LEMMA BelowIsBeneath ==
  ASSUME NEW P, NEW y, NEW Q, IsChild(P, y, Q), NEW r, NEW a, Below(P, Q, y, r, a)
  PROVE  Beneath(P, Q, r)
<1>1. P \in Seq(Steps) /\ y \in Steps /\ Q = Append(P, y) /\ a \in Steps /\ Q \in Seq(Steps)
  BY FrontLast DEF IsChild, Below
<1>2. CASE r = Append(P, a) /\ a # y
  <2>1. r \in Seq(Steps) /\ IsStrictPrefix(P, r) /\ ~IsPrefix(r, Q)
    BY <1>1, <1>2, FrontLast, SiblingPrefix
  <2> QED
    BY <2>1 DEF Beneath
<1>3. CASE r = Append(Q, a)
  <2>1. r \in Seq(Steps) /\ r = Q \o <<a>> /\ <<a>> \in Seq(Steps) /\ Len(r) = Len(Q) + 1
    BY <1>1, <1>3, FrontLast, OneStep
  <2>2. IsStrictPrefix(P, Q)
    BY <1>1, SiblingPrefix
  <2>3. IsStrictPrefix(P, r)
    BY <1>1, <2>1, <2>2, PrefixOfConcat
  <2>4. ~(Len(r) <= Len(Q))
    BY <1>1, <2>1
  <2>5. ~IsPrefix(r, Q)
    BY <2>4, Zenon DEF IsPrefix
  <2> QED
    BY <2>1, <2>3, <2>5 DEF Beneath
<1> QED
  BY <1>2, <1>3, Zenon DEF Below

\* A promotion can be carried out.
LEMMA PromotedGrafts ==
  ASSUME NEW tree, NEW path, NEW roots, NEW promoted, NEW demoted, NEW lines,
         Promotes(tree, path, roots, promoted, demoted, lines)
  PROVE  Grafts(tree, Parent(path), roots, lines)
<1> DEFINE P == Parent(path)  o == Owner(path)  i == Index(path)  n == OwnerMove(tree, path).vars
           sib == Siblings(tree, path)  D == Append(P, <<o, 1>>)  y == <<o, 1>>
<1>1. IsTree(tree)
  BY DEF Promotes
<1>2. PromotionAt(tree, path, P, o, i, n, sib, D, promoted, demoted, lines)
  BY PromotionIs
<1>3. Seating(tree, path, roots, P, o, i, n, sib, D, promoted, demoted)
      /\ Complete(tree, path, roots, P, o, i)
  <2>1. /\ \A r \in DOMAIN roots : \E s, x :
               Seated(tree, path, roots, r, s, x, P, o, i, n, sib, D, promoted, demoted)
        /\ \A s \in StepsFrom(tree[P]) : s # <<o, i>> => Append(P, s) \in DOMAIN roots
        /\ \A s \in StepsFrom(tree[path]) : Append(path, s) \in DOMAIN roots
    BY SeatsAre
  <2> HIDE DEF P, o, i, n, sib, D
  <2> QED
    BY <2>1, Zenon DEF Seating, Complete
<1> HIDE DEF P, o, i, n, sib, D, y
<1>4. Halves(tree[P], o, tree[path], n, i, sib, promoted, demoted)
  BY <1>2, Zenon DEF PromotionAt, Halves
<1>5. IsChild(P, <<o, i>>, path) /\ IsChild(P, <<o, 1>>, D)
  BY <1>2, Zenon DEF PromotionAt, IsChild
<1>6. /\ path \in Paths(tree) /\ P \in Paths(tree) /\ P \in Seq(Steps) /\ D \in Seq(Steps)
      /\ o \in Nat /\ n \in Nat /\ n >= 1 /\ P # D /\ y \in Steps /\ D = Append(P, y)
      /\ \A q : q \in DOMAIN lines <=> q = P \/ q = D
      /\ lines[P] = promoted /\ lines[D] = demoted
  BY <1>2, Zenon DEF PromotionAt, y
<1>7. promoted \in VariationLines /\ demoted \in VariationLines
  BY <1>4, Zenon DEF Halves, Joins, Splits
<1>8. SeatsTaken(tree, P, roots, promoted, demoted, D, y)
  BY <1>1, <1>3, <1>6, SeatsTake, Zenon DEF y
<1>9. Separate(roots)
  BY <1>3, <1>5, <1>6, SeatsSeparate, Zenon
<1>10. Fills(roots, promoted, demoted, P, D, y)
  BY <1>3, <1>4, <1>5, SeatsFill, Zenon DEF y
<1>11. y \in StepsFrom(promoted)
  <2> DEFINE parent == tree[P]  selected == tree[path]
  <2>1. /\ parent \in VariationLines /\ selected \in VariationLines
        /\ o \in 1..Len(parent.moves) /\ Len(selected.moves) >= 1
        /\ Joins(parent, o, selected, n, promoted)
    BY <1>4, Zenon DEF Halves
  <2> HIDE DEF parent, selected
  <2>2. selected.moves[1].vars \in Nat /\ Len(selected.moves) \in Nat
    BY <2>1, LineTypes
  <2>3. /\ y[1] >= o /\ y[1] - o + 1 = 1 /\ y[1] = o
        /\ 1 \in 1..Len(selected.moves) /\ y[2] \in 1..(selected.moves[1].vars + n)
    BY <1>6, <2>1, <2>2 DEF y
  <2>4. \A s \in Steps : s \in StepsFrom(promoted) <=>
            \/ s[1] < o /\ s \in StepsFrom(parent)
            \/ /\ s[1] >= o /\ s[1] - o + 1 \in 1..Len(selected.moves)
               /\ s[2] \in 1..(selected.moves[s[1] - o + 1].vars + (IF s[1] = o THEN n ELSE 0))
    BY <1>6, <2>1, JoinsSteps
  <2> QED
    BY <1>6, <2>3, <2>4
<1>12. ASSUME NEW r \in DOMAIN roots
       PROVE  Beneath(P, path, r) /\ Beneath(P, D, roots[r])
  <2>1. PICK s, x : Seated(tree, path, roots, r, s, x, P, o, i, n, sib, D, promoted, demoted)
    BY <1>3, Zenon DEF Seating
  <2>2. Below(P, path, <<o, i>>, r, s) /\ Below(P, D, <<o, 1>>, roots[r], x)
    BY <2>1, SeatedBelow, Zenon
  <2> QED
    BY <1>5, <2>2, BelowIsBeneath, Zenon
<1>13. ASSUME NEW r \in DOMAIN roots
       PROVE  /\ r \in Paths(tree) /\ IsStrictPrefix(P, r)
              /\ roots[r] \in Seq(Steps) /\ IsStrictPrefix(P, roots[r])
  BY <1>8, <1>12, Zenon DEF SeatsTaken, Beneath
<1>14. ASSUME NEW q \in DOMAIN lines, q # P
       PROVE  IsStrictPrefix(P, q) /\ \A r \in DOMAIN roots : ~IsPrefix(roots[r], q)
  <2>1. q = D
    BY <1>6, <1>14, Zenon
  <2>2. IsStrictPrefix(P, D)
    BY <1>6, SiblingPrefix
  <2> QED
    BY <1>12, <2>1, <2>2, Zenon DEF Beneath
<1>15. \A x : x \in Range(roots) <=> \E r \in DOMAIN roots : x = roots[r]
  BY DEF Range
<1>16. ASSUME NEW q \in DOMAIN lines, NEW s \in StepsFrom(lines[q])
       PROVE  Append(q, s) \in DOMAIN lines \cup Range(roots)
  <2>1. CASE q = P /\ s = y
    BY <1>6, <2>1, Zenon
  <2>2. CASE q = P /\ s # y
    <3>1. s \in StepsFrom(promoted)
      BY <1>6, <2>2, Zenon
    <3>2. \E r \in DOMAIN roots : roots[r] = Append(P, s)
      BY <1>10, <2>2, <3>1, Zenon DEF Fills
    <3> QED
      BY <1>15, <2>2, <3>2, Zenon
  <2>3. CASE q = D
    <3>1. s \in StepsFrom(demoted)
      BY <1>6, <2>3, Zenon
    <3>2. \E r \in DOMAIN roots : roots[r] = Append(D, s)
      BY <1>10, <3>1, Zenon DEF Fills
    <3> QED
      BY <1>15, <2>3, <3>2, Zenon
  <2> QED
    BY <1>6, <2>1, <2>2, <2>3, Zenon
<1>17. \A s \in Steps : /\ Parent(Append(P, s)) = P /\ Last(Append(P, s)) = s
                        /\ Parent(Append(D, s)) = D /\ Last(Append(D, s)) = s
  BY <1>6, FrontLast
<1>18. /\ \A s \in StepsFrom(promoted) : s \in Steps
       /\ \A s \in StepsFrom(demoted) : s \in Steps
  BY <1>7, StepsFromIs
<1>19. ASSUME NEW q \in (DOMAIN lines \ {P}) \cup Range(roots)
       PROVE  Parent(q) \in DOMAIN lines /\ Last(q) \in StepsFrom(lines[Parent(q)])
  <2>1. CASE q = D
    <3>1. Parent(q) = P /\ Last(q) = y
      BY <1>6, <1>17, <2>1, Zenon
    <3> QED
      BY <1>6, <1>11, <3>1, Zenon
  <2>2. CASE q \in Range(roots)
    <3>1. PICK r \in DOMAIN roots : q = roots[r]
      BY <1>15, <2>2, Zenon
    <3>2. CASE \E x \in StepsFrom(promoted) : x # y /\ roots[r] = Append(P, x)
      BY <1>6, <1>17, <1>18, <3>1, <3>2, Zenon
    <3>3. CASE \E x \in StepsFrom(demoted) : roots[r] = Append(D, x)
      BY <1>6, <1>17, <1>18, <3>1, <3>3, Zenon
    <3> QED
      BY <1>8, <3>2, <3>3, Zenon DEF SeatsTaken
  <2> QED
    BY <1>6, <1>19, <2>1, <2>2, Zenon
<1>20. \A r1, r2 \in DOMAIN roots : IsPrefix(r1, r2) \/ IsPrefix(roots[r1], roots[r2]) => r1 = r2
  BY <1>9, Zenon DEF Separate
<1>21. \A q \in DOMAIN lines : q \in Seq(Steps) /\ lines[q] \in VariationLines
  BY <1>6, <1>7, Zenon
<1>22. Grafts(tree, P, roots, lines)
  BY <1>1, <1>6, <1>13, <1>14, <1>16, <1>19, <1>20, <1>21, Zenon DEF Grafts
<1> QED
  BY <1>22 DEF P

-----------------------------------------------------------------------------
(* Promotion: what is played, and so where the cursors go                           *)

\* The first k moves of a line, as moves.
LEMMA SansTyped ==
  ASSUME NEW moves \in Seq(Moves), NEW k \in 0..Len(moves)
  PROVE  /\ Sans(SubSeq(moves, 1, k)) \in Seq(SanMoves)
         /\ Len(Sans(SubSeq(moves, 1, k))) = k
         /\ \A j \in 1..k : Sans(SubSeq(moves, 1, k))[j] = moves[j].san
<1> DEFINE part == SubSeq(moves, 1, k)  x == Sans(part)
<1>1. part \in Seq(Moves) /\ Len(part) = k /\ DOMAIN part = 1..k /\ k \in Nat
  OBVIOUS
<1>2. \A j \in 1..k : part[j] = moves[j] /\ moves[j] \in Moves
  OBVIOUS
<1> HIDE DEF part
<1>3. x = [j \in 1..k |-> part[j].san]
  BY <1>1, Zenon DEF Sans
<1>4. \A j \in 1..k : part[j].san \in SanMoves /\ part[j].san = moves[j].san
  BY <1>2 DEF Moves
<1> HIDE DEF x
<1>5. \A j \in 1..k : x[j] = moves[j].san /\ x[j] \in SanMoves
  BY <1>3, <1>4
<1>6. x = [j \in 1..k |-> x[j]]
  BY <1>3
<1>7. x \in Seq(SanMoves) /\ Len(x) = k
  BY <1>1, <1>5, <1>6
<1> QED
  BY <1>5, <1>7 DEF x, part

\* The moves of a line that is the start of another and then the start of a third.
LEMMA SansJoin ==
  ASSUME NEW a \in Seq(Moves), NEW b \in Seq(Moves), NEW c \in Seq(Moves),
         NEW j \in 0..Len(a), NEW k \in 0..Len(b), j + k <= Len(c),
         \A m \in 1..j : c[m].san = a[m].san,
         \A m \in 1..k : c[j + m].san = b[m].san
  PROVE  Sans(SubSeq(c, 1, j + k)) = Sans(SubSeq(a, 1, j)) \o Sans(SubSeq(b, 1, k))
<1> DEFINE x == Sans(SubSeq(a, 1, j))  y == Sans(SubSeq(b, 1, k))  z == Sans(SubSeq(c, 1, j + k))
<1>1. /\ x \in Seq(SanMoves) /\ Len(x) = j /\ \A m \in 1..j : x[m] = a[m].san
      /\ y \in Seq(SanMoves) /\ Len(y) = k /\ \A m \in 1..k : y[m] = b[m].san
  BY SansTyped
<1>2. j + k \in 0..Len(c) /\ j \in Nat /\ k \in Nat
  OBVIOUS
<1>3. /\ z \in Seq(SanMoves) /\ Len(z) = j + k
      /\ \A m \in 1..j + k : z[m] = c[m].san
  BY <1>2, SansTyped
<1> HIDE DEF x, y, z
<1>4. IsJoin(SanMoves, x, y, x \o y)
  BY <1>1, Joined
<1>5. x \o y \in Seq(SanMoves) /\ Len(x \o y) = j + k
  BY <1>1, <1>4 DEF IsJoin
<1>6. ASSUME NEW m \in 1..j + k
      PROVE  z[m] = (x \o y)[m]
  <2>1. CASE m <= j
    <3>1. m \in 1..j
      BY <1>2, <2>1
    <3>2. (x \o y)[m] = x[m]
      BY <1>1, <1>4, <3>1 DEF IsJoin
    <3> QED
      BY <1>1, <1>3, <3>1, <3>2
  <2>2. CASE ~(m <= j)
    <3> DEFINE l == m - j
    <3>1. l \in 1..k /\ m = j + l
      BY <1>2, <2>2
    <3> HIDE DEF l
    <3>2. (x \o y)[j + l] = y[l]
      BY <1>1, <1>4, <3>1 DEF IsJoin
    <3> QED
      BY <1>1, <1>3, <3>1, <3>2
  <2> QED
    BY <2>1, <2>2
<1> DEFINE w == x \o y
<1> HIDE DEF w
<1>7. w \in Seq(SanMoves) /\ Len(w) = Len(z) /\ \A m \in 1..Len(z) : z[m] = w[m]
  BY <1>3, <1>5, <1>6 DEF w
<1>8. z = w
  BY <1>3, <1>7, SeqEqual
<1> QED
  BY <1>8 DEF w, x, y, z

\* The moves before a line are a sequence of moves.
LEMMA BeforeTyped ==
  ASSUME NEW tree, IsTree(tree)
  PROVE  \A p \in Paths(tree) : Before(tree, p) \in Seq(SanMoves)
<1> DEFINE S == {n \in Nat : \A p \in Paths(tree) : Len(p) = n => Before(tree, p) \in Seq(SanMoves)}
<1>1. 0 \in S
  <2> SUFFICES ASSUME NEW p \in Paths(tree), Len(p) = 0
               PROVE  Before(tree, p) \in Seq(SanMoves)
    OBVIOUS
  <2>1. p = <<>>
    BY TreeFacts
  <2>2. Before(tree, <<>>) = <<>>
    BY BeforeEquation
  <2>3. <<>> \in Seq(SanMoves)
    OBVIOUS
  <2> QED
    BY <2>1, <2>2, <2>3, Zenon
<1>2. ASSUME NEW n \in Nat, n \in S
      PROVE  n + 1 \in S
  <2> SUFFICES ASSUME NEW p \in Paths(tree), Len(p) = n + 1
               PROVE  Before(tree, p) \in Seq(SanMoves)
    OBVIOUS
  <2>1. p \in Seq(Steps) /\ p # <<>>
    BY TreeFacts
  <2>2. PICK q \in Seq(Steps), s \in Steps : p = Append(q, s)
    BY <2>1, FrontOf
  <2>3. q \in Paths(tree) /\ s \in StepsFrom(tree[q])
    BY <2>2, TreeFacts
  <2>4. Before(tree, q) \in Seq(SanMoves)
    BY <1>2, <2>2, <2>3
  <2>5. tree[q] \in VariationLines /\ tree[q].moves \in Seq(Moves)
    BY <2>3, TreeFacts, LineTypes
  <2>6. s[1] - 1 \in 0..Len(tree[q].moves)
    <3>1. s[1] \in 1..Len(tree[q].moves)
      BY <2>3, <2>5, StepsFromIs
    <3> QED
      BY <2>5, <3>1
  <2>7. Sans(SubSeq(tree[q].moves, 1, s[1] - 1)) \in Seq(SanMoves)
    BY <2>5, <2>6, SansTyped
  <2>8. Before(tree, p) = Before(tree, q) \o Sans(SubSeq(tree[q].moves, 1, s[1] - 1))
    BY <2>2, BeforeEquation
  <2> QED
    BY <2>4, <2>7, <2>8
<1>3. \A n \in Nat : n \in S
  <2> HIDE DEF S
  <2> QED
    BY <1>1, <1>2, InductionOverNat
<1> QED
  BY <1>3, TreeFacts

\* The moves of the lines a promotion makes, up to any place, from the old lines.
SansOf(parent, o, selected, promoted, demoted) ==
    /\ \A k \in 0..o - 1 :
          Sans(SubSeq(promoted.moves, 1, k)) = Sans(SubSeq(parent.moves, 1, k))
    /\ \A k \in 0..Len(selected.moves) :
          Sans(SubSeq(promoted.moves, 1, o - 1 + k)) =
             Sans(SubSeq(parent.moves, 1, o - 1)) \o Sans(SubSeq(selected.moves, 1, k))
    /\ \A k \in 0..Len(demoted.moves) :
          Sans(SubSeq(parent.moves, 1, o - 1 + k)) =
             Sans(SubSeq(parent.moves, 1, o - 1)) \o Sans(SubSeq(demoted.moves, 1, k))

\* What is played along the promoted and the demoted line.
LEMMA HalvesSans ==
  ASSUME NEW parent, NEW o, NEW selected, NEW n, NEW i, NEW sib, NEW promoted, NEW demoted,
         Halves(parent, o, selected, n, i, sib, promoted, demoted)
  PROVE  SansOf(parent, o, selected, promoted, demoted)
<1>1. /\ parent \in VariationLines /\ selected \in VariationLines
      /\ o \in 1..Len(parent.moves) /\ o \in Nat /\ Len(selected.moves) >= 1
      /\ Joins(parent, o, selected, n, promoted) /\ Splits(parent, o, demoted)
  BY Zenon DEF Halves
<1>2. /\ promoted \in VariationLines /\ Len(promoted.moves) = o - 1 + Len(selected.moves)
      /\ \A j \in 1..o - 1 : promoted.moves[j] = parent.moves[j]
      /\ promoted.moves[o].san = selected.moves[1].san
      /\ \A k \in 2..Len(selected.moves) : promoted.moves[o + k - 1] = selected.moves[k]
  BY <1>1, Zenon DEF Joins
<1>3. /\ demoted \in VariationLines /\ Len(demoted.moves) = Len(parent.moves) - o + 1
      /\ demoted.moves[1].san = parent.moves[o].san
      /\ \A k \in 2..Len(parent.moves) - o + 1 : demoted.moves[k] = parent.moves[o + k - 1]
  BY <1>1, Zenon DEF Splits
<1> DEFINE a == parent.moves  b == selected.moves  c == promoted.moves  d == demoted.moves
<1>4. /\ a \in Seq(Moves) /\ b \in Seq(Moves) /\ c \in Seq(Moves) /\ d \in Seq(Moves)
      /\ Len(a) \in Nat /\ Len(b) \in Nat /\ Len(d) \in Nat
  BY <1>1, <1>2, <1>3, LineTypes
<1>5. \A m \in 1..Len(b) : c[o - 1 + m].san = b[m].san
  <2> SUFFICES ASSUME NEW m \in 1..Len(b) PROVE c[o - 1 + m].san = b[m].san
    OBVIOUS
  <2>1. CASE m = 1
    <3>1. o - 1 + m = o
      BY <1>1, <2>1
    <3> QED
      BY <1>2, <2>1, <3>1
  <2>2. CASE m # 1
    <3>1. m \in 2..Len(b) /\ o - 1 + m = o + m - 1
      BY <1>1, <1>4, <2>2
    <3> QED
      BY <1>2, <3>1
  <2> QED
    BY <2>1, <2>2
<1>6. \A m \in 1..Len(d) : a[o - 1 + m].san = d[m].san
  <2> SUFFICES ASSUME NEW m \in 1..Len(d) PROVE a[o - 1 + m].san = d[m].san
    OBVIOUS
  <2>1. CASE m = 1
    <3>1. o - 1 + m = o
      BY <1>1, <2>1
    <3> QED
      BY <1>3, <2>1, <3>1
  <2>2. CASE m # 1
    <3>1. m \in 2..Len(a) - o + 1 /\ o - 1 + m = o + m - 1
      BY <1>1, <1>3, <1>4, <2>2
    <3> QED
      BY <1>3, <3>1
  <2> QED
    BY <2>1, <2>2
<1>7. /\ \A j \in 1..o - 1 : c[j].san = a[j].san
      /\ Len(c) = o - 1 + Len(b) /\ Len(a) = o - 1 + Len(d) /\ o - 1 \in 0..Len(a) /\ o - 1 \in Nat
      /\ Len(c) \in Nat /\ o - 1 <= Len(c)
  <2>1. \A j \in 1..o - 1 : c[j].san = a[j].san
    BY <1>2
  <2>2. /\ Len(c) = o - 1 + Len(b) /\ Len(d) = Len(a) - o + 1 /\ o \in 1..Len(a)
        /\ Len(a) \in Nat /\ Len(b) \in Nat
    BY <1>1, <1>2, <1>3, <1>4
  <2> DEFINE u == Len(a)  v == Len(b)  w == Len(c)  z == Len(d)
  <2> HIDE DEF u, v, w, z
  <2>3. w = o - 1 + v /\ z = u - o + 1 /\ o \in 1..u /\ u \in Nat /\ v \in Nat
    BY <2>2 DEF u, v, w, z
  <2>4. /\ w = o - 1 + v /\ u = o - 1 + z /\ o - 1 \in 0..u /\ o - 1 \in Nat
        /\ w \in Nat /\ o - 1 <= w
    BY <2>3
  <2> QED
    BY <2>1, <2>4 DEF u, v, w, z
<1> HIDE DEF a, b, c, d
<1>8. ASSUME NEW k \in 0..o - 1
      PROVE  Sans(SubSeq(c, 1, k)) = Sans(SubSeq(a, 1, k))
  <2>1. k \in Nat /\ k <= Len(c) /\ k <= Len(a) /\ \A j \in 1..k : c[j].san = a[j].san
    BY <1>4, <1>7
  <2> QED
    BY <1>4, <2>1, SameSans
<1>9. ASSUME NEW k \in 0..Len(b)
      PROVE  Sans(SubSeq(c, 1, o - 1 + k)) = Sans(SubSeq(a, 1, o - 1)) \o Sans(SubSeq(b, 1, k))
  <2> DEFINE j == o - 1
  <2>1. /\ j \in 0..Len(a) /\ j + k <= Len(c) /\ \A m \in 1..j : c[m].san = a[m].san
        /\ \A m \in 1..k : c[j + m].san = b[m].san
    BY <1>4, <1>5, <1>7
  <2> HIDE DEF j
  <2>2. Sans(SubSeq(c, 1, j + k)) = Sans(SubSeq(a, 1, j)) \o Sans(SubSeq(b, 1, k))
    BY <1>4, <2>1, SansJoin, ZenonT(30)
  <2> QED
    BY <2>2 DEF j
<1>10. ASSUME NEW k \in 0..Len(d)
       PROVE  Sans(SubSeq(a, 1, o - 1 + k)) = Sans(SubSeq(a, 1, o - 1)) \o Sans(SubSeq(d, 1, k))
  <2> DEFINE j == o - 1
  <2>1. /\ j \in 0..Len(a) /\ j + k <= Len(a) /\ \A m \in 1..j : a[m].san = a[m].san
        /\ \A m \in 1..k : a[j + m].san = d[m].san
    BY <1>4, <1>6, <1>7
  <2> HIDE DEF j
  <2>2. Sans(SubSeq(a, 1, j + k)) = Sans(SubSeq(a, 1, j)) \o Sans(SubSeq(d, 1, k))
    BY <1>4, <2>1, SansJoin, ZenonT(30)
  <2> QED
    BY <2>2 DEF j
<1> QED
  BY <1>8, <1>9, <1>10, Zenon DEF SansOf, a, b, c, d

\* Concatenation of moves is associative.
LEMMA ConcatThree ==
  ASSUME NEW a \in Seq(SanMoves), NEW b \in Seq(SanMoves), NEW c \in Seq(SanMoves)
  PROVE  (a \o b) \o c = a \o (b \o c)
OBVIOUS

\* What the two trees have in common where a promotion takes place.
Meets(tree, t, path, P, o, D, promoted, demoted) ==
    /\ path \in Paths(tree) /\ P \in Paths(tree)
    /\ path \in Seq(Steps) /\ P \in Seq(Steps) /\ D \in Seq(Steps)
    /\ t[P] = promoted /\ t[D] = demoted /\ Before(t, P) = Before(tree, P)
    /\ Before(tree, P) \in Seq(SanMoves)
    /\ Before(tree, path) = Before(tree, P) \o Sans(SubSeq(tree[P].moves, 1, o - 1))
    /\ Before(t, D) = Before(tree, P) \o Sans(SubSeq(tree[P].moves, 1, o - 1))
    /\ Sans(SubSeq(tree[P].moves, 1, o - 1)) \in Seq(SanMoves)

\* The moves played before a place of the new lines are those before the old place.
SamePlaces(tree, t, path, P, o, D, demoted) ==
    /\ \A k \in 0..o - 1 :
          Before(t, P) \o Sans(SubSeq(t[P].moves, 1, k))
             = Before(tree, P) \o Sans(SubSeq(tree[P].moves, 1, k))
    /\ \A k \in 0..Len(tree[path].moves) :
          Before(t, P) \o Sans(SubSeq(t[P].moves, 1, o - 1 + k))
             = Before(tree, path) \o Sans(SubSeq(tree[path].moves, 1, k))
    /\ \A k \in 0..Len(demoted.moves) :
          Before(t, D) \o Sans(SubSeq(t[D].moves, 1, k))
             = Before(tree, P) \o Sans(SubSeq(tree[P].moves, 1, o - 1 + k))

\* On the two lines that a promotion takes apart, every position has its new cursor.
LEMMA PlayedIn ==
  ASSUME NEW tree, NEW t, NEW path, NEW P, NEW o, NEW i, NEW n, NEW sib, NEW D,
         NEW promoted, NEW demoted,
         Meets(tree, t, path, P, o, D, promoted, demoted),
         Halves(tree[P], o, tree[path], n, i, sib, promoted, demoted)
  PROVE  SamePlaces(tree, t, path, P, o, D, demoted)
<1> DEFINE parent == tree[P]  selected == tree[path]
           x == Before(tree, P)
           y == Sans(SubSeq(parent.moves, 1, o - 1))
<1>1. /\ t[P] = promoted /\ t[D] = demoted /\ Before(t, P) = x
      /\ x \in Seq(SanMoves) /\ y \in Seq(SanMoves)
      /\ Before(tree, path) = x \o y /\ Before(t, D) = x \o y
  BY Zenon DEF Meets
<1>2. SansOf(parent, o, selected, promoted, demoted)
  BY HalvesSans
<1>3. /\ selected \in VariationLines /\ demoted \in VariationLines
      /\ selected.moves \in Seq(Moves) /\ demoted.moves \in Seq(Moves)
  <2>1. selected \in VariationLines /\ demoted \in VariationLines
    BY Zenon DEF Halves, Splits
  <2> QED
    BY <2>1, LineTypes
<1>4. ASSUME NEW k \in 0..o - 1
      PROVE  Before(t, P) \o Sans(SubSeq(t[P].moves, 1, k)) = x \o Sans(SubSeq(parent.moves, 1, k))
  BY <1>1, <1>2, Zenon DEF SansOf
<1>5. ASSUME NEW k \in 0..Len(selected.moves)
      PROVE  Before(t, P) \o Sans(SubSeq(t[P].moves, 1, o - 1 + k))
                = Before(tree, path) \o Sans(SubSeq(selected.moves, 1, k))
  <2> DEFINE z == Sans(SubSeq(selected.moves, 1, k))
  <2>1. z \in Seq(SanMoves)
    BY <1>3, SansTyped
  <2>2. Sans(SubSeq(t[P].moves, 1, o - 1 + k)) = y \o z
    BY <1>1, <1>2, Zenon DEF SansOf
  <2> HIDE DEF x, y, z
  <2>3. (x \o y) \o z = x \o (y \o z)
    BY <1>1, <2>1, ConcatThree, Zenon
  <2> QED
    BY <1>1, <2>2, <2>3, Zenon DEF z
<1>6. ASSUME NEW k \in 0..Len(demoted.moves)
      PROVE  Before(t, D) \o Sans(SubSeq(t[D].moves, 1, k)) = x \o Sans(SubSeq(parent.moves, 1, o - 1 + k))
  <2> DEFINE z == Sans(SubSeq(demoted.moves, 1, k))
  <2>1. z \in Seq(SanMoves)
    BY <1>3, SansTyped
  <2>2. Sans(SubSeq(parent.moves, 1, o - 1 + k)) = y \o z
    BY <1>2, Zenon DEF SansOf
  <2> HIDE DEF x, y, z
  <2>3. (x \o y) \o z = x \o (y \o z)
    BY <1>1, <2>1, ConcatThree, Zenon
  <2> QED
    BY <1>1, <2>2, <2>3, Zenon DEF z
<1> QED
  BY <1>4, <1>5, <1>6, Zenon DEF SamePlaces

\* A promotion in one predicate: the parent and the selected line, and the edit.
Promotion(tree, path, roots, P, o, i, n, sib, D, promoted, demoted, lines, goes, t) ==
    /\ IsTree(tree)
    /\ PromotionAt(tree, path, P, o, i, n, sib, D, promoted, demoted, lines)
    /\ Halves(tree[P], o, tree[path], n, i, sib, promoted, demoted)
    /\ Seating(tree, path, roots, P, o, i, n, sib, D, promoted, demoted)
    /\ Complete(tree, path, roots, P, o, i)
    /\ Grafts(tree, P, roots, lines)
    /\ goes = Goes(tree, P, roots) /\ t = Relocated(tree, goes, lines)

\* A promotion of the model is one in this sense, with its edited tree.
LEMMA PromotionHas ==
  ASSUME NEW tree, NEW path, NEW roots, NEW promoted, NEW demoted, NEW lines,
         Promotes(tree, path, roots, promoted, demoted, lines),
         NEW goes, goes = Goes(tree, Parent(path), roots),
         NEW t, t = Relocated(tree, goes, lines)
  PROVE  Promotion(tree, path, roots, Parent(path), Owner(path), Index(path),
                   OwnerMove(tree, path).vars, Siblings(tree, path),
                   Append(Parent(path), <<Owner(path), 1>>), promoted, demoted, lines, goes, t)
<1> DEFINE P == Parent(path)  o == Owner(path)  i == Index(path)  n == OwnerMove(tree, path).vars
           sib == Siblings(tree, path)  D == Append(P, <<o, 1>>)
<1>1. IsTree(tree)
  BY DEF Promotes
<1>2. PromotionAt(tree, path, P, o, i, n, sib, D, promoted, demoted, lines)
  BY PromotionIs
<1>3. Seating(tree, path, roots, P, o, i, n, sib, D, promoted, demoted)
      /\ Complete(tree, path, roots, P, o, i)
  <2>1. /\ \A r \in DOMAIN roots : \E s, x :
               Seated(tree, path, roots, r, s, x, P, o, i, n, sib, D, promoted, demoted)
        /\ \A s \in StepsFrom(tree[P]) : s # <<o, i>> => Append(P, s) \in DOMAIN roots
        /\ \A s \in StepsFrom(tree[path]) : Append(path, s) \in DOMAIN roots
    BY SeatsAre
  <2> HIDE DEF P, o, i, n, sib, D
  <2> QED
    BY <2>1, Zenon DEF Seating, Complete
<1>5. Grafts(tree, P, roots, lines)
  BY PromotedGrafts
<1>6. goes = Goes(tree, P, roots) /\ t = Relocated(tree, goes, lines)
  OBVIOUS
<1> HIDE DEF P, o, i, n, sib, D
<1>4. Halves(tree[P], o, tree[path], n, i, sib, promoted, demoted)
  BY <1>2, Zenon DEF PromotionAt, Halves
<1>7. Promotion(tree, path, roots, P, o, i, n, sib, D, promoted, demoted, lines, goes, t)
  BY <1>1, <1>2, <1>3, <1>4, <1>5, <1>6, Zenon DEF Promotion
<1> QED
  BY <1>7, Zenon DEF P, o, i, n, sib, D

\* The moves before a variation: those before its parent, and the parent's up to the
\* replaced move.
LEMMA BeforeAt ==
  ASSUME NEW tree, NEW p, NEW s, NEW q, IsChild(p, s, q)
  PROVE  Before(tree, q) = Before(tree, p) \o Sans(SubSeq(tree[p].moves, 1, s[1] - 1))
BY BeforeEquation DEF IsChild

\* The parent and the selected line after the promotion: what is played before each.
LEMMA PromotionMeets ==
  ASSUME NEW tree, NEW path, NEW roots, NEW P, NEW o, NEW i, NEW n, NEW sib, NEW D,
         NEW promoted, NEW demoted, NEW lines, NEW goes, NEW t,
         Promotion(tree, path, roots, P, o, i, n, sib, D, promoted, demoted, lines, goes, t)
  PROVE  /\ Meets(tree, t, path, P, o, D, promoted, demoted)
         /\ P \in Paths(t) /\ D \in Paths(t)
<1>1. /\ IsTree(tree) /\ Grafts(tree, P, roots, lines)
      /\ goes = Goes(tree, P, roots) /\ t = Relocated(tree, goes, lines)
      /\ Halves(tree[P], o, tree[path], n, i, sib, promoted, demoted)
      /\ PromotionAt(tree, path, P, o, i, n, sib, D, promoted, demoted, lines)
  BY Zenon DEF Promotion
<1>2. /\ path \in Paths(tree) /\ P \in Paths(tree)
      /\ path \in Seq(Steps) /\ P \in Seq(Steps) /\ D \in Seq(Steps)
      /\ <<o, i>> \in Steps /\ path = Append(P, <<o, i>>)
      /\ <<o, 1>> \in Steps /\ D = Append(P, <<o, 1>>)
      /\ \A q : q \in DOMAIN lines <=> q = P \/ q = D
      /\ lines[P] = promoted /\ lines[D] = demoted
      /\ tree[P] \in VariationLines /\ o \in 1..Len(tree[P].moves) /\ o \in Nat
  BY <1>1, Zenon DEF PromotionAt
<1>3. Kept(tree, P, lines, goes, t)
  BY <1>1, RelocatedFacts
<1>4. t[P] = promoted /\ t[D] = demoted /\ P \in Paths(t) /\ D \in Paths(t)
  BY <1>2, <1>3, Zenon DEF Kept
<1>5. ~IsStrictPrefix(P, P)
  BY DEF IsStrictPrefix
<1>6. Before(t, P) = Before(tree, P)
  BY <1>1, <1>2, <1>5, BeforeOutside
<1>7. Before(tree, P) \in Seq(SanMoves)
  BY <1>1, <1>2, BeforeTyped
<1> DEFINE y == <<o, i>>  z == <<o, 1>>
<1>8. /\ y[1] = o /\ z[1] = o /\ y \in Steps /\ z \in Steps /\ P \in Seq(Steps)
      /\ path = Append(P, y) /\ D = Append(P, z)
  BY <1>2
<1> HIDE DEF y, z
<1>9. Before(tree, path) = Before(tree, P) \o Sans(SubSeq(tree[P].moves, 1, o - 1))
  <2>1. IsChild(P, y, path)
    BY <1>8, Zenon DEF IsChild
  <2>2. Before(tree, path) = Before(tree, P) \o Sans(SubSeq(tree[P].moves, 1, y[1] - 1))
    BY <2>1, BeforeAt, Zenon
  <2> QED
    BY <1>8, <2>2, Zenon
<1>10. Before(t, D) = Before(t, P) \o Sans(SubSeq(promoted.moves, 1, o - 1))
  <2>1. Before(t, D) = Before(t, P) \o Sans(SubSeq(t[P].moves, 1, o - 1))
    <3>1. IsChild(P, z, D)
      BY <1>8, Zenon DEF IsChild
    <3>2. Before(t, D) = Before(t, P) \o Sans(SubSeq(t[P].moves, 1, z[1] - 1))
      BY <3>1, BeforeAt, Zenon
    <3> QED
      BY <1>8, <3>2, Zenon
  <2> QED
    BY <1>4, <2>1, Zenon
<1>11. Sans(SubSeq(promoted.moves, 1, o - 1)) = Sans(SubSeq(tree[P].moves, 1, o - 1))
  <2>1. SansOf(tree[P], o, tree[path], promoted, demoted)
    BY <1>1, HalvesSans
  <2>2. o - 1 \in 0..o - 1
    BY <1>2
  <2> QED
    BY <2>1, <2>2, Zenon DEF SansOf
<1>12. Sans(SubSeq(tree[P].moves, 1, o - 1)) \in Seq(SanMoves)
  <2>1. tree[P].moves \in Seq(Moves)
    BY <1>2, LineTypes
  <2>2. o - 1 \in 0..Len(tree[P].moves)
    BY <1>2, <2>1
  <2> QED
    BY <2>1, <2>2, SansTyped
<1>13. Before(t, D) = Before(tree, P) \o Sans(SubSeq(tree[P].moves, 1, o - 1))
  BY <1>6, <1>10, <1>11, Zenon
<1>14. Meets(tree, t, path, P, o, D, promoted, demoted)
  BY <1>2, <1>4, <1>6, <1>7, <1>9, <1>12, <1>13, Zenon DEF Meets
<1> QED
  BY <1>4, <1>14

\* The moves before every subtree that a promotion moves are the same afterwards.
LEMMA PromotedBefore ==
  ASSUME NEW tree, NEW path, NEW roots, NEW P, NEW o, NEW i, NEW n, NEW sib, NEW D,
         NEW promoted, NEW demoted, NEW lines, NEW goes, NEW t,
         Promotion(tree, path, roots, P, o, i, n, sib, D, promoted, demoted, lines, goes, t)
  PROVE  \A r \in DOMAIN roots : Before(t, roots[r]) = Before(tree, r)
<1>1. /\ Halves(tree[P], o, tree[path], n, i, sib, promoted, demoted)
      /\ Seating(tree, path, roots, P, o, i, n, sib, D, promoted, demoted)
  BY Zenon DEF Promotion
<1>2. Meets(tree, t, path, P, o, D, promoted, demoted)
  BY PromotionMeets
<1>3. /\ path \in Seq(Steps) /\ P \in Seq(Steps) /\ D \in Seq(Steps)
      /\ t[P] = promoted /\ t[D] = demoted
  BY <1>2, Zenon DEF Meets
<1>4. SamePlaces(tree, t, path, P, o, D, demoted)
  BY <1>1, <1>2, PlayedIn
<1>5. /\ tree[P] \in VariationLines /\ tree[path] \in VariationLines /\ o \in Nat /\ o >= 1
      /\ Len(tree[path].moves) \in Nat /\ demoted \in VariationLines /\ Len(demoted.moves) \in Nat
  <2>1. /\ tree[P] \in VariationLines /\ tree[path] \in VariationLines /\ o \in Nat
        /\ o \in 1..Len(tree[P].moves) /\ demoted \in VariationLines
    BY <1>1, Zenon DEF Halves, Splits
  <2> QED
    BY <2>1, LineTypes
<1> SUFFICES ASSUME NEW r \in DOMAIN roots
             PROVE  Before(t, roots[r]) = Before(tree, r)
  OBVIOUS
<1>6. PICK s, x : Seated(tree, path, roots, r, s, x, P, o, i, n, sib, D, promoted, demoted)
  BY <1>1, Zenon DEF Seating
<1>7. CASE SeatStay(tree, roots, r, s, x, P, o, i, n, sib, promoted)
  <2>1. /\ s \in Steps /\ x \in Steps /\ r = Append(P, s) /\ roots[r] = Append(P, x)
        /\ Stays(o, i, n, sib, s, x) /\ s \in StepsFrom(tree[P])
    BY <1>7, Zenon DEF SeatStay
  <2>2. s[1] - 1 \in 0..o - 1 /\ x[1] = s[1]
    <3>1. s[1] \in Nat /\ s[1] >= 1
      BY <1>5, <2>1, StepsFromIs DEF Steps
    <3> QED
      BY <1>5, <2>1, <3>1 DEF Stays
  <2>3. Before(t, roots[r]) = Before(t, P) \o Sans(SubSeq(t[P].moves, 1, x[1] - 1))
    BY <1>3, <2>1, BeforeEquation
  <2>4. Before(tree, r) = Before(tree, P) \o Sans(SubSeq(tree[P].moves, 1, s[1] - 1))
    BY <1>3, <2>1, BeforeEquation
  <2> QED
    BY <1>4, <2>2, <2>3, <2>4, Zenon DEF SamePlaces
<1>8. CASE SeatSink(tree, roots, r, s, x, P, o, i, D, demoted)
  <2>1. /\ s \in Steps /\ x \in Steps /\ r = Append(P, s) /\ roots[r] = Append(D, x)
        /\ Sinks(o, s, x) /\ x \in StepsFrom(demoted)
    BY <1>8, Zenon DEF SeatSink
  <2> DEFINE k == x[1] - 1
  <2>2. k \in 0..Len(demoted.moves) /\ o - 1 + k = s[1] - 1
    <3>1. x[1] \in 1..Len(demoted.moves) /\ s[1] \in Nat /\ x[1] \in Nat
      BY <1>5, <2>1, StepsFromIs DEF Steps
    <3> QED
      <4> DEFINE a == s[1]  b == x[1]  l == Len(demoted.moves)
      <4>1. a \in Nat /\ b \in Nat /\ l \in Nat /\ b \in 1..l /\ b = a - o + 1
        BY <1>5, <2>1, <3>1, Zenon DEF Sinks
      <4> HIDE DEF a, b, l
      <4>2. b - 1 \in 0..l /\ o - 1 + (b - 1) = a - 1
        BY <1>5, <4>1
      <4> QED
        BY <4>2 DEF a, b, l
  <2>3. Before(t, roots[r]) = Before(t, D) \o Sans(SubSeq(t[D].moves, 1, k))
    BY <1>3, <2>1, BeforeEquation
  <2>4. Before(tree, r) = Before(tree, P) \o Sans(SubSeq(tree[P].moves, 1, s[1] - 1))
    BY <1>3, <2>1, BeforeEquation
  <2> QED
    BY <1>4, <2>2, <2>3, <2>4, Zenon DEF SamePlaces
<1>9. CASE SeatRise(tree, path, roots, r, s, x, P, o, n, promoted)
  <2>1. /\ s \in Steps /\ x \in Steps /\ r = Append(path, s) /\ roots[r] = Append(P, x)
        /\ Rises(o, n, s, x) /\ s \in StepsFrom(tree[path])
    BY <1>9, Zenon DEF SeatRise
  <2> DEFINE k == s[1] - 1
  <2>2. k \in 0..Len(tree[path].moves) /\ o - 1 + k = x[1] - 1
    <3>1. s[1] \in 1..Len(tree[path].moves) /\ s[1] \in Nat /\ x[1] \in Nat
      BY <1>5, <2>1, StepsFromIs DEF Steps
    <3> QED
      <4> DEFINE a == s[1]  b == x[1]  l == Len(tree[path].moves)
      <4>1. a \in Nat /\ b \in Nat /\ l \in Nat /\ a \in 1..l /\ b = o + a - 1
        BY <1>5, <2>1, <3>1, Zenon DEF Rises
      <4> HIDE DEF a, b, l
      <4>2. a - 1 \in 0..l /\ o - 1 + (a - 1) = b - 1
        BY <1>5, <4>1
      <4> QED
        BY <4>2 DEF a, b, l
  <2>3. Before(t, roots[r]) = Before(t, P) \o Sans(SubSeq(t[P].moves, 1, x[1] - 1))
    BY <1>3, <2>1, BeforeEquation
  <2>4. Before(tree, r) = Before(tree, path) \o Sans(SubSeq(tree[path].moves, 1, k))
    BY <1>3, <2>1, BeforeEquation
  <2> QED
    BY <1>4, <2>2, <2>3, <2>4, Zenon DEF SamePlaces
<1> QED
  BY <1>6, <1>7, <1>8, <1>9, Zenon DEF Seated

-----------------------------------------------------------------------------
(* Promotion: what becomes of the comments                                          *)

\* What either part of a sequence holds, the whole holds.
LEMMA RangeJoined ==
  ASSUME NEW a \in Seq(Texts), NEW b \in Seq(Texts), NEW x
  PROVE  x \in Range(a) \/ x \in Range(b) => x \in Range(a \o b)
<1>1. IsJoin(Texts, a, b, a \o b)
  BY Joined
<1>2. DOMAIN a = 1..Len(a) /\ DOMAIN b = 1..Len(b) /\ DOMAIN (a \o b) = 1..Len(a) + Len(b)
      /\ Len(a) \in Nat /\ Len(b) \in Nat
  OBVIOUS
<1> DEFINE c == a \o b
<1> HIDE DEF c
<1>3. /\ DOMAIN c = 1..Len(a) + Len(b)
      /\ \A j \in 1..Len(a) : c[j] = a[j] /\ j \in DOMAIN c
      /\ \A j \in 1..Len(b) : c[Len(a) + j] = b[j] /\ Len(a) + j \in DOMAIN c
  BY <1>1, <1>2 DEF IsJoin, c
<1>4. x \in Range(a) => x \in Range(c)
  BY <1>2, <1>3 DEF Range
<1>5. x \in Range(b) => x \in Range(c)
  BY <1>2, <1>3 DEF Range
<1> QED
  BY <1>4, <1>5 DEF c

\* A comment of a line.
Says(line, x) ==
    \/ x \in Range(line.lead) \/ x \in Range(line.trail)
    \/ \E i \in 1..Len(line.moves) :
          x \in Range(line.moves[i].before) \/ x \in Range(line.moves[i].after)

\* No comment of the parent or of the selected line is lost between the two new lines.
LEMMA JoinsSay ==
  ASSUME NEW parent \in VariationLines, NEW o \in 1..Len(parent.moves),
         NEW selected \in VariationLines, Len(selected.moves) >= 1, NEW n,
         NEW promoted, Joins(parent, o, selected, n, promoted),
         NEW demoted, Splits(parent, o, demoted), NEW x
  PROVE  Says(parent, x) \/ Says(selected, x) => Says(promoted, x) \/ Says(demoted, x)
<1>1. /\ promoted \in VariationLines /\ Len(promoted.moves) = o - 1 + Len(selected.moves)
      /\ \A j \in 1..o - 1 : promoted.moves[j] = parent.moves[j]
      /\ promoted.moves[o].before = selected.lead \o selected.moves[1].before
      /\ promoted.moves[o].after = selected.moves[1].after
      /\ \A k \in 2..Len(selected.moves) : promoted.moves[o + k - 1] = selected.moves[k]
      /\ promoted.lead = parent.lead /\ promoted.trail = selected.trail
  BY Zenon DEF Joins
<1>2. /\ demoted \in VariationLines /\ Len(demoted.moves) = Len(parent.moves) - o + 1
      /\ demoted.moves[1].before = parent.moves[o].before
      /\ demoted.moves[1].after = parent.moves[o].after
      /\ \A k \in 2..Len(parent.moves) - o + 1 : demoted.moves[k] = parent.moves[o + k - 1]
      /\ demoted.trail = parent.trail
  BY Zenon DEF Splits
<1>3. /\ Len(parent.moves) \in Nat /\ Len(selected.moves) \in Nat /\ o \in Nat
      /\ o \in 1..Len(promoted.moves) /\ 1 \in 1..Len(demoted.moves)
      /\ 1 \in 1..Len(selected.moves)
  BY <1>1, <1>2, LineTypes
<1>4. \A k \in 1..Len(promoted.moves) :
         x \in Range(promoted.moves[k].before) \/ x \in Range(promoted.moves[k].after)
            => Says(promoted, x)
  BY Zenon DEF Says
<1>5. \A k \in 1..Len(demoted.moves) :
         x \in Range(demoted.moves[k].before) \/ x \in Range(demoted.moves[k].after)
            => Says(demoted, x)
  BY Zenon DEF Says
<1>6. ASSUME NEW j \in 1..Len(parent.moves),
             x \in Range(parent.moves[j].before) \/ x \in Range(parent.moves[j].after)
      PROVE  Says(promoted, x) \/ Says(demoted, x)
  <2>1. CASE j < o
    <3>1. j \in 1..o - 1 /\ j \in 1..Len(promoted.moves)
      BY <1>1, <1>3, <2>1, SMTT(30)
    <3>2. promoted.moves[j] = parent.moves[j]
      BY <1>1, <3>1, Zenon
    <3> QED
      BY <1>4, <1>6, <3>1, <3>2, Zenon
  <2>2. CASE j = o
    BY <1>2, <1>3, <1>5, <1>6, <2>2, Zenon
  <2>3. CASE j > o
    <3> DEFINE k == j - o + 1
    <3>1. k \in 2..Len(parent.moves) - o + 1 /\ k \in 1..Len(demoted.moves) /\ o + k - 1 = j
      BY <1>2, <1>3, <2>3
    <3> HIDE DEF k
    <3>2. demoted.moves[k] = parent.moves[j]
      BY <1>2, <3>1, Zenon
    <3> QED
      BY <1>5, <1>6, <3>1, <3>2, Zenon
  <2>4. j < o \/ j = o \/ j > o
    BY <1>3
  <2> QED
    BY <2>1, <2>2, <2>3, <2>4
<1>7. /\ selected.lead \in Seq(Texts) /\ selected.moves[1].before \in Seq(Texts)
  <2>1. selected.lead \in Seq(Texts) /\ selected.moves[1] \in Moves
    BY <1>3, LineTypes
  <2> QED
    BY <2>1 DEF Moves
<1>8. x \in Range(selected.lead) \/ x \in Range(selected.moves[1].before) => Says(promoted, x)
  <2>1. x \in Range(selected.lead) \/ x \in Range(selected.moves[1].before)
           => x \in Range(selected.lead \o selected.moves[1].before)
    BY <1>7, RangeJoined
  <2> QED
    BY <1>1, <1>3, <1>4, <2>1, Zenon
<1>9. ASSUME NEW j \in 1..Len(selected.moves),
             x \in Range(selected.moves[j].before) \/ x \in Range(selected.moves[j].after)
      PROVE  Says(promoted, x)
  <2>1. CASE j = 1
    BY <1>1, <1>3, <1>4, <1>8, <1>9, <2>1, Zenon
  <2>2. CASE j # 1
    <3> DEFINE k == o + j - 1
    <3>1. j \in 2..Len(selected.moves) /\ k \in 1..Len(promoted.moves)
      BY <1>1, <1>3, <2>2
    <3>2. promoted.moves[k] = selected.moves[j]
      BY <1>1, <3>1, Zenon
    <3> HIDE DEF k
    <3> QED
      BY <1>4, <1>9, <3>1, <3>2, Zenon
  <2> QED
    BY <2>1, <2>2
<1>10. x \in Range(parent.lead) \/ x \in Range(selected.trail) => Says(promoted, x)
  BY <1>1, Zenon DEF Says
<1>11. x \in Range(parent.trail) => Says(demoted, x)
  BY <1>2, Zenon DEF Says
<1>12. Says(parent, x) => Says(promoted, x) \/ Says(demoted, x)
  BY <1>6, <1>10, <1>11, Zenon DEF Says
<1>13. Says(selected, x) => Says(promoted, x)
  BY <1>8, <1>9, <1>10, Zenon DEF Says
<1> QED
  BY <1>12, <1>13

\* The same for the sets of comments.
LEMMA HalvesSay ==
  ASSUME NEW parent, NEW o, NEW selected, NEW n, NEW i, NEW sib, NEW promoted, NEW demoted,
         Halves(parent, o, selected, n, i, sib, promoted, demoted)
  PROVE  CommentsOf(parent) \cup CommentsOf(selected) \subseteq
            CommentsOf(promoted) \cup CommentsOf(demoted)
<1>1. /\ parent \in VariationLines /\ selected \in VariationLines
      /\ promoted \in VariationLines /\ demoted \in VariationLines
      /\ o \in 1..Len(parent.moves) /\ Len(selected.moves) >= 1
      /\ Joins(parent, o, selected, n, promoted) /\ Splits(parent, o, demoted)
  BY Zenon DEF Halves, Joins, Splits
<1>2. \A line \in VariationLines : \A x : x \in CommentsOf(line) <=> Says(line, x)
  BY CommentsAre, Zenon DEF Says
<1>3. \A x : Says(parent, x) \/ Says(selected, x) => Says(promoted, x) \/ Says(demoted, x)
  BY <1>1, JoinsSay
<1> QED
  BY <1>1, <1>2, <1>3

-----------------------------------------------------------------------------
(* Promotion, all together                                                          *)

\* p lies in a variation of P.
Descends(tree, P, p) ==
    \E s \in StepsFrom(tree[P]) : s \in Steps /\ \E u \in Seq(Steps) : p = Append(P, s) \o u

\* A line strictly below another is a child of it, or below a child.
LEMMA BelowChild ==
  ASSUME NEW tree, IsTree(tree), NEW P \in Paths(tree), NEW p \in Paths(tree), IsStrictPrefix(P, p)
  PROVE  Descends(tree, P, p)
<1>1. P \in Seq(Steps) /\ p \in Seq(Steps)
  BY TreeFacts
<1>2. PICK s \in Steps : IsPrefix(Append(P, s), p)
  BY <1>1, StepBelow
<1>3. Append(P, s) \in Seq(Steps)
  BY <1>1
<1>4. PICK u \in Seq(Steps) : p = Append(P, s) \o u
  BY <1>1, <1>2, <1>3, PrefixOf
<1>5. Append(P, s) \in Paths(tree)
  BY <1>3, <1>4, PrefixClosed
<1>6. s \in StepsFrom(tree[P])
  BY <1>1, <1>5, TreeFacts
<1> QED
  BY <1>4, <1>6, Zenon DEF Descends

\* A promotion drops no line but the selected one, whose moves are now the parent's.
LEMMA PromotedGone ==
  ASSUME NEW tree, NEW path, NEW roots, NEW P, NEW o, NEW i, NEW n, NEW sib, NEW D,
         NEW promoted, NEW demoted, NEW lines, NEW goes, NEW t,
         Promotion(tree, path, roots, P, o, i, n, sib, D, promoted, demoted, lines, goes, t)
  PROVE  \A p \in Paths(tree) : p \notin DOMAIN goes => p = path
<1>1. /\ IsTree(tree) /\ Complete(tree, path, roots, P, o, i)
      /\ Carried(tree, P, roots, goes)
  <2>1. /\ IsTree(tree) /\ Grafts(tree, P, roots, lines) /\ goes = Goes(tree, P, roots)
        /\ Complete(tree, path, roots, P, o, i)
    BY Zenon DEF Promotion
  <2> QED
    BY <2>1, GoesFacts
<1>2. /\ path \in Paths(tree) /\ P \in Paths(tree) /\ path \in Seq(Steps)
      /\ path = Append(P, <<o, i>>)
  BY Zenon DEF Promotion, PromotionAt
<1>3. \A r \in DOMAIN roots, u \in Seq(Steps) : r \o u \in Paths(tree) => r \o u \in DOMAIN goes
  BY <1>1, Zenon DEF Carried
<1> SUFFICES ASSUME NEW p \in Paths(tree), p \notin DOMAIN goes
             PROVE  p = path
  OBVIOUS
<1>4. IsStrictPrefix(P, p)
  BY <1>1, Zenon DEF Carried
<1>10. Descends(tree, P, p)
  BY <1>1, <1>2, <1>4, BelowChild
<1>5. PICK s \in StepsFrom(tree[P]) : s \in Steps /\ \E u \in Seq(Steps) : p = Append(P, s) \o u
  BY <1>10, Zenon DEF Descends
<1>6. s = <<o, i>>
  BY <1>1, <1>3, <1>5, Zenon DEF Complete
<1>7. PICK u \in Seq(Steps) : p = path \o u
  BY <1>2, <1>5, <1>6
<1>8. IsPrefix(path, p)
  BY <1>2, <1>7, PathConcat
<1>9. ~IsStrictPrefix(path, p)
  <2> SUFFICES ASSUME IsStrictPrefix(path, p) PROVE FALSE
    OBVIOUS
  <2>0. Descends(tree, path, p)
    BY <1>1, <1>2, BelowChild
  <2>1. PICK x \in StepsFrom(tree[path]) :
           x \in Steps /\ \E v \in Seq(Steps) : p = Append(path, x) \o v
    BY <2>0, Zenon DEF Descends
  <2> QED
    BY <1>1, <1>3, <2>1, Zenon DEF Complete
<1> QED
  BY <1>8, <1>9, Zenon DEF IsStrictPrefix

\* A promotion keeps the places of all cursors, and the comments.
Keeps(tree, t, path, edit) ==
    /\ IsTree(t)
    /\ \A c \in Cursors(tree) : KeepsPlace(tree, t, c, PromoteRemap(path, edit, c))
    /\ Comments(tree) \subseteq Comments(t)

\* A promotion gives a tree, keeps the place of every cursor and every comment.
LEMMA PromotionKeeps ==
  ASSUME NEW tree, NEW path, NEW roots, NEW P, NEW o, NEW i, NEW n, NEW sib, NEW D,
         NEW promoted, NEW demoted, NEW lines, NEW goes, NEW t,
         Promotion(tree, path, roots, P, o, i, n, sib, D, promoted, demoted, lines, goes, t),
         P = Parent(path), o = Owner(path), NEW edit, edit.goes = goes, edit.tree = t
  PROVE  Keeps(tree, t, path, edit)
<1>1. /\ IsTree(tree) /\ Grafts(tree, P, roots, lines)
      /\ goes = Goes(tree, P, roots) /\ t = Relocated(tree, goes, lines)
      /\ Halves(tree[P], o, tree[path], n, i, sib, promoted, demoted)
      /\ PromotionAt(tree, path, P, o, i, n, sib, D, promoted, demoted, lines)
  BY Zenon DEF Promotion
<1>2. /\ path \in Paths(tree) /\ P \in Paths(tree) /\ path # P
      /\ D = Append(P, <<o, 1>>)
      /\ \A q : q \in DOMAIN lines <=> q = P \/ q = D
      /\ lines[P] = promoted /\ lines[D] = demoted
  BY <1>1, Zenon DEF PromotionAt
<1>3. /\ Meets(tree, t, path, P, o, D, promoted, demoted)
      /\ P \in Paths(t) /\ D \in Paths(t)
  BY PromotionMeets
<1>4. SamePlaces(tree, t, path, P, o, D, demoted)
  BY <1>1, <1>3, PlayedIn
<1>5. IsTree(t)
  BY <1>1, RelocatedIsTree
<1>6. \A p \in DOMAIN goes : p # P => \A k \in 0..Len(tree[p].moves) :
         KeepsPlace(tree, t, Cursor(p, k), Cursor(goes[p], k))
  <2>1. \A r \in DOMAIN roots : Before(t, roots[r]) = Before(tree, r)
    BY PromotedBefore
  <2> QED
    BY <1>1, <2>1, GraftKeepsPlayed
<1>7. \A p \in Paths(tree) : p \notin DOMAIN goes => p = path
  BY PromotedGone
<1>8. /\ Len(promoted.moves) = o - 1 + Len(tree[path].moves)
      /\ Len(demoted.moves) = Len(tree[P].moves) - o + 1
      /\ o \in Nat /\ o \in 1..Len(tree[P].moves) /\ Len(tree[P].moves) \in Nat
      /\ Len(tree[path].moves) \in Nat
  <2>1. /\ Len(promoted.moves) = o - 1 + Len(tree[path].moves)
        /\ Len(demoted.moves) = Len(tree[P].moves) - o + 1
        /\ tree[P] \in VariationLines /\ tree[path] \in VariationLines
        /\ o \in Nat /\ o \in 1..Len(tree[P].moves)
    BY <1>1, Zenon DEF Halves, Joins, Splits
  <2> QED
    BY <2>1, LineTypes
<1>9. t[P] = promoted /\ t[D] = demoted
  BY <1>3, Zenon DEF Meets
<1>10. ASSUME NEW k \in 0..Len(tree[P].moves), k < o
       PROVE  KeepsPlace(tree, t, Cursor(P, k), Cursor(P, k))
  <2>1. k \in 0..o - 1 /\ k \in 0..Len(t[P].moves)
    BY <1>8, <1>9, <1>10, SMTT(30)
  <2>2. ValidCursor(t, Cursor(P, k))
    BY <1>3, <2>1, CursorsAre
  <2>3. Before(t, P) \o Sans(SubSeq(t[P].moves, 1, k))
           = Before(tree, P) \o Sans(SubSeq(tree[P].moves, 1, k))
    BY <1>4, <2>1, Zenon DEF SamePlaces
  <2>4. Played(t, Cursor(P, k)) = Played(tree, Cursor(P, k))
    BY <2>3, PlayedAt, Zenon
  <2> QED
    BY <2>2, <2>4, Zenon DEF KeepsPlace
<1>11. ASSUME NEW k \in 0..Len(tree[P].moves), ~(k < o)
       PROVE  KeepsPlace(tree, t, Cursor(P, k), Cursor(D, k - o + 1))
  <2> DEFINE j == k - o + 1
  <2>1. j \in 0..Len(demoted.moves) /\ o - 1 + j = k
    <3> DEFINE a == Len(tree[P].moves)  d == Len(demoted.moves)
    <3>1. d = a - o + 1 /\ a \in Nat /\ o \in 1..a /\ k \in 0..a /\ ~(k < o)
      BY <1>8, <1>11
    <3> HIDE DEF a, d
    <3>2. j \in 0..d /\ o - 1 + j = k
      BY <3>1
    <3> QED
      BY <3>2 DEF d
  <2>5. j \in 0..Len(t[D].moves)
    BY <1>9, <2>1
  <2> HIDE DEF j
  <2>2. ValidCursor(t, Cursor(D, j))
    BY <1>3, <2>5, CursorsAre
  <2>3. Before(t, D) \o Sans(SubSeq(t[D].moves, 1, j))
           = Before(tree, P) \o Sans(SubSeq(tree[P].moves, 1, k))
    BY <1>4, <2>1, Zenon DEF SamePlaces
  <2>6. Played(t, Cursor(D, j)) = Before(t, D) \o Sans(SubSeq(t[D].moves, 1, j))
    BY PlayedAt
  <2>7. Played(tree, Cursor(P, k)) = Before(tree, P) \o Sans(SubSeq(tree[P].moves, 1, k))
    BY PlayedAt
  <2>4. Played(t, Cursor(D, j)) = Played(tree, Cursor(P, k))
    BY <2>3, <2>6, <2>7, Zenon
  <2> QED
    BY <2>2, <2>4, Zenon DEF KeepsPlace, j
<1>12. ASSUME NEW k \in 0..Len(tree[path].moves)
       PROVE  KeepsPlace(tree, t, Cursor(path, k), Cursor(P, o - 1 + k))
  <2> DEFINE j == o - 1 + k
  <2>1. j \in 0..Len(t[P].moves)
    BY <1>8, <1>9
  <2>3. Before(t, P) \o Sans(SubSeq(t[P].moves, 1, j))
           = Before(tree, path) \o Sans(SubSeq(tree[path].moves, 1, k))
    BY <1>4, Zenon DEF SamePlaces
  <2> HIDE DEF j
  <2>2. ValidCursor(t, Cursor(P, j))
    BY <1>3, <2>1, CursorsAre
  <2>6. Played(t, Cursor(P, j)) = Before(t, P) \o Sans(SubSeq(t[P].moves, 1, j))
    BY PlayedAt
  <2>7. Played(tree, Cursor(path, k)) = Before(tree, path) \o Sans(SubSeq(tree[path].moves, 1, k))
    BY PlayedAt
  <2>4. Played(t, Cursor(P, j)) = Played(tree, Cursor(path, k))
    BY <2>3, <2>6, <2>7, Zenon
  <2> QED
    BY <2>2, <2>4, Zenon DEF KeepsPlace, j
<1>13. ASSUME NEW c \in Cursors(tree)
       PROVE  KeepsPlace(tree, t, c, PromoteRemap(path, edit, c))
  <2>0. PICK p \in Paths(tree) : \E k \in 0..Len(tree[p].moves) : c = Cursor(p, k)
    BY CursorsAre DEF ValidCursor
  <2>1. PICK k \in 0..Len(tree[p].moves) : c = Cursor(p, k)
    BY <2>0
  <2>2. c.path = p /\ c.next = k
    BY <2>1, CursorFields
  <2>3. PromoteRemap(path, edit, c) =
           IF p = P THEN IF k < o THEN c ELSE Cursor(D, k - o + 1)
           ELSE IF p = path THEN Cursor(P, o - 1 + k)
           ELSE CursorRemap(edit, c)
    BY <1>2, <2>2, Zenon DEF PromoteRemap
  <2>4. CASE p = P
    BY <1>10, <1>11, <2>1, <2>3, <2>4, Zenon
  <2>5. CASE p = path
    BY <1>2, <1>12, <2>1, <2>3, <2>5, Zenon
  <2>6. CASE p # P /\ p # path
    <3>1. p \in DOMAIN goes
      BY <1>7, <2>6, Zenon
    <3>2. CursorRemap(edit, c) = Cursor(goes[p], k)
      BY <2>2, <3>1, Zenon DEF CursorRemap
    <3> QED
      BY <1>6, <2>1, <2>3, <2>6, <3>1, <3>2, Zenon
  <2> QED
    BY <2>4, <2>5, <2>6, Zenon
<1>14. /\ \A p \in DOMAIN goes : p # P => CommentsOf(tree[p]) \subseteq Comments(t)
       /\ \A q \in DOMAIN lines : CommentsOf(lines[q]) \subseteq Comments(t)
  BY <1>1, GraftKeepsComments
<1>15. CommentsOf(tree[P]) \cup CommentsOf(tree[path]) \subseteq
          CommentsOf(promoted) \cup CommentsOf(demoted)
  BY <1>1, HalvesSay
<1>16. CommentsOf(promoted) \subseteq Comments(t) /\ CommentsOf(demoted) \subseteq Comments(t)
  BY <1>2, <1>14, Zenon
<1>17. \A p \in Paths(tree) : CommentsOf(tree[p]) \subseteq Comments(t)
  BY <1>7, <1>14, <1>15, <1>16
<1>18. Comments(tree) \subseteq Comments(t)
  BY <1>17 DEF Comments
<1> QED
  BY <1>5, <1>13, <1>18, Zenon DEF Keeps

\* PromoteVariation, of a variation with moves: a tree, every place and every comment
\* kept.
THEOREM PromoteFacts ==
  ASSUME NEW tree, IsTree(tree), NEW path \in Branches(tree), tree[path].moves # <<>>,
         NEW edit, edit = PromoteVariation(tree, path)
  PROVE  Keeps(tree, edit.tree, path, edit)
<1> DEFINE P == Parent(path)  o == Owner(path)  i == Index(path)
           roots == PromotedRoots(tree, path)
           promoted == PromotedLine(tree, path)
           demoted == Demoted(tree[P], o)
           D == Append(P, <<o, 1>>)
           lines == WithLine(WithLine(<<>>, D, demoted), P, promoted)
           goes == Goes(tree, P, roots)
           t == Relocated(tree, goes, lines)
           n == OwnerMove(tree, path).vars  sib == Siblings(tree, path)
<1>1. edit = [goes |-> goes, tree |-> t]
  BY Zenon DEF PromoteVariation, Edit
<1>2. Promotes(tree, path, roots, promoted, demoted, lines)
  BY Zenon DEF Promotes
<1> HIDE DEF roots, promoted, demoted, lines
<1>3. Promotion(tree, path, roots, P, o, i, n, sib, D, promoted, demoted, lines, goes, t)
  BY <1>2, PromotionHas
<1> HIDE DEF goes, t, D, n, sib, i
<1>4. edit.goes = goes /\ edit.tree = t
  BY <1>1
<1>5. P = Parent(path) /\ o = Owner(path)
  OBVIOUS
<1> HIDE DEF P, o
<1>6. Keeps(tree, t, path, edit)
  BY <1>3, <1>4, <1>5, PromotionKeeps
<1> QED
  BY <1>4, <1>6

-----------------------------------------------------------------------------
(* The edits, as the workspace uses them: a tree, the cursor's new place, and nothing *)
(* lost                                                                             *)

\* What an edit may do to a tree: it leaves a tree, a cursor c becomes d and keeps its
\* place, and every position is still there.
Edits(tree, t, c, d) ==
    /\ IsTree(t)
    /\ KeepsPlace(tree, t, c, d)
    /\ Positions(tree) \subseteq Positions(t)

\* A tree in which every cursor has a place has every position.
LEMMA PositionsKept ==
  ASSUME NEW tree, NEW t, \A c \in Cursors(tree) : \E d : KeepsPlace(tree, t, c, d)
  PROVE  Positions(tree) \subseteq Positions(t)
<1>1. ASSUME NEW c \in Cursors(tree)
      PROVE  Played(tree, c) \in Positions(t)
  <2>1. PICK d : KeepsPlace(tree, t, c, d)
    OBVIOUS
  <2>2. d \in Cursors(t) /\ Played(t, d) = Played(tree, c)
    BY <2>1, Zenon DEF KeepsPlace, ValidCursor
  <2> QED
    BY <2>2 DEF Positions
<1> QED
  BY <1>1 DEF Positions

\* Where an edit of siblings takes a cursor whose line goes somewhere.
LEMMA ReseatsCursor ==
  ASSUME NEW tree, NEW edit, Reseats(tree, edit), NEW c \in Cursors(tree), c.path \in DOMAIN edit.goes
  PROVE  /\ KeepsPlace(tree, edit.tree, c, CursorRemap(edit, c))
         /\ CursorRemap(edit, c) = Cursor(edit.goes[c.path], c.next)
<1>1. PICK p \in Paths(tree) : \E n \in 0..Len(tree[p].moves) : c = Cursor(p, n)
  BY CursorsAre DEF ValidCursor
<1>2. PICK n \in 0..Len(tree[p].moves) : c = Cursor(p, n)
  BY <1>1
<1>3. c.path = p /\ c.next = n
  BY <1>2, CursorFields
<1>4. CursorRemap(edit, c) = Cursor(edit.goes[p], n)
  BY <1>3, Zenon DEF CursorRemap
<1>5. KeepsPlace(tree, edit.tree, Cursor(p, n), Cursor(edit.goes[p], n))
  BY <1>3, Zenon DEF Reseats
<1> QED
  BY <1>2, <1>3, <1>4, <1>5, Zenon

\* An edit of siblings that keeps every line keeps every comment.
LEMMA ReseatsAll ==
  ASSUME NEW tree, IsTree(tree), NEW edit, Reseats(tree, edit), DOMAIN edit.goes = Paths(tree),
         NEW c \in Cursors(tree)
  PROVE  /\ Edits(tree, edit.tree, c, CursorRemap(edit, c))
         /\ CursorRemap(edit, c) = Cursor(edit.goes[c.path], c.next)
         /\ Comments(tree) \subseteq Comments(edit.tree)
<1>1. \A b \in Cursors(tree) : b.path \in DOMAIN edit.goes
  BY CursorsAre, CursorFields DEF ValidCursor
<1>2. \A b \in Cursors(tree) :
         /\ KeepsPlace(tree, edit.tree, b, CursorRemap(edit, b))
         /\ CursorRemap(edit, b) = Cursor(edit.goes[b.path], b.next)
  BY <1>1, ReseatsCursor
<1>3. Positions(tree) \subseteq Positions(edit.tree)
  <2>1. \A b \in Cursors(tree) : \E d : KeepsPlace(tree, edit.tree, b, d)
    BY <1>2, Zenon
  <2> QED
    BY <2>1, PositionsKept
<1>4. Comments(tree) \subseteq Comments(edit.tree)
  <2>1. \A p \in Paths(tree) : CommentsOf(tree[p]) \subseteq Comments(edit.tree)
    BY Zenon DEF Reseats
  <2> QED
    BY <2>1 DEF Comments
<1>5. IsTree(edit.tree)
  BY Zenon DEF Reseats
<1> QED
  BY <1>2, <1>3, <1>4, <1>5, Zenon DEF Edits

\* ReorderVariation loses no position and no comment, and the cursor keeps its place.
LEMMA ReorderEdits ==
  ASSUME NEW tree, IsTree(tree), NEW path \in Branches(tree),
         NEW new \in 1..OwnerMove(tree, path).vars,
         NEW edit, edit = ReorderVariation(tree, path, new), NEW c \in Cursors(tree)
  PROVE  /\ Edits(tree, edit.tree, c, CursorRemap(edit, c))
         /\ Comments(tree) \subseteq Comments(edit.tree)
<1>1. Reseats(tree, edit) /\ DOMAIN edit.goes = Paths(tree)
  BY ReorderFacts
<1> QED
  BY <1>1, ReseatsAll

\* AddVariation loses no position and no comment, and the shifted cursor keeps its
\* place.
LEMMA AddEdits ==
  ASSUME NEW tree, IsTree(tree), NEW P \in Paths(tree), NEW owner \in DOMAIN tree[P].moves,
         NEW index \in 1..tree[P].moves[owner].vars + 1,
         NEW variation, IsTree(variation),
         NEW t, t = AddVariation(tree, P, owner, index, variation).tree,
         NEW c \in Cursors(tree), NEW d, d = [c EXCEPT !.path = ShiftPath(@, P, owner, index)]
  PROVE  /\ Edits(tree, t, c, d)
         /\ Comments(tree) \subseteq Comments(t)
<1> DEFINE edit == AddVariation(tree, P, owner, index, variation)
<1>1. /\ Reseats(tree, edit) /\ DOMAIN edit.goes = Paths(tree)
      /\ \A p \in Paths(tree) : ShiftPath(p, P, owner, index) = edit.goes[p]
  BY AddFacts
<1>2. t = edit.tree
  OBVIOUS
<1> HIDE DEF edit
<1>3. /\ Edits(tree, edit.tree, c, CursorRemap(edit, c))
      /\ CursorRemap(edit, c) = Cursor(edit.goes[c.path], c.next)
      /\ Comments(tree) \subseteq Comments(edit.tree)
  BY <1>1, ReseatsAll
<1>4. c.path \in Paths(tree) /\ c = [path |-> c.path, next |-> c.next]
  BY CursorsAre DEF ValidCursor, Cursor
<1>5. ShiftPath(c.path, P, owner, index) = edit.goes[c.path]
  BY <1>1, <1>4
<1>6. d = [path |-> ShiftPath(c.path, P, owner, index), next |-> c.next]
  BY <1>4
<1>7. d = Cursor(edit.goes[c.path], c.next)
  BY <1>5, <1>6, Zenon DEF Cursor
<1> QED
  BY <1>2, <1>3, <1>7, Zenon

\* A promotion keeps the cursor's place, every position and every comment.
LEMMA PromoteEdits ==
  ASSUME NEW tree, IsTree(tree), NEW path \in Branches(tree), tree[path].moves # <<>>,
         NEW edit, edit = PromoteVariation(tree, path), NEW c \in Cursors(tree)
  PROVE  /\ Edits(tree, edit.tree, c, PromoteRemap(path, edit, c))
         /\ Comments(tree) \subseteq Comments(edit.tree)
<1>1. Keeps(tree, edit.tree, path, edit)
  BY PromoteFacts
<1>2. Positions(tree) \subseteq Positions(edit.tree)
  <2>1. \A b \in Cursors(tree) : \E d : KeepsPlace(tree, edit.tree, b, d)
    BY <1>1, Zenon DEF Keeps
  <2> QED
    BY <2>1, PositionsKept
<1> QED
  BY <1>1, <1>2, Zenon DEF Keeps, Edits

\* The cursor left where a variation began stands where the variation starts.
LEMMA BranchStart ==
  ASSUME NEW tree, IsTree(tree), NEW path \in Branches(tree)
  PROVE  Played(tree, Cursor(path, 0)) = Played(tree, Cursor(Parent(path), Owner(path) - 1))
<1> DEFINE P == Parent(path)  o == Owner(path)
           moves == tree[P].moves
<1>1. /\ P \in Paths(tree) /\ P \in Seq(Steps) /\ Last(path) \in Steps
      /\ path = Append(P, Last(path)) /\ o = Last(path)[1] /\ o \in 1..Len(moves)
      /\ path \in Paths(tree)
  BY BranchFacts DEF Owner
<1>2. tree[path] \in VariationLines /\ tree[P] \in VariationLines
  BY <1>1, TreeFacts
<1> HIDE DEF P, o, moves
<1>3. Before(tree, path) = Before(tree, P) \o Sans(SubSeq(moves, 1, o - 1))
  <2>1. Before(tree, Append(P, Last(path))) =
           Before(tree, P) \o Sans(SubSeq(tree[P].moves, 1, Last(path)[1] - 1))
    BY <1>1, BeforeEquation
  <2> QED
    BY <1>1, <2>1, Zenon DEF moves
<1>4. Before(tree, path) \in Seq(SanMoves)
  BY <1>1, BeforeTyped
<1>5. Sans(SubSeq(tree[path].moves, 1, 0)) = <<>>
  <2>1. SubSeq(tree[path].moves, 1, 0) = <<>>
    BY <1>2, LineTypes
  <2> QED
    BY <2>1 DEF Sans
<1>6. Before(tree, path) \o <<>> = Before(tree, path)
  BY <1>4, ConcatEmptySeq
<1>7. Played(tree, Cursor(path, 0)) = Before(tree, path)
  BY <1>5, <1>6, PlayedAt
<1>8. Played(tree, Cursor(P, o - 1)) = Before(tree, P) \o Sans(SubSeq(moves, 1, o - 1))
  BY PlayedAt DEF moves
<1> QED
  BY <1>3, <1>7, <1>8, Zenon DEF P, o

-----------------------------------------------------------------------------
(* Deleting a variation, and rewriting the comments of a line                       *)

\* What a deletion leaves: every position but those inside the variation; and the
\* cursor d, which is c in its place or, if c was inside, the place it branched from.
Deletes(tree, t, path, c, d) ==
    /\ IsTree(t)
    /\ Positions(tree) \ PositionsUnder(tree, path) \subseteq Positions(t)
    /\ ValidCursor(t, d)
    /\ \/ Played(t, d) = Played(tree, c)
       \/ IsPrefix(path, c.path) /\ Played(t, d) = Played(tree, AfterOwner(path))

\* DeleteVariation loses no position outside the variation, and a cursor in it goes to
\* the move it replaced.
LEMMA DeleteEdits ==
  ASSUME NEW tree, IsTree(tree), NEW path \in Branches(tree),
         NEW edit, edit = DeleteVariation(tree, path), NEW c \in Cursors(tree),
         NEW d, d = IF CursorRemap(edit, c) = None THEN AfterOwner(path) ELSE CursorRemap(edit, c)
  PROVE  Deletes(tree, edit.tree, path, c, d)
<1> DEFINE t == edit.tree  P == Parent(path)  o == Owner(path)
<1>1. /\ Reseats(tree, edit) /\ DOMAIN edit.goes \subseteq Paths(tree)
      /\ \A p \in Paths(tree) : p \notin DOMAIN edit.goes => IsPrefix(path, p)
      /\ P \in DOMAIN edit.goes /\ edit.goes[P] = P
  BY DeleteFacts
<1>2. /\ P \in Paths(tree) /\ o \in 1..Len(tree[P].moves) /\ Len(tree[P].moves) \in Nat
  <2>1. P \in Paths(tree) /\ o \in 1..Len(tree[P].moves)
    BY BranchFacts
  <2> QED
    BY <2>1, TreeFacts, LineTypes
<1>3. Played(tree, Cursor(path, 0)) = Played(tree, Cursor(P, o - 1))
  BY BranchStart
<1>4. AfterOwner(path) = Cursor(P, o)
  BY Zenon DEF AfterOwner
<1>5. IsTree(t)
  BY <1>1, Zenon DEF Reseats
<1> HIDE DEF t, P, o
<1>6. \A b \in Cursors(tree) : b.path \in DOMAIN edit.goes =>
         KeepsPlace(tree, t, b, CursorRemap(edit, b))
  BY <1>1, ReseatsCursor DEF t
<1>7. \A n \in 0..Len(tree[P].moves) : KeepsPlace(tree, t, Cursor(P, n), Cursor(P, n))
  BY <1>1, Zenon DEF Reseats, t
<1>8. ASSUME NEW b \in Cursors(tree), Played(tree, b) \notin PositionsUnder(tree, path)
      PROVE  Played(tree, b) \in Positions(t)
  <2>1. CASE b.path \in DOMAIN edit.goes
    <3>1. KeepsPlace(tree, t, b, CursorRemap(edit, b))
      BY <1>6, <2>1
    <3> QED
      BY <3>1 DEF KeepsPlace, Positions, ValidCursor
  <2>2. CASE b.path \notin DOMAIN edit.goes
    <3>1. b.path \in Paths(tree)
      BY CursorsAre, CursorFields DEF ValidCursor
    <3>2. IsPrefix(path, b.path)
      BY <1>1, <2>2, <3>1
    <3>3. b = Cursor(path, 0)
      BY <1>8, <3>2 DEF PositionsUnder
    <3>4. o - 1 \in 0..Len(tree[P].moves)
      BY <1>2
    <3>5. KeepsPlace(tree, t, Cursor(P, o - 1), Cursor(P, o - 1))
      BY <1>7, <3>4
    <3>6. Played(tree, b) = Played(t, Cursor(P, o - 1)) /\ Cursor(P, o - 1) \in Cursors(t)
      BY <1>3, <3>3, <3>5, Zenon DEF KeepsPlace, ValidCursor
    <3> QED
      BY <3>6 DEF Positions
  <2> QED
    BY <2>1, <2>2
<1>9. Positions(tree) \ PositionsUnder(tree, path) \subseteq Positions(t)
  BY <1>8 DEF Positions
<1>10. CASE c.path \in DOMAIN edit.goes
  <2>1. KeepsPlace(tree, t, c, CursorRemap(edit, c))
    BY <1>6, <1>10
  <2>2. CursorRemap(edit, c) # None
    <3>1. PICK p \in Paths(t) : \E n \in 0..Len(t[p].moves) : CursorRemap(edit, c) = Cursor(p, n)
      BY <2>1, CursorsAre DEF KeepsPlace
    <3>2. PICK n \in 0..Len(t[p].moves) : CursorRemap(edit, c) = Cursor(p, n)
      BY <3>1
    <3>3. p \in Seq(Steps) /\ n \in Nat
      <4>1. p \in Seq(Steps) /\ t[p] \in VariationLines
        BY <1>5, TreeFacts
      <4>2. Len(t[p].moves) \in Nat
        BY <4>1, LineTypes
      <4> QED
        BY <4>1, <4>2
    <3> QED
      BY <3>2, <3>3, NoneAssumption DEF Cursor
  <2> QED
    BY <1>5, <1>9, <2>1, <2>2, Zenon DEF Deletes, KeepsPlace, t
<1>11. CASE c.path \notin DOMAIN edit.goes
  <2>1. c.path \in Paths(tree)
    BY CursorsAre, CursorFields DEF ValidCursor
  <2>2. IsPrefix(path, c.path)
    BY <1>1, <1>11, <2>1
  <2>3. d = AfterOwner(path)
    BY <1>11, Zenon DEF CursorRemap
  <2>4. o \in 0..Len(tree[P].moves)
    BY <1>2
  <2>5. KeepsPlace(tree, t, d, d)
    BY <1>4, <1>7, <2>3, <2>4
  <2> QED
    BY <1>5, <1>9, <2>2, <2>3, <2>5, Zenon DEF Deletes, KeepsPlace, t
<1> QED
  BY <1>10, <1>11

-----------------------------------------------------------------------------
\* A line with the moves and the variations of another.
SameMoves(old, line) ==
    /\ line \in VariationLines
    /\ Len(line.moves) = Len(old.moves)
    /\ \A i \in 1..Len(old.moves) :
          line.moves[i].san = old.moves[i].san /\ line.moves[i].vars = old.moves[i].vars

\* Only the line `path' of the tree is another, and it has the same moves.
Rewrites(tree, path, t) ==
    /\ IsTree(tree) /\ t = [p \in Paths(t) |-> t[p]] /\ Paths(t) = Paths(tree)
    /\ \A p \in Paths(tree) : p # path => t[p] = tree[p]
    /\ path \in Paths(tree) /\ SameMoves(tree[path], t[path])

\* Each line of a rewritten tree has the moves it had.
LEMMA RewrittenLines ==
  ASSUME NEW tree, NEW path, NEW t, Rewrites(tree, path, t)
  PROVE  \A p \in Paths(tree) : SameMoves(tree[p], t[p]) /\ tree[p] \in VariationLines
<1> SUFFICES ASSUME NEW p \in Paths(tree)
             PROVE  SameMoves(tree[p], t[p]) /\ tree[p] \in VariationLines
  OBVIOUS
<1>1. tree[p] \in VariationLines
  BY TreeFacts DEF Rewrites
<1>2. CASE p = path
  BY <1>1, <1>2 DEF Rewrites
<1>3. CASE p # path
  BY <1>1, <1>3 DEF Rewrites, SameMoves
<1> QED
  BY <1>2, <1>3

\* A line with the same moves has the same variations and plays the same.
LEMMA SameSteps ==
  ASSUME NEW old \in VariationLines, NEW line, SameMoves(old, line)
  PROVE  /\ StepsFrom(line) = StepsFrom(old)
         /\ \A k \in 0..Len(old.moves) :
               Sans(SubSeq(line.moves, 1, k)) = Sans(SubSeq(old.moves, 1, k))
<1>1. /\ line \in VariationLines /\ Len(line.moves) = Len(old.moves)
      /\ \A i \in 1..Len(old.moves) :
            line.moves[i].san = old.moves[i].san /\ line.moves[i].vars = old.moves[i].vars
  BY Zenon DEF SameMoves
<1>2. \A s : s \in StepsFrom(line) <=> s \in StepsFrom(old)
  <2>1. \A s : s \in StepsFrom(line) <=>
            s \in Steps /\ s[1] \in 1..Len(line.moves) /\ s[2] \in 1..line.moves[s[1]].vars
    BY <1>1, StepsFromIs
  <2>2. \A s : s \in StepsFrom(old) <=>
            s \in Steps /\ s[1] \in 1..Len(old.moves) /\ s[2] \in 1..old.moves[s[1]].vars
    BY StepsFromIs
  <2> QED
    BY <1>1, <2>1, <2>2
<1>3. ASSUME NEW k \in 0..Len(old.moves)
      PROVE  Sans(SubSeq(line.moves, 1, k)) = Sans(SubSeq(old.moves, 1, k))
  <2>1. line.moves \in Seq(Moves) /\ old.moves \in Seq(Moves) /\ Len(old.moves) \in Nat
    BY <1>1, LineTypes
  <2>2. k \in Nat /\ k <= Len(old.moves) /\ k <= Len(line.moves)
    BY <1>1, <2>1
  <2>3. \A i \in 1..k : line.moves[i].san = old.moves[i].san
    BY <1>1, <2>1, <2>2
  <2> QED
    BY <2>1, <2>2, <2>3, SameSans
<1> QED
  BY <1>2, <1>3

\* A rewritten tree is a tree.
LEMMA RewrittenIsTree ==
  ASSUME NEW tree, NEW path, NEW t, Rewrites(tree, path, t)
  PROVE  IsTree(t)
<1>0. IsTree(tree) /\ Paths(t) = Paths(tree) /\ t = [p \in Paths(t) |-> t[p]]
  BY Zenon DEF Rewrites
<1>1. \A p \in Paths(tree) : SameMoves(tree[p], t[p]) /\ tree[p] \in VariationLines
  BY RewrittenLines
<1>2. \A p \in Paths(tree) : StepsFrom(t[p]) = StepsFrom(tree[p]) /\ t[p] \in VariationLines
  BY <1>1, SameSteps DEF SameMoves
<1>3. \A p \in Paths(t) : p \in Seq(Steps) /\ t[p] \in VariationLines
  BY <1>0, <1>2, TreeFacts
<1>4. \A p \in Paths(t) : \A s \in StepsFrom(t[p]) : Append(p, s) \in Paths(t)
  BY <1>0, <1>2, TreeFacts
<1>5. \A p \in Paths(t) : p # <<>> =>
         Parent(p) \in Paths(t) /\ Last(p) \in StepsFrom(t[Parent(p)])
  <2> SUFFICES ASSUME NEW p \in Paths(tree), p # <<>>
               PROVE  Parent(p) \in Paths(tree) /\ Last(p) \in StepsFrom(t[Parent(p)])
    BY <1>0
  <2>1. p \in Branches(tree)
    BY DEF Branches
  <2>2. Parent(p) \in Paths(tree) /\ Last(p) \in StepsFrom(tree[Parent(p)])
    BY <1>0, <2>1, BranchFacts
  <2> QED
    BY <1>2, <2>2
<1>6. <<>> \in Paths(t)
  BY <1>0, TreeFacts
<1> QED
  BY <1>0, <1>3, <1>4, <1>5, <1>6, TreeMade DEF Paths

\* The moves before a line are the same in a rewritten tree.
LEMMA RewrittenBefore ==
  ASSUME NEW tree, NEW path, NEW t, Rewrites(tree, path, t)
  PROVE  \A p \in Paths(tree) : Before(t, p) = Before(tree, p)
<1> DEFINE S == {n \in Nat : \A p \in Paths(tree) : Len(p) = n => Before(t, p) = Before(tree, p)}
<1>0. IsTree(tree)
  BY Zenon DEF Rewrites
<1>1. 0 \in S
  <2> SUFFICES ASSUME NEW p \in Paths(tree), Len(p) = 0
               PROVE  Before(t, p) = Before(tree, p)
    OBVIOUS
  <2>1. p = <<>>
    BY <1>0, TreeFacts
  <2>2. Before(tree, <<>>) = <<>> /\ Before(t, <<>>) = <<>>
    BY BeforeEquation
  <2> QED
    BY <2>1, <2>2, Zenon
<1>2. ASSUME NEW n \in Nat, n \in S
      PROVE  n + 1 \in S
  <2> SUFFICES ASSUME NEW p \in Paths(tree), Len(p) = n + 1
               PROVE  Before(t, p) = Before(tree, p)
    OBVIOUS
  <2>1. p \in Seq(Steps) /\ p # <<>>
    BY <1>0, TreeFacts
  <2>2. PICK q \in Seq(Steps), s \in Steps : p = Append(q, s)
    BY <2>1, FrontOf
  <2>3. q \in Paths(tree) /\ s \in StepsFrom(tree[q])
    BY <1>0, <2>2, TreeFacts
  <2>4. Before(t, q) = Before(tree, q)
    BY <1>2, <2>2, <2>3
  <2>5. tree[q] \in VariationLines /\ SameMoves(tree[q], t[q])
    BY <2>3, RewrittenLines
  <2>6. s[1] - 1 \in 0..Len(tree[q].moves)
    <3>1. s[1] \in 1..Len(tree[q].moves)
      BY <2>3, <2>5, StepsFromIs
    <3>2. Len(tree[q].moves) \in Nat
      BY <2>5, LineTypes
    <3> QED
      BY <3>1, <3>2
  <2>7. Sans(SubSeq(t[q].moves, 1, s[1] - 1)) = Sans(SubSeq(tree[q].moves, 1, s[1] - 1))
    BY <2>5, <2>6, SameSteps
  <2>8. /\ Before(tree, p) = Before(tree, q) \o Sans(SubSeq(tree[q].moves, 1, s[1] - 1))
        /\ Before(t, p) = Before(t, q) \o Sans(SubSeq(t[q].moves, 1, s[1] - 1))
    BY <2>2, BeforeEquation
  <2> QED
    BY <2>4, <2>7, <2>8, Zenon
<1>3. \A n \in Nat : n \in S
  <2> HIDE DEF S
  <2> QED
    BY <1>1, <1>2, InductionOverNat
<1>4. \A p \in Paths(tree) : Len(p) \in Nat
  BY <1>0, TreeFacts
<1> QED
  BY <1>3, <1>4

\* New comments keep every cursor where it is.
LEMMA RewriteEdits ==
  ASSUME NEW tree, NEW path, NEW t, Rewrites(tree, path, t), NEW c \in Cursors(tree)
  PROVE  Edits(tree, t, c, c)
<1>1. \A b \in Cursors(tree) : KeepsPlace(tree, t, b, b)
  <2> SUFFICES ASSUME NEW b \in Cursors(tree) PROVE KeepsPlace(tree, t, b, b)
    OBVIOUS
  <2>1. PICK p \in Paths(tree) : \E n \in 0..Len(tree[p].moves) : b = Cursor(p, n)
    BY CursorsAre DEF ValidCursor
  <2>2. PICK n \in 0..Len(tree[p].moves) : b = Cursor(p, n)
    BY <2>1
  <2>3. tree[p] \in VariationLines /\ SameMoves(tree[p], t[p])
    BY RewrittenLines
  <2>4. n \in 0..Len(t[p].moves) /\ p \in Paths(t)
    BY <2>3 DEF SameMoves, Rewrites
  <2>5. ValidCursor(t, b)
    BY <2>2, <2>4, CursorsAre
  <2>6. Sans(SubSeq(t[p].moves, 1, n)) = Sans(SubSeq(tree[p].moves, 1, n))
    BY <2>3, SameSteps
  <2>7. Before(t, p) = Before(tree, p)
    BY RewrittenBefore
  <2>8. Played(t, Cursor(p, n)) = Before(t, p) \o Sans(SubSeq(t[p].moves, 1, n))
    BY PlayedAt
  <2>9. Played(tree, Cursor(p, n)) = Before(tree, p) \o Sans(SubSeq(tree[p].moves, 1, n))
    BY PlayedAt
  <2> QED
    BY <2>2, <2>5, <2>6, <2>7, <2>8, <2>9, Zenon DEF KeepsPlace
<1>2. Positions(tree) \subseteq Positions(t)
  <2>1. \A b \in Cursors(tree) : \E d : KeepsPlace(tree, t, b, d)
    BY <1>1, Zenon
  <2> QED
    BY <2>1, PositionsKept
<1> QED
  BY <1>1, <1>2, RewrittenIsTree DEF Edits

\* Setting the comment before a line rewrites it.
LEMMA LeadRewrites ==
  ASSUME NEW tree, IsTree(tree), NEW path \in Paths(tree), NEW note \in Seq(Texts)
  PROVE  Rewrites(tree, path, WithLine(tree, path, [tree[path] EXCEPT !.lead = note]))
<1> DEFINE line == [tree[path] EXCEPT !.lead = note]
           t == WithLine(tree, path, line)
<1>1. tree[path] \in VariationLines
  BY TreeFacts
<1>2. line \in VariationLines /\ line.moves = tree[path].moves
  BY <1>1 DEF VariationLines
<1>3. SameMoves(tree[path], line)
  BY <1>2 DEF SameMoves
<1>4. t = [p \in Paths(t) |-> t[p]]
  BY DEF WithLine, Paths
<1> HIDE DEF line
<1>5. /\ \A q : q \in Paths(t) <=> q = path \/ q \in Paths(tree)
      /\ t[path] = line /\ \A p \in Paths(tree) : p # path => t[p] = tree[p]
  BY WithLineFacts DEF Paths
<1>6. Paths(t) = Paths(tree)
  BY <1>5
<1> HIDE DEF t
<1>7. Rewrites(tree, path, t)
  BY <1>3, <1>4, <1>5, <1>6, Zenon DEF Rewrites
<1> QED
  BY <1>7 DEF t, line

\* Setting the comment after a move rewrites its line.
LEMMA AfterRewrites ==
  ASSUME NEW tree, IsTree(tree), NEW path \in Paths(tree), NEW note \in Seq(Texts),
         NEW i \in 1..Len(tree[path].moves)
  PROVE  Rewrites(tree, path, WithLine(tree, path,
            [tree[path] EXCEPT !.moves[i] = [@ EXCEPT !.before = <<>>, !.after = note]]))
<1> DEFINE m == [tree[path].moves[i] EXCEPT !.before = <<>>, !.after = note]
           ms == [tree[path].moves EXCEPT ![i] = m]
           line == [tree[path] EXCEPT !.moves[i] = [@ EXCEPT !.before = <<>>, !.after = note]]
           t == WithLine(tree, path, line)
<1>1. tree[path] \in VariationLines /\ tree[path].moves \in Seq(Moves) /\ tree[path].moves[i] \in Moves
  BY TreeFacts, LineTypes
<1>2. m \in Moves /\ m.san = tree[path].moves[i].san /\ m.vars = tree[path].moves[i].vars
  <2>1. <<>> \in Seq(Texts)
    OBVIOUS
  <2> QED
    BY <1>1, <2>1 DEF Moves
<1> HIDE DEF m
<1>3. /\ ms \in Seq(Moves) /\ Len(ms) = Len(tree[path].moves)
      /\ \A k \in 1..Len(tree[path].moves) : ms[k] = IF k = i THEN m ELSE tree[path].moves[k]
  BY <1>1, <1>2, ExceptSeq
<1>4. line = [tree[path] EXCEPT !.moves = ms]
  BY <1>1 DEF m, VariationLines
<1> HIDE DEF line, ms
<1>5. line \in VariationLines /\ line.moves = ms
  BY <1>1, <1>3, <1>4 DEF VariationLines
<1>6. SameMoves(tree[path], line)
  BY <1>2, <1>3, <1>5 DEF SameMoves
<1>7. t = [p \in Paths(t) |-> t[p]]
  BY DEF WithLine, Paths
<1>8. /\ \A q : q \in Paths(t) <=> q = path \/ q \in Paths(tree)
      /\ t[path] = line /\ \A p \in Paths(tree) : p # path => t[p] = tree[p]
  BY WithLineFacts DEF Paths
<1>9. Paths(t) = Paths(tree)
  BY <1>8
<1> HIDE DEF t
<1>10. Rewrites(tree, path, t)
  BY <1>6, <1>7, <1>8, <1>9, Zenon DEF Rewrites
<1> QED
  BY <1>10 DEF t, line

-----------------------------------------------------------------------------
(* The workspace: documents, and the inductive invariant                            *)

\* The games of a document.
LEMMA DocumentFacts ==
  ASSUME NEW games, IsDocument(games)
  PROVE  /\ DOMAIN games = 1..Len(games) /\ Len(games) \in Nat /\ Len(games) >= 1
         /\ \A k \in DOMAIN games : IsGame(games[k]) /\ IsTree(games[k].line)
<1>1. games \in Seq(Range(games)) /\ games # <<>>
  BY DEF IsDocument
<1>2. DOMAIN games = 1..Len(games) /\ Len(games) \in Nat /\ Len(games) >= 1
  BY <1>1
<1>3. \A k \in DOMAIN games : IsGame(games[k])
  BY DEF IsDocument
<1>4. \A g : IsGame(g) => IsTree(g.line)
  BY DEF IsGame
<1> QED
  BY <1>2, <1>3, <1>4

\* A sequence of games that is not empty is a document.
LEMMA DocumentIs ==
  ASSUME NEW S, NEW games \in Seq(S), games # <<>>, \A k \in DOMAIN games : IsGame(games[k])
  PROVE  IsDocument(games)
<1>1. games \in Seq(Range(games))
  <2>1. \A k \in 1..Len(games) : games[k] \in Range(games)
    BY DEF Range
  <2>2. DOMAIN games = 1..Len(games) /\ Len(games) \in Nat /\ games = [k \in 1..Len(games) |-> games[k]]
    OBVIOUS
  <2>3. games \in [1..Len(games) -> Range(games)]
    BY <2>1, <2>2
  <2> QED
    BY <2>2, <2>3, SeqDef
<1> QED
  BY <1>1 DEF IsDocument

\* Setting one game of a document.
LEMMA DocumentSet ==
  ASSUME NEW games, IsDocument(games), NEW k \in DOMAIN games, NEW g, IsGame(g)
  PROVE  /\ IsDocument([games EXCEPT ![k] = g])
         /\ DOMAIN [games EXCEPT ![k] = g] = DOMAIN games
         /\ [games EXCEPT ![k] = g][k] = g
<1> DEFINE new == [games EXCEPT ![k] = g]  S == Range(games) \cup {g}
<1>1. /\ games \in Seq(Range(games)) /\ games # <<>>
      /\ DOMAIN games = 1..Len(games) /\ Len(games) \in Nat
  BY DocumentFacts DEF IsDocument
<1>2. games \in Seq(S)
  BY <1>1
<1>3. /\ new \in Seq(S) /\ Len(new) = Len(games) /\ DOMAIN new = DOMAIN games
      /\ \A j \in DOMAIN games : new[j] = IF j = k THEN g ELSE games[j]
  BY <1>1, <1>2, ExceptSeq
<1> HIDE DEF new, S
<1>4. \A j \in DOMAIN new : IsGame(new[j])
  BY <1>3, DocumentFacts
<1>5. new # <<>>
  BY <1>1, <1>3
<1>6. IsDocument(new)
  BY <1>3, <1>4, <1>5, DocumentIs
<1> QED
  BY <1>3, <1>6 DEF new

\* A document followed by another; the games of the first keep their places.
LEMMA DocumentJoined ==
  ASSUME NEW a, IsDocument(a), NEW b, IsDocument(b)
  PROVE  /\ IsDocument(a \o b)
         /\ \A k \in DOMAIN a : k \in DOMAIN (a \o b) /\ (a \o b)[k] = a[k]
<1> DEFINE S == Range(a) \cup Range(b)
<1>1. /\ a \in Seq(S) /\ b \in Seq(S) /\ a # <<>>
  BY DEF IsDocument
<1> HIDE DEF S
<1>2. /\ a \o b \in Seq(S) /\ a \o b # <<>> /\ DOMAIN (a \o b) = 1..Len(a) + Len(b)
      /\ \A k \in 1..Len(a) : (a \o b)[k] = a[k]
      /\ \A k \in 1..Len(b) : (a \o b)[Len(a) + k] = b[k]
  BY <1>1
<1>6. /\ \A k \in 1..Len(a) : IsGame(a[k])
      /\ \A k \in 1..Len(b) : IsGame(b[k])
      /\ Len(a) \in Nat /\ Len(b) \in Nat
  BY DocumentFacts
<1>3. ASSUME NEW k \in DOMAIN (a \o b)
      PROVE  IsGame((a \o b)[k])
  <2>1. CASE k \in 1..Len(a)
    BY <1>2, <1>6, <2>1
  <2>2. CASE k \notin 1..Len(a)
    <3>1. k - Len(a) \in 1..Len(b) /\ k = Len(a) + (k - Len(a))
      BY <1>2, <1>6, <2>2
    <3> QED
      BY <1>2, <1>6, <3>1, Zenon
  <2> QED
    BY <2>1, <2>2
<1>4. IsDocument(a \o b)
  BY <1>2, <1>3, DocumentIs
<1>5. DOMAIN a = 1..Len(a) /\ Len(a) \in Nat /\ Len(b) \in Nat
  BY DocumentFacts
<1> QED
  BY <1>2, <1>4, <1>5

-----------------------------------------------------------------------------

\* What the workspace and the session consist of, as far as the properties need it.
DocumentTyped ==
    /\ DOMAIN workspace =
          {"id", "games", "selected", "cursor", "revision", "baseline", "dirty"}
    /\ DOMAIN session = {"source", "saved", "revision"}
    /\ workspace.id \in Nat
    /\ IsDocument(workspace.games)

\* The inductive invariant.
DocumentInv == DocumentTyped /\ WorkspaceSound /\ session.source = session.saved

\* Every game has the cursor before its first move.
LEMMA RootValid ==
  ASSUME NEW tree, IsTree(tree)
  PROVE  ValidCursor(tree, Root)
<1>1. <<>> \in Paths(tree) /\ tree[<<>>] \in VariationLines
  BY TreeFacts
<1>2. 0 \in 0..Len(tree[<<>>].moves)
  BY <1>1, LineTypes
<1> QED
  BY <1>1, <1>2, CursorsAre DEF Root

\* The selected game is a tree and the cursor is in it.
LEMMA TreeOfDocument ==
  ASSUME DocumentInv
  PROVE  /\ IsTree(Tree) /\ Here \in Cursors(Tree) /\ ValidCursor(Tree, Here)
         /\ workspace.selected \in DOMAIN workspace.games
         /\ IsGame(workspace.games[workspace.selected])
BY DocumentFacts DEF DocumentInv, DocumentTyped, WorkspaceSound, Tree, Here, ValidCursor

\* The document as it is opened.
LEMMA FirstSound == DocumentAssumption /\ Init => DocumentInv
<1> SUFFICES ASSUME DocumentAssumption, Init PROVE DocumentInv
  OBVIOUS
<1>1. IsDocument(FirstDocument)
  BY DEF DocumentAssumption
<1>2. 1 \in DOMAIN FirstDocument /\ ValidCursor(FirstDocument[1].line, Root)
  BY <1>1, DocumentFacts, RootValid
<1> QED
  BY <1>1, <1>2 DEF Init, DocumentInv, DocumentTyped, WorkspaceSound, Tree

\* Moving the cursor, perhaps to another game, edits nothing.
LEMMA MovesTo ==
  ASSUME DocumentInv, NEW s \in DOMAIN workspace.games, NEW c,
         ValidCursor(workspace.games[s].line, c), MoveCursor(s, c)
  PROVE  DocumentInv' /\ workspace'.games = workspace.games
BY DEF DocumentInv, DocumentTyped, WorkspaceSound, Tree, MoveCursor

\* Moving the cursor in the selected game edits nothing.
LEMMA GoesTo ==
  ASSUME DocumentInv, NEW c, ValidCursor(Tree, c), GoTo(c)
  PROVE  DocumentInv' /\ workspace'.games = workspace.games
BY TreeOfDocument, MovesTo DEF GoTo, Tree

\* Selecting a game edits nothing.
LEMMA SelectsGame ==
  ASSUME DocumentInv, NEW i, SelectGame(i)
  PROVE  DocumentInv' /\ workspace'.games = workspace.games
<1>1. i \in DOMAIN workspace.games /\ MoveCursor(i, Root)
  BY DEF SelectGame
<1>2. ValidCursor(workspace.games[i].line, Root)
  BY <1>1, DocumentFacts, RootValid DEF DocumentInv, DocumentTyped
<1> QED
  BY <1>1, <1>2, MovesTo

-----------------------------------------------------------------------------
(* Navigation, and the commit that every edit ends with                             *)

\* A cursor of a tree: its line and how far it is in it.
LEMMA CursorParts ==
  ASSUME NEW tree, IsTree(tree), NEW c \in Cursors(tree)
  PROVE  /\ c.path \in Paths(tree) /\ c.next \in 0..Len(tree[c.path].moves)
         /\ c = Cursor(c.path, c.next) /\ Len(tree[c.path].moves) \in Nat
         /\ tree[c.path] \in VariationLines
<1>1. PICK p \in Paths(tree) : \E n \in 0..Len(tree[p].moves) : c = Cursor(p, n)
  BY CursorsAre DEF ValidCursor
<1>2. PICK n \in 0..Len(tree[p].moves) : c = Cursor(p, n)
  BY <1>1
<1>3. c.path = p /\ c.next = n
  BY <1>2, CursorFields
<1>4. tree[p] \in VariationLines /\ Len(tree[p].moves) \in Nat
  BY TreeFacts, LineTypes
<1> QED
  BY <1>1, <1>2, <1>3, <1>4, Zenon

\* A cursor within a line is valid.
LEMMA CursorMade ==
  ASSUME NEW tree, NEW p \in Paths(tree), NEW n \in 0..Len(tree[p].moves)
  PROVE  ValidCursor(tree, Cursor(p, n))
BY CursorsAre

\* Wherever the user goes, the cursor is a cursor of the selected game.
LEMMA NavigateKeeps ==
  ASSUME DocumentInv, Navigate
  PROVE  DocumentInv' /\ workspace'.games = workspace.games
<1>1. /\ IsTree(Tree) /\ Here \in Cursors(Tree)
      /\ workspace.selected \in DOMAIN workspace.games
  BY TreeOfDocument
<1>2. /\ Here.path \in Paths(Tree) /\ Here.next \in 0..Len(Tree[Here.path].moves)
      /\ Len(Tree[Here.path].moves) \in Nat /\ Tree[Here.path] \in VariationLines
  BY <1>1, CursorParts
<1>3. CASE NextGame
  BY <1>3, SelectsGame DEF NextGame
<1>4. CASE PreviousGame
  BY <1>4, SelectsGame DEF PreviousGame
<1>5. CASE DocumentStart
  <2>1. 1 \in DOMAIN workspace.games /\ IsTree(workspace.games[1].line)
    BY DocumentFacts DEF DocumentInv, DocumentTyped
  <2>2. ValidCursor(workspace.games[1].line, Root)
    BY <2>1, RootValid
  <2> QED
    BY <1>5, <2>1, <2>2, MovesTo DEF DocumentStart
<1>6. CASE DocumentEnd
  <2> DEFINE k == Len(workspace.games)  last == workspace.games[k].line
  <2>1. k \in DOMAIN workspace.games /\ IsTree(last)
    BY DocumentFacts DEF DocumentInv, DocumentTyped
  <2>2. <<>> \in Paths(last) /\ last[<<>>] \in VariationLines
    BY <2>1, TreeFacts
  <2>3. Len(last[<<>>].moves) \in 0..Len(last[<<>>].moves)
    BY <2>2, LineTypes
  <2>4. ValidCursor(last, Cursor(<<>>, Len(last[<<>>].moves)))
    BY <2>2, <2>3, CursorMade
  <2>5. MoveCursor(k, Cursor(<<>>, Len(last[<<>>].moves)))
    BY <1>6 DEF DocumentEnd, Last
  <2> HIDE DEF k, last
  <2>6. last = workspace.games[k].line
    BY DEF last
  <2> QED
    BY <2>1, <2>4, <2>5, <2>6, MovesTo
<1>7. CASE LineStart
  <2>1. ValidCursor(Tree, Cursor(Here.path, 0))
    BY <1>2, CursorMade
  <2> QED
    BY <1>7, <2>1, GoesTo DEF LineStart
<1>8. CASE LineEnd
  <2>1. ValidCursor(Tree, Cursor(Here.path, Len(Tree[Here.path].moves)))
    BY <1>2, CursorMade
  <2> QED
    BY <1>8, <2>1, GoesTo DEF LineEnd
<1>9. CASE NextMove
  <2>1. Here.next + 1 \in 0..Len(Tree[Here.path].moves)
    BY <1>2, <1>9 DEF NextMove
  <2>2. ValidCursor(Tree, Cursor(Here.path, Here.next + 1))
    BY <1>2, <2>1, CursorMade
  <2> QED
    BY <1>9, <2>2, GoesTo DEF NextMove
<1>10. CASE PreviousMove
  <2>1. Here.next - 1 \in 0..Len(Tree[Here.path].moves)
    BY <1>2, <1>10 DEF PreviousMove
  <2>2. ValidCursor(Tree, Cursor(Here.path, Here.next - 1))
    BY <1>2, <2>1, CursorMade
  <2> QED
    BY <1>10, <2>2, GoesTo DEF PreviousMove
<1>11. CASE EnterVariation
  <2>1. PICK v \in 1..Tree[Here.path].moves[Here.next].vars :
           GoTo(Cursor(Append(Here.path, <<Here.next, v>>), 0))
    BY <1>11 DEF EnterVariation
  <2>2. Here.next \in 1..Len(Tree[Here.path].moves)
    BY <1>2, <1>11 DEF EnterVariation
  <2>3. ValidCursor(Tree, Cursor(Append(Here.path, <<Here.next, v>>), 0))
    <3>1. <<Here.next, v>> \in StepsFrom(Tree[Here.path])
      <4>1. Tree[Here.path].moves[Here.next].vars \in Nat
        BY <1>2, <2>2, LineTypes
      <4>2. <<Here.next, v>> \in Steps
        BY <2>2, <4>1 DEF Steps
      <4> QED
        BY <1>2, <2>2, <4>2, StepsFromIs
    <3>2. Append(Here.path, <<Here.next, v>>) \in Paths(Tree)
      BY <1>1, <1>2, <3>1, TreeFacts
    <3> DEFINE p == Append(Here.path, <<Here.next, v>>)
    <3> HIDE DEF p
    <3>3. p \in Paths(Tree)
      BY <3>2 DEF p
    <3>4. 0 \in 0..Len(Tree[p].moves)
      BY <1>1, <3>3, TreeFacts, LineTypes
    <3>5. ValidCursor(Tree, Cursor(p, 0))
      BY <3>3, <3>4, CursorMade
    <3> QED
      BY <3>5 DEF p
  <2> QED
    BY <2>1, <2>3, GoesTo
<1>12. CASE LeaveVariation
  <2>1. Here.path \in Branches(Tree)
    BY <1>2, <1>12 DEF LeaveVariation, Branches
  <2>2. Parent(Here.path) \in Paths(Tree) /\ Owner(Here.path) \in 0..Len(Tree[Parent(Here.path)].moves)
    BY <1>1, <2>1, BranchFacts
  <2>3. ValidCursor(Tree, AfterOwner(Here.path))
    BY <2>2, CursorMade DEF AfterOwner
  <2> QED
    BY <1>12, <2>3, GoesTo DEF LeaveVariation
<1>13. CASE SiblingVariation
  <2> DEFINE P == Parent(Here.path)  o == Owner(Here.path)
  <2>1. Here.path \in Branches(Tree)
    BY <1>2, <1>13 DEF SiblingVariation, Branches
  <2>2. /\ P \in Paths(Tree) /\ o \in 1..Len(Tree[P].moves)
        /\ OwnerMove(Tree, Here.path) = Tree[P].moves[o] /\ OwnerMove(Tree, Here.path).vars \in Nat
    BY <1>1, <2>1, BranchFacts
  <2>3. PICK v \in 1..OwnerMove(Tree, Here.path).vars : GoTo(Cursor(Append(P, <<o, v>>), 0))
    BY <1>13 DEF SiblingVariation
  <2> HIDE DEF P, o
  <2>4. Append(P, <<o, v>>) \in Paths(Tree)
    <3>1. Tree[P] \in VariationLines
      BY <1>1, <2>2, TreeFacts
    <3>2. v \in Nat /\ o \in Nat /\ <<o, v>> \in Steps
      BY <2>2 DEF Steps
    <3>3. <<o, v>> \in StepsFrom(Tree[P])
      BY <2>2, <3>1, <3>2, StepsFromIs
    <3> QED
      BY <1>1, <2>2, <3>3, TreeFacts
  <2> DEFINE p == Append(P, <<o, v>>)
  <2>5. p \in Paths(Tree)
    BY <2>4
  <2>6. GoTo(Cursor(p, 0))
    BY <2>3
  <2> HIDE DEF p
  <2>7. 0 \in 0..Len(Tree[p].moves)
    BY <1>1, <2>5, TreeFacts, LineTypes
  <2>8. ValidCursor(Tree, Cursor(p, 0))
    BY <2>5, <2>7, CursorMade
  <2> QED
    BY <2>6, <2>8, GoesTo
<1> QED
  BY <1>3, <1>4, <1>5, <1>6, <1>7, <1>8, <1>9, <1>10, <1>11, <1>12, <1>13 DEF Navigate

-----------------------------------------------------------------------------
\* What a committed edit makes of the selected game and the cursor.
Becomes(t, c) == DocumentInv' /\ Tree' = t /\ Here' = c

\* Committing the selected game: it has the new tree and cursor, and the workspace is
\* sound.
LEMMA Commits ==
  ASSUME DocumentInv, NEW game, IsGame(game), NEW c, CommitCurrentGame(game, c)
  PROVE  Becomes(game.line, c)
<1> DEFINE games == [workspace.games EXCEPT ![workspace.selected] = game]
<1>1. /\ workspace.selected \in DOMAIN workspace.games /\ IsDocument(workspace.games)
  BY TreeOfDocument DEF DocumentInv, DocumentTyped
<1>2. /\ IsDocument(games) /\ DOMAIN games = DOMAIN workspace.games
      /\ games[workspace.selected] = game
  BY <1>1, DocumentSet
<1>3. /\ ValidCursor(game.line, c)
      /\ workspace' = [workspace EXCEPT !.games = games, !.cursor = c, !.revision = @ + 1,
                                        !.dirty = games # workspace.baseline]
      /\ UNCHANGED <<session, file, save, seen>>
  BY DEF CommitCurrentGame
<1> HIDE DEF games
<1>4. DOMAIN workspace = {"id", "games", "selected", "cursor", "revision", "baseline", "dirty"}
  BY DEF DocumentInv, DocumentTyped
<1>5. /\ DOMAIN workspace' =
            {"id", "games", "selected", "cursor", "revision", "baseline", "dirty"}
      /\ workspace'.id = workspace.id /\ workspace'.games = games
      /\ workspace'.selected = workspace.selected /\ workspace'.cursor = c
      /\ workspace'.baseline = workspace.baseline
      /\ workspace'.dirty = (games # workspace.baseline)
  BY <1>3, <1>4
<1>6. Tree' = game.line /\ Here' = c
  BY <1>2, <1>5 DEF Tree, Here
<1>7. DocumentTyped'
  BY <1>2, <1>3, <1>5 DEF DocumentInv, DocumentTyped
<1>8. WorkspaceSound' /\ (session.source = session.saved)'
  <2>1. ValidCursor(Tree', workspace'.cursor)
    BY <1>3, <1>5, <1>6
  <2>2. /\ workspace'.selected \in DOMAIN workspace'.games
        /\ workspace'.baseline = session'.saved
        /\ workspace'.dirty = (workspace'.games # session'.saved)
        /\ session'.source = session'.saved
    BY <1>1, <1>2, <1>3, <1>5 DEF DocumentInv, WorkspaceSound
  <2> QED
    BY <2>1, <2>2 DEF WorkspaceSound
<1> QED
  BY <1>6, <1>7, <1>8 DEF Becomes, DocumentInv

\* Committing a new tree of the selected game.
LEMMA TreeCommits ==
  ASSUME DocumentInv, NEW t, IsTree(t), NEW c, CommitCurrentGame(WithLineOf(t), c)
  PROVE  Becomes(t, c)
<1>1. IsGame(workspace.games[workspace.selected])
  BY TreeOfDocument
<1>2. IsGame(WithLineOf(t)) /\ WithLineOf(t).line = t
  BY <1>1 DEF WithLineOf, IsGame
<1> QED
  BY <1>2, Commits

-----------------------------------------------------------------------------
(* The edits of the workspace, one by one                                           *)

\* The user stands where the same moves have been played.
InPlace == Played(Tree', Here') = Played(Tree, Here)

\* No position of the game is lost.
PositionsStay == Positions(Tree) \subseteq Positions(Tree')

\* No comment of the game is lost.
CommentsStay == Comments(Tree) \subseteq Comments(Tree')

\* A deletion of the variation `b', as the properties say it.
Deletion(b) ==
    /\ b \in Branches(Tree) /\ DeletesVariation(b)
    /\ \/ InPlace
       \/ IsPrefix(b, Here.path) /\ Played(Tree', Here') = Played(Tree, AfterOwner(b))
    /\ Positions(Tree) \ PositionsUnder(Tree, b) \subseteq Positions(Tree')

\* An edit of the tree that keeps the cursor's place does so in the workspace.
LEMMA EditMade ==
  ASSUME NEW t, NEW c, Edits(Tree, t, Here, c), Becomes(t, c)
  PROVE  DocumentInv' /\ InPlace /\ PositionsStay
<1>1. /\ DocumentInv' /\ Tree' = t /\ Here' = c
      /\ Played(t, c) = Played(Tree, Here) /\ Positions(Tree) \subseteq Positions(t)
  BY Zenon DEF Becomes, Edits, KeepsPlace
<1> QED
  BY <1>1, Zenon DEF InPlace, PositionsStay

\* Adding a variation to the game on the screen.
LEMMA AddsKeeps ==
  ASSUME DocumentAssumption, DocumentInv, AddsVariation
  PROVE  DocumentInv' /\ InPlace /\ PositionsStay /\ CommentsStay
<1>1. PICK parent \in Paths(Tree) : \E owner \in DOMAIN Tree[parent].moves :
         \E index \in 1..Tree[parent].moves[owner].vars + 1, variation \in Variations :
            AddVariationAt(parent, owner, index, variation)
  BY Zenon DEF AddsVariation
<1>2. PICK owner \in DOMAIN Tree[parent].moves :
         \E index \in 1..Tree[parent].moves[owner].vars + 1, variation \in Variations :
            AddVariationAt(parent, owner, index, variation)
  BY <1>1
<1>3. PICK index \in 1..Tree[parent].moves[owner].vars + 1 : \E variation \in Variations :
            AddVariationAt(parent, owner, index, variation)
  BY <1>2
<1>4. PICK variation \in Variations : AddVariationAt(parent, owner, index, variation)
  BY <1>3
<1> DEFINE t == AddVariation(Tree, parent, owner, index, variation).tree
           c == [Here EXCEPT !.path = ShiftPath(@, parent, owner, index)]
<1>5. IsTree(variation)
  BY DEF DocumentAssumption
<1>6. IsTree(Tree) /\ Here \in Cursors(Tree)
  BY TreeOfDocument
<1>7. Edits(Tree, t, Here, c) /\ Comments(Tree) \subseteq Comments(t)
  BY <1>5, <1>6, AddEdits
<1>8. CommitCurrentGame(WithLineOf(t), c)
  BY <1>4, Zenon DEF AddVariationAt
<1> HIDE DEF t, c
<1>9. Becomes(t, c)
  BY <1>7, <1>8, TreeCommits DEF Edits
<1>10. Tree' = t
  BY <1>9, Zenon DEF Becomes
<1> QED
  BY <1>7, <1>9, <1>10, EditMade, Zenon DEF CommentsStay

\* Moving a variation among its siblings.
LEMMA ReordersKeeps ==
  ASSUME DocumentInv, ReordersVariation
  PROVE  DocumentInv' /\ InPlace /\ PositionsStay /\ CommentsStay
<1>1. PICK path \in Branches(Tree) : \E new \in 1..OwnerMove(Tree, path).vars :
         LET edit == ReorderVariation(Tree, path, new)
         IN  CommitCurrentGame(WithLineOf(edit.tree), CursorRemap(edit, Here))
  BY DEF ReordersVariation
<1>2. PICK new \in 1..OwnerMove(Tree, path).vars :
         LET edit == ReorderVariation(Tree, path, new)
         IN  CommitCurrentGame(WithLineOf(edit.tree), CursorRemap(edit, Here))
  BY <1>1
<1> DEFINE edit == ReorderVariation(Tree, path, new)  t == edit.tree  c == CursorRemap(edit, Here)
<1>3. IsTree(Tree) /\ Here \in Cursors(Tree)
  BY TreeOfDocument
<1>4. Edits(Tree, t, Here, c) /\ Comments(Tree) \subseteq Comments(t)
  BY <1>3, ReorderEdits
<1>5. CommitCurrentGame(WithLineOf(t), c)
  BY <1>2
<1> HIDE DEF edit, t, c
<1>6. Becomes(t, c)
  BY <1>4, <1>5, TreeCommits DEF Edits
<1>7. Tree' = t
  BY <1>6, Zenon DEF Becomes
<1> QED
  BY <1>4, <1>6, <1>7, EditMade, Zenon DEF CommentsStay

\* Promoting a variation.
LEMMA PromotesKeeps ==
  ASSUME DocumentInv, NEW path \in Branches(Tree), PromotesVariation(path)
  PROVE  DocumentInv' /\ InPlace /\ PositionsStay /\ CommentsStay
<1> DEFINE edit == PromoteVariation(Tree, path)  t == edit.tree  c == PromoteRemap(path, edit, Here)
           game == IF Len(path) = 1 THEN [WithLineOf(t) EXCEPT !.result = t[<<>>].result]
                   ELSE WithLineOf(t)
<1>1. Tree[path].moves # <<>> /\ CommitCurrentGame(game, c)
  BY DEF PromotesVariation
<1>2. IsTree(Tree) /\ Here \in Cursors(Tree) /\ IsGame(workspace.games[workspace.selected])
  BY TreeOfDocument
<1>3. Edits(Tree, t, Here, c) /\ Comments(Tree) \subseteq Comments(t)
  BY <1>1, <1>2, PromoteEdits
<1> HIDE DEF edit, t, c
<1>4. IsTree(t)
  BY <1>3, Zenon DEF Edits
<1>5. IsGame(game) /\ game.line = t
  BY <1>2, <1>4 DEF WithLineOf, IsGame
<1> HIDE DEF game
<1>6. Becomes(t, c)
  BY <1>1, <1>5, Commits
<1>7. Tree' = t
  BY <1>6, Zenon DEF Becomes
<1> QED
  BY <1>3, <1>6, <1>7, EditMade, Zenon DEF CommentsStay

\* Deleting a variation.
LEMMA DeletesKeeps ==
  ASSUME DocumentInv, NEW path \in Branches(Tree), DeletesVariation(path)
  PROVE  DocumentInv' /\ Deletion(path)
<1> DEFINE edit == DeleteVariation(Tree, path)  t == edit.tree
           c == IF CursorRemap(edit, Here) = None THEN AfterOwner(path) ELSE CursorRemap(edit, Here)
<1>1. CommitCurrentGame(WithLineOf(t), c)
  BY DEF DeletesVariation
<1>2. IsTree(Tree) /\ Here \in Cursors(Tree)
  BY TreeOfDocument
<1>3. Deletes(Tree, t, path, Here, c)
  BY <1>2, DeleteEdits
<1> HIDE DEF edit, t, c
<1>4. Becomes(t, c)
  BY <1>1, <1>3, TreeCommits DEF Deletes
<1>5. DocumentInv' /\ Tree' = t /\ Here' = c
  BY <1>4, Zenon DEF Becomes
<1>6. /\ Positions(Tree) \ PositionsUnder(Tree, path) \subseteq Positions(t)
      /\ \/ Played(t, c) = Played(Tree, Here)
         \/ IsPrefix(path, Here.path) /\ Played(t, c) = Played(Tree, AfterOwner(path))
  BY <1>3, Zenon DEF Deletes
<1> QED
  BY <1>5, <1>6, Zenon DEF Deletion, InPlace

\* Editing a comment.
LEMMA CommentKeeps ==
  ASSUME DocumentAssumption, DocumentInv, NEW c, NEW note \in Notes, EditComment(c, note)
  PROVE  DocumentInv' /\ InPlace /\ PositionsStay
<1>1. IsTree(Tree) /\ Here \in Cursors(Tree) /\ c = Here /\ note \in Seq(Texts)
  BY TreeOfDocument DEF EditComment, DocumentAssumption
<1>2. /\ Here.path \in Paths(Tree) /\ Here.next \in 0..Len(Tree[Here.path].moves)
      /\ Len(Tree[Here.path].moves) \in Nat
  BY <1>1, CursorParts
<1>3. ASSUME NEW t, Rewrites(Tree, Here.path, t), CommitCurrentGame(WithLineOf(t), Here)
      PROVE  DocumentInv' /\ InPlace /\ PositionsStay
  <2>1. Edits(Tree, t, Here, Here)
    BY <1>1, <1>3, RewriteEdits
  <2>2. Becomes(t, Here)
    BY <1>3, <2>1, TreeCommits DEF Edits
  <2> QED
    BY <2>1, <2>2, EditMade
<1>4. CASE Here.next = 0
  <2> DEFINE t == WithLine(Tree, Here.path, [Tree[Here.path] EXCEPT !.lead = note])
  <2>1. Rewrites(Tree, Here.path, t)
    BY <1>1, <1>2, LeadRewrites
  <2>2. CommitCurrentGame(WithLineOf(t), Here)
    BY <1>1, <1>4 DEF EditComment, EditsLineComment
  <2> HIDE DEF t
  <2> QED
    BY <1>3, <2>1, <2>2
<1>5. CASE Here.next # 0
  <2> DEFINE t == WithLine(Tree, Here.path,
                     [Tree[Here.path] EXCEPT !.moves[Here.next] =
                        [@ EXCEPT !.before = <<>>, !.after = note]])
  <2>0. Here.next \in 1..Len(Tree[Here.path].moves)
    BY <1>2, <1>5
  <2>1. Rewrites(Tree, Here.path, t)
    BY <1>1, <1>2, <2>0, AfterRewrites
  <2>2. CommitCurrentGame(WithLineOf(t), Here)
    BY <1>1, <1>5 DEF EditComment, EditsMoveComment
  <2> HIDE DEF t
  <2> QED
    BY <1>3, <2>1, <2>2
<1> QED
  BY <1>4, <1>5

-----------------------------------------------------------------------------
(* The steps of the specification, and the theorems                                 *)

\* What an edit of the game does, by its kind.
CommentEdit ==
    /\ \E c \in Items(Shown), note \in Notes : EditComment(c, note)
    /\ InPlace /\ PositionsStay

\* What an edit may do to the game: keep everything, rewrite a comment, or delete a
\* variation.
Outcome ==
    \/ InPlace /\ PositionsStay /\ CommentsStay
    \/ CommentEdit
    \/ \E b \in Branches(Tree) : Deletion(b)

\* What every step keeps.
StepKeeps == DocumentInv' /\ (Edited => Outcome)

\* A step that leaves the games alone, or replaces the workspace, is no edit.
LEMMA NotEdited ==
  ASSUME DocumentInv', workspace'.games = workspace.games \/ workspace'.id # workspace.id
  PROVE  StepKeeps
BY DEF StepKeeps, Edited

\* A command from the presentation.
LEMMA CommandKeeps ==
  ASSUME DocumentAssumption, DocumentInv, NEW c \in Items(Shown), Command(c)
  PROVE  StepKeeps
<1>1. CASE SelectItem(c)
  <2>1. ValidCursor(Tree, c) /\ GoTo(c)
    BY <1>1 DEF SelectItem, Target
  <2> QED
    BY <2>1, GoesTo, NotEdited
<1>2. ASSUME c = Here, c.path # <<>>
      PROVE  c.path \in Branches(Tree)
  <2>1. c.path \in Paths(Tree)
    BY <1>2, TreeOfDocument, CursorParts
  <2> QED
    BY <1>2, <2>1 DEF Branches
<1>3. CASE DeleteShown(c)
  <2>1. c.path \in Branches(Tree) /\ DeletesVariation(c.path)
    BY <1>2, <1>3 DEF DeleteShown
  <2>2. DocumentInv' /\ Deletion(c.path)
    BY <2>1, DeletesKeeps
  <2> QED
    BY <2>1, <2>2, Zenon DEF StepKeeps, Outcome
<1>4. CASE PromoteShown(c)
  <2>1. c.path \in Branches(Tree) /\ PromotesVariation(c.path)
    BY <1>2, <1>4 DEF PromoteShown
  <2>2. DocumentInv' /\ InPlace /\ PositionsStay /\ CommentsStay
    BY <2>1, PromotesKeeps
  <2> QED
    BY <2>2, Zenon DEF StepKeeps, Outcome
<1>5. ASSUME NEW note \in Notes, EditComment(c, note)
      PROVE  StepKeeps
  <2>1. DocumentInv' /\ InPlace /\ PositionsStay
    BY <1>5, CommentKeeps
  <2> QED
    BY <1>5, <2>1, Zenon DEF StepKeeps, Outcome, CommentEdit
<1> QED
  BY <1>1, <1>3, <1>4, <1>5 DEF Command

\* Replacing the document by one with the same selected game.
LEMMA Replaces ==
  ASSUME DocumentInv, NEW games, IsDocument(games), ReplaceDocument(games),
         workspace.selected \in DOMAIN games, games[workspace.selected].line = Tree
  PROVE  StepKeeps
<1>1. /\ DOMAIN workspace =
           {"id", "games", "selected", "cursor", "revision", "baseline", "dirty"}
      /\ DOMAIN session = {"source", "saved", "revision"} /\ workspace.id \in Nat
      /\ session.source = session.saved /\ ValidCursor(Tree, workspace.cursor)
  BY DEF DocumentInv, DocumentTyped, WorkspaceSound
<1>2. /\ workspace' = [workspace EXCEPT !.id = @ + 1, !.games = games, !.revision = 0,
                                       !.baseline = session.saved, !.dirty = games # session.saved]
      /\ session' = [session EXCEPT !.revision = @ + 1]
  BY DEF ReplaceDocument
<1>3. /\ DOMAIN workspace' =
           {"id", "games", "selected", "cursor", "revision", "baseline", "dirty"}
      /\ workspace'.id = workspace.id + 1 /\ workspace'.games = games
      /\ workspace'.selected = workspace.selected /\ workspace'.cursor = workspace.cursor
      /\ workspace'.baseline = session.saved /\ workspace'.dirty = (games # session.saved)
  BY <1>1, <1>2
<1>4. /\ DOMAIN session' = {"source", "saved", "revision"}
      /\ session'.source = session.source /\ session'.saved = session.saved
  BY <1>1, <1>2
<1>5. Tree' = Tree
  BY <1>3 DEF Tree
<1>6. DocumentTyped'
  BY <1>1, <1>3, <1>4 DEF DocumentTyped
<1>7. WorkspaceSound'
  BY <1>1, <1>3, <1>4, <1>5 DEF WorkspaceSound
<1>8. DocumentInv'
  BY <1>1, <1>4, <1>6, <1>7 DEF DocumentInv
<1>9. workspace'.id # workspace.id
  BY <1>1, <1>3
<1> QED
  BY <1>8, <1>9, NotEdited

\* Appending pasted games.
LEMMA AppendKeeps ==
  ASSUME DocumentAssumption, DocumentInv, AppendText
  PROVE  StepKeeps
<1>1. PICK games \in Imported : ReplaceDocument(workspace.games \o games)
  BY DEF AppendText
<1>2. IsDocument(games) /\ IsDocument(workspace.games) /\ workspace.selected \in DOMAIN workspace.games
  BY TreeOfDocument DEF DocumentAssumption, DocumentInv, DocumentTyped
<1> DEFINE all == workspace.games \o games
<1>3. /\ IsDocument(all) /\ workspace.selected \in DOMAIN all
      /\ all[workspace.selected] = workspace.games[workspace.selected]
  BY <1>2, DocumentJoined
<1>4. ReplaceDocument(all)
  BY <1>1
<1> HIDE DEF all
<1>5. all[workspace.selected].line = Tree
  BY <1>3 DEF Tree
<1> QED
  BY <1>3, <1>4, <1>5, Replaces

\* Editing a header tag.
LEMMA TagKeeps ==
  ASSUME DocumentInv, NEW tag \in Tags, EditTag(tag)
  PROVE  StepKeeps
<1> DEFINE s == workspace.selected  g == [workspace.games[s] EXCEPT !.tag = tag]
           games == [workspace.games EXCEPT ![s] = g]
<1>1. IsGame(workspace.games[s]) /\ s \in DOMAIN workspace.games /\ IsDocument(workspace.games)
  BY TreeOfDocument DEF DocumentInv, DocumentTyped
<1>2. IsGame(g) /\ g.line = Tree
  BY <1>1 DEF IsGame, Tree
<1>3. ReplaceDocument([workspace.games EXCEPT ![s].tag = tag])
  BY DEF EditTag
<1>4. ReplaceDocument(games)
  BY <1>1, <1>3
<1> HIDE DEF g
<1>5. IsDocument(games) /\ s \in DOMAIN games /\ games[s] = g
  BY <1>1, <1>2, DocumentSet
<1> HIDE DEF games
<1> QED
  BY <1>2, <1>4, <1>5, Replaces

\* A Save that is accepted changes no game.
LEMMA MarkSavedKeeps ==
  ASSUME DocumentInv, NEW games, MarkSaved(games, games)
  PROVE  DocumentInv' /\ workspace'.games = workspace.games
<1>1. /\ DOMAIN workspace' = DOMAIN workspace
      /\ workspace'.id = workspace.id /\ workspace'.games = workspace.games
      /\ workspace'.selected = workspace.selected /\ workspace'.cursor = workspace.cursor
      /\ workspace'.baseline = games /\ workspace'.dirty = (workspace.games # games)
  BY DEF MarkSaved, DocumentInv, DocumentTyped
<1>2. /\ DOMAIN session' = {"source", "saved", "revision"}
      /\ session'.source = games /\ session'.saved = games
  BY DEF MarkSaved
<1>3. Tree' = Tree
  BY <1>1 DEF Tree
<1>4. DocumentTyped'
  BY <1>1, <1>2 DEF DocumentInv, DocumentTyped
<1>5. WorkspaceSound'
  BY <1>1, <1>2, <1>3 DEF DocumentInv, WorkspaceSound
<1> QED
  BY <1>1, <1>2, <1>4, <1>5 DEF DocumentInv

\* A step that changes neither the workspace nor what the session knows, nor
\* puts another content in the file.
LEMMA SameWorkspace ==
  ASSUME DocumentInv, UNCHANGED <<workspace, session>>
  PROVE  StepKeeps
<1>1. Tree' = Tree
  BY DEF Tree
<1>2. DocumentTyped'
  BY DEF DocumentInv, DocumentTyped
<1>3. WorkspaceSound'
  BY <1>1 DEF DocumentInv, WorkspaceSound
<1> QED
  BY <1>2, <1>3, NotEdited DEF DocumentInv

\* Every step keeps the invariant, and every edit of the game has its outcome.
LEMMA StepSound ==
  ASSUME DocumentAssumption, DocumentInv, [Next]_vars
  PROVE  StepKeeps
<1>1. CASE UNCHANGED vars
  BY <1>1, SameWorkspace DEF vars
<1>2. CASE Present \/ PublishSave \/ SaveFails \/ CaptureSave
  BY <1>2, SameWorkspace DEF Present, PublishSave, SaveFails, CaptureSave
<1>3. CASE Navigate
  BY <1>3, NavigateKeeps, NotEdited
<1>4. CASE AddsVariation
  BY <1>4, AddsKeeps, Zenon DEF StepKeeps, Outcome
<1>5. CASE ReordersVariation
  BY <1>5, ReordersKeeps, Zenon DEF StepKeeps, Outcome
<1>6. ASSUME NEW path \in Branches(Tree), DeletesVariation(path)
      PROVE  StepKeeps
  <2>1. DocumentInv' /\ Deletion(path)
    BY <1>6, DeletesKeeps
  <2> QED
    BY <2>1, Zenon DEF StepKeeps, Outcome
<1>7. ASSUME NEW path \in Branches(Tree), PromotesVariation(path)
      PROVE  StepKeeps
  <2>1. DocumentInv' /\ InPlace /\ PositionsStay /\ CommentsStay
    BY <1>7, PromotesKeeps
  <2> QED
    BY <2>1, Zenon DEF StepKeeps, Outcome
<1>8. ASSUME NEW c \in Items(Shown), Command(c)
      PROVE  StepKeeps
  BY <1>8, CommandKeeps
<1>9. CASE AppendText
  BY <1>9, AppendKeeps
<1>10. ASSUME NEW tag \in Tags, EditTag(tag)
       PROVE  StepKeeps
  BY <1>10, TagKeeps
<1>11. CASE SaveNow
  BY <1>11, MarkSavedKeeps, NotEdited DEF SaveNow
<1>12. CASE CommitSave
  <2>1. CASE MarkSaved(save.games, Checkpoint)
    BY <2>1, MarkSavedKeeps, NotEdited DEF Checkpoint
  <2>2. CASE UNCHANGED <<workspace, session>>
    BY <2>2, SameWorkspace
  <2> QED
    BY <1>12, <2>1, <2>2 DEF CommitSave
<1> QED
  BY <1>1, <1>2, <1>3, <1>4, <1>5, <1>6, <1>7, <1>8, <1>9, <1>10, <1>11, <1>12 DEF Next

\* Each outcome keeps the place of the cursor, as EditKeepsThePlace states it.
LEMMA OutcomeKeepsPlace ==
  ASSUME Outcome
  PROVE  \/ Played(Tree', Here') = Played(Tree, Here)
         \/ \E b \in Branches(Tree) :
               /\ DeletesVariation(b)
               /\ IsPrefix(b, Here.path)
               /\ Played(Tree', Here') = Played(Tree, AfterOwner(b))
BY Zenon DEF Outcome, CommentEdit, Deletion, InPlace

\* Each outcome loses only what EditsLoseNothing lets it lose.
LEMMA OutcomeLosesNothing ==
  ASSUME Outcome
  PROVE  \/ /\ Positions(Tree) \subseteq Positions(Tree')
            /\ \/ Comments(Tree) \subseteq Comments(Tree')
               \/ \E c \in Items(Shown), note \in Notes : EditComment(c, note)
         \/ \E b \in Branches(Tree) :
               /\ DeletesVariation(b)
               /\ Positions(Tree) \ PositionsUnder(Tree, b) \subseteq Positions(Tree')
BY Zenon DEF Outcome, CommentEdit, Deletion, PositionsStay, CommentsStay

-----------------------------------------------------------------------------
\* The strengthening holds of every behaviour.
LEMMA DocumentSound == Spec => []DocumentInv
<1>1. Init => DocumentInv
  BY DocumentAssumption, FirstSound
<1>2. DocumentInv /\ [Next]_vars => DocumentInv'
  BY DocumentAssumption, StepSound DEF StepKeeps
<1> QED
  BY <1>1, <1>2, PTL DEF Spec

\* In every behaviour the cursor names a place of the selected game, the workspace
\* and the session agree on what was saved, and a document that is not dirty is what
\* the file holds if the file is the one the session knows.
THEOREM WorkspaceIsSound == Spec => []WorkspaceSound
<1>1. DocumentInv => WorkspaceSound
  BY DEF DocumentInv
<1> QED
  BY <1>1, DocumentSound, PTL

\* Every edit of every game leaves the user where the same moves were played.
THEOREM EveryEditKeepsThePlace == Spec => EditKeepsThePlace
<1>1. DocumentInv /\ [Next]_vars =>
        [Edited =>
          \/ Played(Tree', Here') = Played(Tree, Here)
          \/ \E b \in Branches(Tree) :
                /\ DeletesVariation(b)
                /\ IsPrefix(b, Here.path)
                /\ Played(Tree', Here') = Played(Tree, AfterOwner(b))]_vars
  BY DocumentAssumption, StepSound, OutcomeKeepsPlace, Zenon DEF StepKeeps
<1> QED
  BY <1>1, DocumentSound, PTL DEF Spec, EditKeepsThePlace

\* No edit of any game loses a position or a comment it does not say it removes.
THEOREM EveryEditLosesNothing == Spec => EditsLoseNothing
<1>1. DocumentInv /\ [Next]_vars =>
        [Edited =>
          \/ /\ Positions(Tree) \subseteq Positions(Tree')
             /\ \/ Comments(Tree) \subseteq Comments(Tree')
                \/ \E c \in Items(Shown), note \in Notes : EditComment(c, note)
          \/ \E b \in Branches(Tree) :
                /\ DeletesVariation(b)
                /\ Positions(Tree) \ PositionsUnder(Tree, b) \subseteq Positions(Tree')]_vars
  BY DocumentAssumption, StepSound, OutcomeLosesNothing, Zenon DEF StepKeeps
<1> QED
  BY <1>1, DocumentSound, PTL DEF Spec, EditsLoseNothing

\* No command acts on a game that is not the one its view showed.
THEOREM CommandsActOnTheShownGame == Spec => CommandsActOnWhatWasShown
<1>1. Shown # Unnumbered(Tree) => \A c \in Items(Shown) : ~Command(c)
  <2> SUFFICES ASSUME NEW c \in Items(Shown), Command(c)
               PROVE  Shown = Unnumbered(Tree)
    OBVIOUS
  <2>1. Target(c)
    BY DEF Command, SelectItem, DeleteShown, PromoteShown, EditComment
  <2> QED
    BY <2>1 DEF Target, Shown, Record, Tree
<1> QED
  BY <1>1, PTL DEF Spec, CommandsActOnWhatWasShown

=============================================================================
