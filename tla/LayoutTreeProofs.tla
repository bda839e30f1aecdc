-------------------------- MODULE LayoutTreeProofs --------------------------
(***************************************************************************)
(* What the layout algorithms compute, for every tree a tab can have       *)
(* (tabs.go, app.js): the leaves, the joints and the shape of what         *)
(* SplitLayoutNode, RemoveLayoutNode, RenameLayoutNode, AdjustRatio and    *)
(* the page's own splice, close, replace and drag return, and that the     *)
(* page rebuilds from a tree exactly the layout that the tree describes.   *)
(*                                                                         *)
(* A tree is taken apart by the number of its levels (Level[n]); its       *)
(* splits are named by their joints: the direction, the ratio and the      *)
(* sessions on either side.  Trees of distinct sessions with the same      *)
(* joints are equal, which is what the synchronisation of a page with the  *)
(* server rests on (LayoutSyncProofs).                                     *)
(***************************************************************************)
EXTENDS LayoutTree, SequenceTheorems, FiniteSetTheorems, WellFoundedInduction, NaturalsInduction, TLAPS

-----------------------------------------------------------------------------
(* Induction *)

\* The order of the naturals, well-founded.
Precedes == {p \in Nat \X Nat : p[1] < p[2]}

\* A set of naturals has a least element.
LEMMA LeastNatural ==
  ASSUME NEW T, T \subseteq Nat, T # {}
  PROVE \E x \in T : \A y \in T : x <= y
<1>1. IsWellFoundedOn(Precedes, Nat)
  BY NatLessThanWellFounded DEF OpToRel, Precedes
<1>2. PICK x \in T : \A y \in T : ~ (<<y, x>> \in Precedes)
  BY <1>1, WFMin
<1>3. ASSUME NEW y \in T PROVE x <= y
  <2>1. x \in Nat /\ y \in Nat
    OBVIOUS
  <2>2. y < x => <<y, x>> \in Precedes
    BY <2>1 DEF Precedes
  <2>3. QED
    BY <1>2, <2>1, <2>2
<1>4. QED
  BY <1>3

\* A set that has 0 and the successor of each of its naturals has them all.
LEMMA Induction ==
  ASSUME NEW T, 0 \in T, \A n \in Nat : n \in T => n + 1 \in T
  PROVE Nat \subseteq T
<1> SUFFICES ASSUME Nat \ T # {} PROVE FALSE
  OBVIOUS
<1>1. PICK x \in Nat \ T : \A y \in Nat \ T : x <= y
  BY LeastNatural
<1>2. x - 1 \in Nat /\ x - 1 \notin Nat \ T
  BY <1>1
<1>3. QED
  BY <1>1, <1>2

\* The trees whose splits have their parts in a set.
TreesOver(parts) ==
  [type : {"pane"}, session : Sessions]
    \cup [type : {"split"}, direction : Directions, ratio : Ratios \cup {Half}, first : parts, second : parts]

\* The levels up to n.
Approx(g, n) == g = [i \in 0 .. n |-> TreesOver(IF i = 0 THEN {} ELSE g[i - 1])]

\* The levels up to n can be computed.
LEMMA ApproxExists ==
  ASSUME NEW n \in Nat PROVE \E g : Approx(g, n)
<1> DEFINE T == {m \in Nat : \E g : Approx(g, m)}
<1>1. 0 \in T
  <2>1. Approx([i \in 0 .. 0 |-> TreesOver({})], 0)
    BY DEF Approx
  <2>2. QED
    BY <2>1
<1>2. ASSUME NEW m \in Nat, m \in T PROVE m + 1 \in T
  <2>1. PICK g : Approx(g, m)
    BY <1>2
  <2> DEFINE h == [i \in 0 .. m + 1 |-> IF i = m + 1 THEN TreesOver(g[m]) ELSE g[i]]
             e == [i \in 0 .. m + 1 |-> TreesOver(IF i = 0 THEN {} ELSE h[i - 1])]
  <2>2. ASSUME NEW i \in 0 .. m + 1 PROVE h[i] = TreesOver(IF i = 0 THEN {} ELSE h[i - 1])
    <3>1. CASE i = m + 1
      <4>1. h[i] = TreesOver(g[m]) /\ h[i - 1] = g[m]
        BY <3>1
      <4>2. QED
        BY <4>1, <3>1
    <3>2. CASE i \in 0 .. m
      <4>1. h[i] = g[i] /\ (i # 0 => h[i - 1] = g[i - 1])
        BY <3>2
      <4>2. g[i] = TreesOver(IF i = 0 THEN {} ELSE g[i - 1])
        BY <2>1, <3>2 DEF Approx
      <4>3. CASE i = 0
        BY <4>1, <4>2, <4>3
      <4>4. CASE i # 0
        BY <4>1, <4>2, <4>4
      <4>5. QED
        BY <4>3, <4>4
    <3>3. QED
      BY <3>1, <3>2
  <2>3. h = [i \in 0 .. m + 1 |-> h[i]]
    OBVIOUS
  <2> HIDE DEF h
  <2>4. h = e
    BY <2>2, <2>3
  <2>5. Approx(h, m + 1)
    BY <2>4 DEF Approx
  <2>6. QED
    BY <2>5
<1> HIDE DEF T
<1>3. n \in T
  BY <1>1, <1>2, Induction
<1>4. QED
  BY <1>3 DEF T

\* Each level from the one before.
LEMMA ApproxValue ==
  ASSUME NEW n \in Nat, NEW g, Approx(g, n), NEW i \in 0 .. n
  PROVE g[i] = TreesOver(IF i = 0 THEN {} ELSE g[i - 1])
BY DEF Approx

\* Two computations of the levels agree where both reach.
LEMMA ApproxAgrees ==
  ASSUME NEW n \in Nat, NEW m \in Nat, NEW g, NEW h, Approx(g, n), Approx(h, m), NEW i \in Nat, i <= n, i <= m
  PROVE g[i] = h[i]
<1> DEFINE T == {j \in Nat : j <= n /\ j <= m => g[j] = h[j]}
<1>1. 0 \in T
  <2>1. 0 \in 0 .. n /\ 0 \in 0 .. m
    OBVIOUS
  <2>2. g[0] = TreesOver({}) /\ h[0] = TreesOver({})
    BY <2>1, ApproxValue
  <2>3. QED
    BY <2>2
<1>2. ASSUME NEW j \in Nat, j \in T PROVE j + 1 \in T
  <2> SUFFICES ASSUME j + 1 <= n, j + 1 <= m PROVE g[j + 1] = h[j + 1]
    OBVIOUS
  <2>1. j + 1 \in 0 .. n /\ j + 1 \in 0 .. m /\ (j + 1) - 1 = j /\ j + 1 # 0
    OBVIOUS
  <2>2. g[j + 1] = TreesOver(g[j]) /\ h[j + 1] = TreesOver(h[j])
    BY <2>1, ApproxValue
  <2>3. QED
    BY <2>2, <1>2
<1> HIDE DEF T
<1>3. i \in T
  BY <1>1, <1>2, Induction
<1>4. QED
  BY <1>3 DEF T

\* The recursion of Level, unfolded.
LEMMA LevelEquation ==
  ASSUME NEW n \in Nat PROVE Level[n] = TreesOver(IF n = 0 THEN {} ELSE Level[n - 1])
<1> DEFINE up2(m) == CHOOSE g : Approx(g, m)
           F == [m \in Nat |-> up2(m)[m]]
           E == [m \in Nat |-> TreesOver(IF m = 0 THEN {} ELSE F[m - 1])]
<1>1. \A m \in Nat : Approx(up2(m), m)
  BY ApproxExists
<1> HIDE DEF up2
<1>2. ASSUME NEW m \in Nat PROVE F[m] = TreesOver(IF m = 0 THEN {} ELSE F[m - 1])
  <2>1. F[m] = up2(m)[m]
    OBVIOUS
  <2>2. up2(m)[m] = TreesOver(IF m = 0 THEN {} ELSE up2(m)[m - 1])
    BY <1>1, ApproxValue
  <2>3. CASE m = 0
    BY <2>1, <2>2, <2>3
  <2>4. CASE m # 0
    <3>1. m - 1 \in Nat /\ m - 1 <= m
      BY <2>4
    <3>2. up2(m)[m - 1] = up2(m - 1)[m - 1]
      BY <1>1, <3>1, ApproxAgrees
    <3>3. F[m - 1] = up2(m - 1)[m - 1]
      BY <3>1
    <3>4. QED
      BY <2>1, <2>2, <2>4, <3>2, <3>3
  <2>5. QED
    BY <2>3, <2>4
<1>3. F = [m \in Nat |-> F[m]]
  OBVIOUS
<1> HIDE DEF F
<1>4. F = E
  BY <1>2, <1>3
<1>5. \E f : f = [m \in Nat |-> TreesOver(IF m = 0 THEN {} ELSE f[m - 1])]
  BY <1>4
<1>6. Level = [m \in Nat |-> TreesOver(IF m = 0 THEN {} ELSE Level[m - 1])]
  BY <1>5 DEF Level, TreesOver
<1>7. QED
  BY <1>6

-----------------------------------------------------------------------------
(* The set of trees *)

\* A tree that is one pane.
IsPaneTree(t) == t.type = "pane" /\ t.session \in Sessions /\ t = Pane(t.session)
IsSplitTree(t) ==
  /\ t.type = "split" /\ t.direction \in Directions /\ t.ratio \in Ratios \cup {Half}
  /\ t = Split(t.direction, t.ratio, t.first, t.second)

\* A tree of n levels is a pane, or a split of two trees of n - 1 levels.
LEMMA LevelCases ==
  ASSUME NEW n \in Nat, NEW t \in Level[n]
  PROVE IsPaneTree(t) \/ (IsSplitTree(t) /\ n # 0 /\ t.first \in Level[n - 1] /\ t.second \in Level[n - 1])
<1>1. t \in TreesOver(IF n = 0 THEN {} ELSE Level[n - 1])
  BY LevelEquation
<1>2. QED
  BY <1>1 DEF TreesOver, IsPaneTree, IsSplitTree, Pane, Split

\* A pane is a tree of every number of levels.
LEMMA PaneLevel ==
  ASSUME NEW n \in Nat, NEW s \in Sessions PROVE Pane(s) \in Level[n]
BY LevelEquation DEF TreesOver, Pane

\* A split is one level higher than its parts.
LEMMA SplitLevel ==
  ASSUME NEW n \in Nat, NEW a \in Level[n], NEW b \in Level[n], NEW d \in Directions, NEW r \in Ratios \cup {Half}
  PROVE Split(d, r, a, b) \in Level[n + 1]
<1>1. Level[n + 1] = TreesOver(Level[n])
  <2>1. n + 1 \in Nat /\ n + 1 # 0 /\ (n + 1) - 1 = n
    OBVIOUS
  <2>2. QED
    BY <2>1, LevelEquation
<1>2. QED
  BY <1>1 DEF TreesOver, Split

\* A tree of n levels is one of n + 1.
LEMMA LevelGrows ==
  ASSUME NEW n \in Nat PROVE Level[n] \subseteq Level[n + 1]
<1> DEFINE T == {m \in Nat : Level[m] \subseteq Level[m + 1]}
<1>1. 0 \in T
  <2>1. \A t \in Level[0] : IsPaneTree(t)
    BY LevelCases
  <2>2. \A t \in Level[0] : t \in Level[0 + 1]
    BY <2>1, PaneLevel DEF IsPaneTree
  <2>3. QED
    BY <2>2
<1>2. ASSUME NEW m \in Nat, m \in T PROVE m + 1 \in T
  <2>1. ASSUME NEW t \in Level[m + 1] PROVE t \in Level[(m + 1) + 1]
    <3>1. CASE IsPaneTree(t)
      BY <3>1, PaneLevel DEF IsPaneTree
    <3>2. CASE ~IsPaneTree(t)
      <4>1. IsSplitTree(t) /\ t.first \in Level[(m + 1) - 1] /\ t.second \in Level[(m + 1) - 1]
        BY <3>2, LevelCases
      <4>2. t.first \in Level[m + 1] /\ t.second \in Level[m + 1]
        BY <4>1, <1>2
      <4>3. QED
        BY <4>1, <4>2, SplitLevel DEF IsSplitTree
    <3>3. QED
      BY <3>1, <3>2
  <2>2. QED
    BY <2>1
<1> HIDE DEF T
<1>3. n \in T
  BY <1>1, <1>2, Induction
<1>4. QED
  BY <1>3 DEF T

\* A tree of n levels is one of any larger number.
LEMMA LevelsGrow ==
  ASSUME NEW n \in Nat, NEW m \in Nat, n <= m PROVE Level[n] \subseteq Level[m]
<1> DEFINE T == {k \in Nat : Level[n] \subseteq Level[n + k]}
<1>1. 0 \in T
  OBVIOUS
<1>2. ASSUME NEW k \in Nat, k \in T PROVE k + 1 \in T
  <2>1. n + k \in Nat /\ (n + k) + 1 = n + (k + 1)
    OBVIOUS
  <2>2. Level[n + k] \subseteq Level[(n + k) + 1]
    BY <2>1, LevelGrows
  <2>3. QED
    BY <1>2, <2>1, <2>2
<1> HIDE DEF T
<1>3. m - n \in T
  BY <1>1, <1>2, Induction
<1>4. n + (m - n) = m
  OBVIOUS
<1>5. QED
  BY <1>3, <1>4 DEF T

\* MaxSessions, as the proofs use it.
LEMMA MaxSessionsNat == MaxSessions \in Nat /\ MaxSessions # 0
BY TreeAssumption

\* A layout is a pane, or a split of two layouts.
LEMMA TreeCases ==
  ASSUME NEW t \in Layouts
  PROVE \/ IsPaneTree(t)
        \/ IsSplitTree(t) /\ t.first \in Layouts /\ t.second \in Layouts
<1>1. CASE IsPaneTree(t)
  BY <1>1
<1>2. CASE ~IsPaneTree(t)
  <2>1. IsSplitTree(t) /\ t.first \in Level[MaxSessions - 1] /\ t.second \in Level[MaxSessions - 1]
    BY <1>2, LevelCases, MaxSessionsNat DEF Layouts
  <2>2. MaxSessions - 1 \in Nat /\ MaxSessions - 1 <= MaxSessions
    BY MaxSessionsNat
  <2>3. Level[MaxSessions - 1] \subseteq Layouts
    BY <2>2, MaxSessionsNat, LevelsGrow DEF Layouts
  <2>4. QED
    BY <2>1, <2>3
<1>3. QED
  BY <1>1, <1>2

\* A pane is a layout.
LEMMA PaneIsTree ==
  ASSUME NEW s \in Sessions PROVE Pane(s) \in Layouts /\ IsPaneTree(Pane(s))
BY PaneLevel, MaxSessionsNat DEF Layouts, IsPaneTree, Pane

\* Trees of at most MaxSessions levels are layouts.
LEMMA LevelIsLayout ==
  ASSUME NEW n \in Nat, n <= MaxSessions PROVE Level[n] \subseteq Layouts
BY LevelsGrow, MaxSessionsNat DEF Layouts

\* A set that has every pane, and every tree whose parts it has, has them all.
LEMMA TreeInduction ==
  ASSUME NEW S,
         \A t \in Layouts : IsPaneTree(t) => t \in S,
         \A t \in Layouts : IsSplitTree(t) /\ t.first \in Layouts /\ t.second \in Layouts /\ t.first \in S /\ t.second \in S => t \in S
  PROVE Layouts \subseteq S
<1> DEFINE T == {n \in Nat : n <= MaxSessions => Level[n] \subseteq S}
<1>1. 0 \in T
  <2>1. \A t \in Level[0] : IsPaneTree(t)
    BY LevelCases
  <2>2. Level[0] \subseteq Layouts
    BY LevelIsLayout, MaxSessionsNat
  <2>3. QED
    BY <2>1, <2>2
<1>2. ASSUME NEW n \in Nat, n \in T PROVE n + 1 \in T
  <2> SUFFICES ASSUME n + 1 <= MaxSessions, NEW t \in Level[n + 1] PROVE t \in S
    OBVIOUS
  <2>1. n <= MaxSessions /\ Level[n] \subseteq S
    BY <1>2, MaxSessionsNat
  <2>2. t \in Layouts /\ Level[n] \subseteq Layouts
    BY <2>1, LevelIsLayout
  <2>3. IsPaneTree(t) \/ (IsSplitTree(t) /\ t.first \in Level[(n + 1) - 1] /\ t.second \in Level[(n + 1) - 1])
    BY LevelCases
  <2>4. (n + 1) - 1 = n
    OBVIOUS
  <2>5. QED
    BY <2>1, <2>2, <2>3, <2>4
<1> HIDE DEF T
<1>3. MaxSessions \in T
  BY <1>1, <1>2, Induction, MaxSessionsNat
<1>4. QED
  BY <1>3, MaxSessionsNat DEF T, Layouts

\* The value of a tree, from the values of its parts.
FoldsTo(f, V, A, B) ==
  /\ f \in [Layouts -> V]
  /\ \A t \in Layouts : f[t] = IF t.type = "pane" THEN A[t] ELSE B[<<t, f[t.first], f[t.second]>>]

\* The layouts that are splits, and those that are panes.
SplitTrees == {t \in Layouts : t.type = "split"}
PaneTrees == {t \in Layouts : t.type = "pane"}

\* A function may be defined by recursion over the layouts.
LEMMA TreeRecursion ==
  ASSUME NEW V, NEW A \in [PaneTrees -> V], NEW B \in [SplitTrees \X V \X V -> V]
  PROVE \E f : FoldsTo(f, V, A, B)
<1> DEFINE Good(f, n) ==
             /\ f \in [Level[n] -> V]
             /\ \A t \in Level[n] : f[t] = IF t.type = "pane" THEN A[t] ELSE B[<<t, f[t.first], f[t.second]>>]
           T == {n \in Nat : n <= MaxSessions => \E f : Good(f, n)}
<1>1. 0 \in T
  <2> DEFINE f == [t \in Level[0] |-> A[t]]
  <2>1. \A t \in Level[0] : t \in PaneTrees
    BY LevelCases, LevelIsLayout, MaxSessionsNat, SMTT(30) DEF PaneTrees, IsPaneTree
  <2>2. Good(f, 0)
    BY <2>1 DEF PaneTrees
  <2>3. QED
    BY <2>2
<1>2. ASSUME NEW n \in Nat, n \in T PROVE n + 1 \in T
  <2> SUFFICES ASSUME n + 1 <= MaxSessions PROVE \E f : Good(f, n + 1)
    OBVIOUS
  <2>1. n <= MaxSessions
    BY MaxSessionsNat
  <2>2. PICK f : Good(f, n)
    BY <1>2, <2>1
  <2> DEFINE g == [t \in Level[n + 1] |-> IF t.type = "pane" THEN A[t] ELSE B[<<t, f[t.first], f[t.second]>>]]
  <2>3. Level[n + 1] \subseteq Layouts /\ Level[n] \subseteq Level[n + 1]
    BY LevelIsLayout, LevelGrows
  <2>4. \A t \in Level[n + 1] : \/ t \in PaneTrees /\ t.type = "pane"
                                \/ t \in SplitTrees /\ t.type # "pane" /\ t.first \in Level[n] /\ t.second \in Level[n]
    <3>1. (n + 1) - 1 = n
      OBVIOUS
    <3>2. QED
      BY <3>1, <2>3, LevelCases DEF PaneTrees, SplitTrees, IsPaneTree, IsSplitTree
  <2>5. \A t \in Level[n + 1] : g[t] \in V
    <3> SUFFICES ASSUME NEW t \in Level[n + 1] PROVE g[t] \in V
      OBVIOUS
    <3>1. CASE t \in PaneTrees /\ t.type = "pane"
      BY <3>1
    <3>2. CASE t \in SplitTrees /\ t.type # "pane" /\ t.first \in Level[n] /\ t.second \in Level[n]
      <4>1. f[t.first] \in V /\ f[t.second] \in V
        BY <2>2, <3>2
      <4>2. QED
        BY <4>1, <3>2
    <3>3. QED
      BY <2>4, <3>1, <3>2
  <2>6. \A t \in Level[n] : g[t] = f[t]
    BY <2>2, <2>3
  <2>7. \A t \in Level[n + 1] : g[t] = IF t.type = "pane" THEN A[t] ELSE B[<<t, g[t.first], g[t.second]>>]
    BY <2>4, <2>6
  <2>8. g \in [Level[n + 1] -> V]
    BY <2>5
  <2> HIDE DEF g
  <2>9. QED
    BY <2>7, <2>8
<1> HIDE DEF T
<1>3. MaxSessions \in T
  BY <1>1, <1>2, Induction, MaxSessionsNat
<1>4. QED
  BY <1>3, MaxSessionsNat DEF T, FoldsTo, Layouts

-----------------------------------------------------------------------------
(* The recursive functions of tabs.go, unfolded *)

\* Trees of any number of levels: what a function that nests its argument
\* stays in.
Trees == UNION {Level[n] : n \in Nat}

IsSplitTreeOf(t) == IsSplitTree(t) /\ t.first \in Layouts /\ t.second \in Layouts

\* The parts of a split are layouts.
LEMMA SplitParts ==
  ASSUME NEW t \in SplitTrees PROVE IsSplitTreeOf(t)
BY TreeCases DEF SplitTrees, IsSplitTreeOf, IsPaneTree

\* The recursion of SessionIDs, unfolded.
LEMMA SessionIDsEquation ==
  ASSUME NEW t \in Layouts
  PROVE SessionIDs(t) = IF t.type = "pane" THEN <<t.session>> ELSE SessionIDs(t.first) \o SessionIDs(t.second)
<1> DEFINE V == Seq(Sessions)
           A == [u \in PaneTrees |-> <<u.session>>]
           B == [x \in SplitTrees \X V \X V |-> x[2] \o x[3]]
           ids[u \in Layouts] == IF u.type = "pane" THEN <<u.session>> ELSE ids[u.first] \o ids[u.second]
<1>1. A \in [PaneTrees -> V]
  BY TreeCases DEF PaneTrees, IsPaneTree, IsSplitTree
<1>2. B \in [SplitTrees \X V \X V -> V]
  OBVIOUS
<1>3. PICK f : FoldsTo(f, V, A, B)
  <2> HIDE DEF A, B, V
  <2> QED BY <1>1, <1>2, TreeRecursion
<1>4. \A u \in Layouts : f[u] = IF u.type = "pane" THEN <<u.session>> ELSE f[u.first] \o f[u.second]
  <2>1. \A u \in Layouts : u \in PaneTrees \/ (u \in SplitTrees /\ u.type # "pane" /\ f[u.first] \in V /\ f[u.second] \in V)
    BY <1>3, TreeCases, SplitParts DEF FoldsTo, PaneTrees, SplitTrees, IsPaneTree, IsSplitTree, IsSplitTreeOf
  <2>2. QED
    BY <1>3, <2>1 DEF FoldsTo, PaneTrees
<1>5. f = [u \in Layouts |-> f[u]]
  BY <1>3 DEF FoldsTo
<1>6. f = [u \in Layouts |-> IF u.type = "pane" THEN <<u.session>> ELSE f[u.first] \o f[u.second]]
  BY <1>4, <1>5
<1>7. ids = [u \in Layouts |-> IF u.type = "pane" THEN <<u.session>> ELSE ids[u.first] \o ids[u.second]]
  BY <1>6 DEF ids
<1>8. \A u \in Layouts : SessionIDs(u) = ids[u]
  BY DEF SessionIDs
<1> HIDE DEF ids
<1>9. CASE t.type = "pane"
  BY <1>7, <1>8, <1>9
<1>10. CASE t.type # "pane"
  <2>1. t.first \in Layouts /\ t.second \in Layouts
    BY <1>10, TreeCases DEF IsPaneTree
  <2>2. QED
    BY <1>7, <1>8, <1>10, <2>1
<1>11. QED
  BY <1>9, <1>10

\* A layout shows at least one session.
LEMMA IDsType ==
  \A t \in Layouts : SessionIDs(t) \in Seq(Sessions) /\ Len(SessionIDs(t)) >= 1
<1> DEFINE S == {t \in Layouts : SessionIDs(t) \in Seq(Sessions) /\ Len(SessionIDs(t)) >= 1}
<1>1. ASSUME NEW t \in Layouts, IsPaneTree(t) PROVE t \in S
  <2>1. SessionIDs(t) = <<t.session>> /\ t.session \in Sessions
    BY <1>1, SessionIDsEquation DEF IsPaneTree
  <2>2. <<t.session>> \in Seq(Sessions) /\ Len(<<t.session>>) = 1
    BY <2>1
  <2>3. SessionIDs(t) \in Seq(Sessions) /\ Len(SessionIDs(t)) = 1
    BY <2>1, <2>2, Zenon
  <2>4. SessionIDs(t) \in Seq(Sessions) /\ Len(SessionIDs(t)) >= 1
    BY <2>3
  <2>5. QED
    BY <2>4
<1>2. ASSUME NEW t \in Layouts, IsSplitTree(t), t.first \in Layouts, t.second \in Layouts, t.first \in S, t.second \in S
      PROVE t \in S
  <2>1. SessionIDs(t) = SessionIDs(t.first) \o SessionIDs(t.second)
    BY <1>2, SessionIDsEquation DEF IsSplitTree
  <2> DEFINE a == SessionIDs(t.first)
             b == SessionIDs(t.second)
  <2>2. a \in Seq(Sessions) /\ b \in Seq(Sessions) /\ Len(a) >= 1 /\ Len(b) >= 1
    BY <1>2
  <2>3. SessionIDs(t) = a \o b
    BY <2>1
  <2> HIDE DEF a, b
  <2>4. a \o b \in Seq(Sessions) /\ Len(a \o b) = Len(a) + Len(b) /\ Len(a) \in Nat /\ Len(b) \in Nat
    BY <2>2
  <2>5. SessionIDs(t) \in Seq(Sessions) /\ Len(SessionIDs(t)) >= 1
    BY <2>2, <2>3, <2>4
  <2>6. QED
    BY <2>5
<1> HIDE DEF S
<1>3. Layouts \subseteq S
  BY <1>1, <1>2, TreeInduction
<1>4. QED
  BY <1>3 DEF S

\* Panes and splits of trees are trees.
LEMMA TreesParts ==
  /\ Layouts \subseteq Trees
  /\ \A s \in Sessions : Pane(s) \in Trees
  /\ \A a, b \in Trees, d \in Directions, r \in Ratios \cup {Half} : Split(d, r, a, b) \in Trees
<1>1. Layouts \subseteq Trees
  BY MaxSessionsNat DEF Layouts, Trees
<1>2. \A s \in Sessions : Pane(s) \in Trees
  BY <1>1, PaneIsTree
<1>3. ASSUME NEW a \in Trees, NEW b \in Trees, NEW d \in Directions, NEW r \in Ratios \cup {Half}
      PROVE Split(d, r, a, b) \in Trees
  <2>1. PICK i \in Nat : a \in Level[i]
    BY DEF Trees
  <2>2. PICK j \in Nat : b \in Level[j]
    BY DEF Trees
  <2>3. Level[i] \subseteq Level[i + j] /\ Level[j] \subseteq Level[i + j] /\ i + j \in Nat
    <3>1. i <= i + j /\ j <= i + j /\ i + j \in Nat
      OBVIOUS
    <3>2. QED
      BY <3>1, LevelsGrow
  <2>4. Split(d, r, a, b) \in Level[(i + j) + 1] /\ (i + j) + 1 \in Nat
    BY <2>1, <2>2, <2>3, SplitLevel
  <2>5. QED
    BY <2>4 DEF Trees
<1>4. QED
  BY <1>1, <1>2, <1>3

\* What SplitLayoutNode makes of a node, given what it makes of its parts.
SplitStep(u, s, n, d, a, b) ==
  CASE u = Pane(s) -> Split(d, Half, u, Pane(n))
    [] u.type = "pane" /\ u # Pane(s) -> u
    [] u.type = "split" -> IF HasSession(u.first, s) THEN [u EXCEPT !.first = a] ELSE [u EXCEPT !.second = b]

\* It is a tree.
LEMMA SplitStepTree ==
  ASSUME NEW u \in Layouts, NEW s \in Sessions, NEW n \in Sessions, NEW d \in Directions, NEW a \in Trees, NEW b \in Trees
  PROVE SplitStep(u, s, n, d, a, b) \in Trees
<1>1. CASE u = Pane(s)
  <2>1. SplitStep(u, s, n, d, a, b) = Split(d, Half, Pane(s), Pane(n))
    BY <1>1 DEF SplitStep, Pane
  <2>2. Half \in Ratios \cup {Half} /\ Pane(s) \in Trees /\ Pane(n) \in Trees
    BY TreesParts
  <2>3. Split(d, Half, Pane(s), Pane(n)) \in Trees
    BY <2>2, TreesParts
  <2>4. QED
    BY <2>1, <2>3
<1>2. CASE u # Pane(s) /\ u.type = "pane"
  BY <1>2, TreesParts DEF SplitStep
<1>3. CASE u # Pane(s) /\ u.type # "pane"
  <2>1. IsSplitTree(u) /\ u.first \in Layouts /\ u.second \in Layouts
    BY <1>3, TreeCases DEF IsPaneTree
  <2>2. [u EXCEPT !.first = a] = Split(u.direction, u.ratio, a, u.second)
    BY <2>1 DEF IsSplitTree, Split
  <2>3. [u EXCEPT !.second = b] = Split(u.direction, u.ratio, u.first, b)
    BY <2>1 DEF IsSplitTree, Split
  <2>4. SplitStep(u, s, n, d, a, b) = IF HasSession(u.first, s) THEN Split(u.direction, u.ratio, a, u.second) ELSE Split(u.direction, u.ratio, u.first, b)
    BY <1>3, <2>1, <2>2, <2>3 DEF SplitStep, IsSplitTree
  <2>5. Split(u.direction, u.ratio, a, u.second) \in Trees /\ Split(u.direction, u.ratio, u.first, b) \in Trees
    BY <2>1, TreesParts DEF IsSplitTree
  <2>6. QED
    BY <2>4, <2>5
<1>4. QED
  BY <1>1, <1>2, <1>3

\* The recursion of SplitLayoutNode, unfolded.
LEMMA SplitEquation ==
  ASSUME NEW t \in Layouts, NEW s \in Sessions, NEW n \in Sessions, NEW d \in Directions
  PROVE SplitLayoutNode(t, s, n, d) =
          CASE t = Pane(s) -> Split(d, Half, t, Pane(n))
            [] t.type = "pane" /\ t # Pane(s) -> t
            [] t.type = "split" ->
                 IF HasSession(t.first, s) THEN Split(t.direction, t.ratio, SplitLayoutNode(t.first, s, n, d), t.second)
                 ELSE Split(t.direction, t.ratio, t.first, SplitLayoutNode(t.second, s, n, d))
<1> DEFINE V == Trees
           A == [u \in PaneTrees |-> SplitStep(u, s, n, d, u, u)]
           B == [x \in SplitTrees \X V \X V |-> SplitStep(x[1], s, n, d, x[2], x[3])]
           split[u \in Layouts] ==
             CASE u = Pane(s) -> Split(d, Half, u, Pane(n))
               [] u.type = "pane" /\ u # Pane(s) -> u
               [] u.type = "split" ->
                    IF HasSession(u.first, s) THEN [u EXCEPT !.first = split[@]] ELSE [u EXCEPT !.second = split[@]]
<1>1. A \in [PaneTrees -> V]
  BY SplitStepTree, TreesParts DEF PaneTrees
<1>2. B \in [SplitTrees \X V \X V -> V]
  BY SplitStepTree DEF SplitTrees
<1>3. PICK f : FoldsTo(f, V, A, B)
  <2> HIDE DEF A, B, V
  <2> QED BY <1>1, <1>2, TreeRecursion
<1>4. \A u \in Layouts : f[u] = SplitStep(u, s, n, d, f[u.first], f[u.second])
  <2> SUFFICES ASSUME NEW u \in Layouts PROVE f[u] = SplitStep(u, s, n, d, f[u.first], f[u.second])
    OBVIOUS
  <2>1. CASE IsPaneTree(u)
    <3>1. f[u] = SplitStep(u, s, n, d, u, u)
      BY <2>1, <1>3 DEF FoldsTo, PaneTrees, IsPaneTree
    <3>2. QED
      BY <3>1, <2>1 DEF SplitStep, IsPaneTree
  <2>2. CASE IsSplitTree(u) /\ u.first \in Layouts /\ u.second \in Layouts
    <3>1. u \in SplitTrees /\ f[u.first] \in V /\ f[u.second] \in V
      BY <2>2, <1>3 DEF FoldsTo, SplitTrees, IsSplitTree
    <3>2. f[u] = B[<<u, f[u.first], f[u.second]>>]
      BY <2>2, <1>3 DEF FoldsTo, IsSplitTree
    <3>3. QED
      BY <3>1, <3>2
  <2>3. QED
    BY <2>1, <2>2, TreeCases
<1>5. f = [u \in Layouts |-> f[u]]
  BY <1>3 DEF FoldsTo
<1>6. f = [u \in Layouts |->
             CASE u = Pane(s) -> Split(d, Half, u, Pane(n))
               [] u.type = "pane" /\ u # Pane(s) -> u
               [] u.type = "split" ->
                    IF HasSession(u.first, s) THEN [u EXCEPT !.first = f[@]] ELSE [u EXCEPT !.second = f[@]]]
  BY <1>4, <1>5 DEF SplitStep
<1>7. split = [u \in Layouts |->
             CASE u = Pane(s) -> Split(d, Half, u, Pane(n))
               [] u.type = "pane" /\ u # Pane(s) -> u
               [] u.type = "split" ->
                    IF HasSession(u.first, s) THEN [u EXCEPT !.first = split[@]] ELSE [u EXCEPT !.second = split[@]]]
  BY <1>6 DEF split
<1>8. \A u \in Layouts : SplitLayoutNode(u, s, n, d) = split[u]
  BY DEF SplitLayoutNode
<1> HIDE DEF split
<1>9. split[t] = SplitStep(t, s, n, d, split[t.first], split[t.second])
  BY <1>7 DEF SplitStep
<1>10. CASE IsPaneTree(t)
  BY <1>8, <1>9, <1>10 DEF SplitStep, IsPaneTree
<1>11. CASE IsSplitTree(t) /\ t.first \in Layouts /\ t.second \in Layouts
  <2>1. SplitLayoutNode(t.first, s, n, d) = split[t.first] /\ SplitLayoutNode(t.second, s, n, d) = split[t.second]
    BY <1>8, <1>11
  <2>2. [t EXCEPT !.first = split[t.first]] = Split(t.direction, t.ratio, split[t.first], t.second)
    BY <1>11 DEF IsSplitTree, Split
  <2>3. [t EXCEPT !.second = split[t.second]] = Split(t.direction, t.ratio, t.first, split[t.second])
    BY <1>11 DEF IsSplitTree, Split
  <2>4. t # Pane(s) /\ t.type = "split"
    BY <1>11 DEF IsSplitTree, Pane
  <2>5. QED
    BY <1>8, <1>9, <2>1, <2>2, <2>3, <2>4 DEF SplitStep
<1>12. QED
  BY <1>10, <1>11, TreeCases

\* What ClosePaneInLayout makes of a node, given what it makes of its parts.
CloseStep(u, s, a, b) ==
  CASE u.type = "pane" -> u
    [] u.type = "split" /\ u.first = Pane(s) -> u.second
    [] u.type = "split" /\ u.first # Pane(s) /\ u.second = Pane(s) -> u.first
    [] OTHER -> IF HasSession(u.first, s) THEN [u EXCEPT !.first = a] ELSE [u EXCEPT !.second = b]

\* A split with other parts.
WithFirst(u, a) == [u EXCEPT !.first = a]
WithSecond(u, b) == [u EXCEPT !.second = b]
WithParts(u, a, b) == [u EXCEPT !.first = a, !.second = b]

\* A split with other parts is a split.
LEMMA SplitWith ==
  ASSUME NEW d, NEW r, NEW f, NEW g, NEW a, NEW b
  PROVE /\ WithFirst(Split(d, r, f, g), a) = Split(d, r, a, g)
        /\ WithSecond(Split(d, r, f, g), b) = Split(d, r, f, b)
        /\ WithParts(Split(d, r, f, g), a, b) = Split(d, r, a, b)
<1>1. WithFirst(Split(d, r, f, g), a) = Split(d, r, a, g)
  BY DEF Split, WithFirst
<1>2. \A h : WithSecond(Split(d, r, h, g), b) = Split(d, r, h, b)
  BY DEF Split, WithSecond
<1> DEFINE u == Split(d, r, f, g)
           w == [u EXCEPT !.first = a]
<1>3. w = Split(d, r, a, g)
  BY <1>1 DEF WithFirst
<1>4. [w EXCEPT !.second = b] = Split(d, r, a, b)
  <2> HIDE DEF w
  <2> QED BY <1>2, <1>3 DEF WithSecond
<1> HIDE DEF u
<1>5. WithParts(u, a, b) = Split(d, r, a, b)
  BY <1>4 DEF WithParts
<1>6. QED
  BY <1>1, <1>2, <1>5 DEF u

\* The same, of any split.
LEMMA SplitExcept ==
  ASSUME NEW u, IsSplitTree(u), NEW a, NEW b
  PROVE /\ [u EXCEPT !.first = a] = Split(u.direction, u.ratio, a, u.second)
        /\ [u EXCEPT !.second = b] = Split(u.direction, u.ratio, u.first, b)
        /\ WithParts(u, a, b) = Split(u.direction, u.ratio, a, b)
BY SplitWith DEF IsSplitTree, WithFirst, WithSecond

\* What is closed stays a tree.
LEMMA CloseStepTree ==
  ASSUME NEW u \in Layouts, NEW s \in Sessions, NEW a \in Trees, NEW b \in Trees
  PROVE CloseStep(u, s, a, b) \in Trees
<1>1. CASE IsPaneTree(u)
  BY <1>1, TreesParts DEF CloseStep, IsPaneTree
<1>2. CASE IsSplitTree(u) /\ u.first \in Layouts /\ u.second \in Layouts
  <2>1. u.first \in Trees /\ u.second \in Trees
    BY <1>2, TreesParts
  <2>2. Split(u.direction, u.ratio, a, u.second) \in Trees /\ Split(u.direction, u.ratio, u.first, b) \in Trees
    BY <1>2, <2>1, TreesParts DEF IsSplitTree
  <2>3. [u EXCEPT !.first = a] \in Trees /\ [u EXCEPT !.second = b] \in Trees
    BY <1>2, <2>2, SplitExcept
  <2>4. u.type = "split"
    BY <1>2 DEF IsSplitTree
  <2>5. QED
    BY <2>1, <2>3, <2>4 DEF CloseStep
<1>3. QED
  BY <1>1, <1>2, TreeCases

\* The recursion of ClosePaneInLayout, unfolded.
LEMMA CloseEquation ==
  ASSUME NEW t \in Layouts, NEW s \in Sessions
  PROVE ClosePaneInLayout(t, s) =
          CASE t.type = "pane" -> t
            [] t.type = "split" /\ t.first = Pane(s) -> t.second
            [] t.type = "split" /\ t.first # Pane(s) /\ t.second = Pane(s) -> t.first
            [] OTHER ->
                 IF HasSession(t.first, s) THEN Split(t.direction, t.ratio, ClosePaneInLayout(t.first, s), t.second)
                 ELSE Split(t.direction, t.ratio, t.first, ClosePaneInLayout(t.second, s))
<1> DEFINE V == Trees
           A == [u \in PaneTrees |-> CloseStep(u, s, u, u)]
           B == [x \in SplitTrees \X V \X V |-> CloseStep(x[1], s, x[2], x[3])]
           close[u \in Layouts] ==
             CASE u.type = "pane" -> u
               [] u.type = "split" /\ u.first = Pane(s) -> u.second
               [] u.type = "split" /\ u.first # Pane(s) /\ u.second = Pane(s) -> u.first
               [] OTHER ->
                    IF HasSession(u.first, s) THEN [u EXCEPT !.first = close[@]] ELSE [u EXCEPT !.second = close[@]]
<1>1. A \in [PaneTrees -> V]
  BY CloseStepTree, TreesParts DEF PaneTrees
<1>2. B \in [SplitTrees \X V \X V -> V]
  BY CloseStepTree DEF SplitTrees
<1>3. PICK f : FoldsTo(f, V, A, B)
  <2> HIDE DEF A, B, V
  <2> QED BY <1>1, <1>2, TreeRecursion
<1>4. \A u \in Layouts : f[u] = CloseStep(u, s, f[u.first], f[u.second])
  <2> SUFFICES ASSUME NEW u \in Layouts PROVE f[u] = CloseStep(u, s, f[u.first], f[u.second])
    OBVIOUS
  <2>1. CASE IsPaneTree(u)
    <3>1. f[u] = CloseStep(u, s, u, u)
      BY <2>1, <1>3 DEF FoldsTo, PaneTrees, IsPaneTree
    <3>2. QED
      BY <3>1, <2>1 DEF CloseStep, IsPaneTree
  <2>2. CASE IsSplitTree(u) /\ u.first \in Layouts /\ u.second \in Layouts
    <3>1. u \in SplitTrees /\ f[u.first] \in V /\ f[u.second] \in V
      BY <2>2, <1>3 DEF FoldsTo, SplitTrees, IsSplitTree
    <3>2. f[u] = B[<<u, f[u.first], f[u.second]>>]
      BY <2>2, <1>3 DEF FoldsTo, IsSplitTree
    <3>3. QED
      BY <3>1, <3>2
  <2>3. QED
    BY <2>1, <2>2, TreeCases
<1>5. f = [u \in Layouts |-> f[u]]
  BY <1>3 DEF FoldsTo
<1>6. f = [u \in Layouts |->
             CASE u.type = "pane" -> u
               [] u.type = "split" /\ u.first = Pane(s) -> u.second
               [] u.type = "split" /\ u.first # Pane(s) /\ u.second = Pane(s) -> u.first
               [] OTHER ->
                    IF HasSession(u.first, s) THEN [u EXCEPT !.first = f[@]] ELSE [u EXCEPT !.second = f[@]]]
  BY <1>4, <1>5 DEF CloseStep
<1>7. close = [u \in Layouts |->
             CASE u.type = "pane" -> u
               [] u.type = "split" /\ u.first = Pane(s) -> u.second
               [] u.type = "split" /\ u.first # Pane(s) /\ u.second = Pane(s) -> u.first
               [] OTHER ->
                    IF HasSession(u.first, s) THEN [u EXCEPT !.first = close[@]] ELSE [u EXCEPT !.second = close[@]]]
  BY <1>6 DEF close
<1>8. \A u \in Layouts : ClosePaneInLayout(u, s) = close[u]
  BY DEF ClosePaneInLayout
<1> HIDE DEF close
<1>9. close[t] = CloseStep(t, s, close[t.first], close[t.second])
  BY <1>7 DEF CloseStep
<1>10. CASE IsPaneTree(t)
  BY <1>8, <1>9, <1>10 DEF CloseStep, IsPaneTree
<1>11. CASE IsSplitTree(t) /\ t.first \in Layouts /\ t.second \in Layouts
  <2>1. ClosePaneInLayout(t.first, s) = close[t.first] /\ ClosePaneInLayout(t.second, s) = close[t.second]
    BY <1>8, <1>11
  <2>2. /\ [t EXCEPT !.first = close[t.first]] = Split(t.direction, t.ratio, close[t.first], t.second)
        /\ [t EXCEPT !.second = close[t.second]] = Split(t.direction, t.ratio, t.first, close[t.second])
    BY <1>11, SplitExcept
  <2>3. t.type = "split"
    BY <1>11 DEF IsSplitTree
  <2>4. QED
    BY <1>8, <1>9, <2>1, <2>2, <2>3 DEF CloseStep
<1>12. QED
  BY <1>10, <1>11, TreeCases

-----------------------------------------------------------------------------
\* The recursion of ReplaceAllSessions has a solution.
LEMMA CopyExists ==
  ASSUME NEW mapping
  PROVE \E f : f = [u \in Layouts |->
                     IF u.type = "pane" THEN Pane(mapping[u.session])
                     ELSE [u EXCEPT !.first = f[@], !.second = f[@]]]
<1> DEFINE Step(f, u) == IF u.type = "pane" THEN Pane(mapping[u.session])
                         ELSE [u EXCEPT !.first = f[u.first], !.second = f[u.second]]
           Good(f, n) == f = [u \in Level[n] |-> Step(f, u)]
           T == {n \in Nat : \E f : Good(f, n)}
<1>1. 0 \in T
  <2> DEFINE f == [u \in Level[0] |-> Pane(mapping[u.session])]
  <2>1. \A u \in Level[0] : u.type = "pane"
    BY LevelCases DEF IsPaneTree
  <2>2. Good(f, 0)
    BY <2>1
  <2>3. QED
    BY <2>2
<1>2. ASSUME NEW n \in Nat, n \in T PROVE n + 1 \in T
  <2>1. PICK f : Good(f, n)
    BY <1>2
  <2> DEFINE g == [u \in Level[n + 1] |-> Step(f, u)]
             h == [u \in Level[n + 1] |-> Step(g, u)]
  <2>2. Level[n] \subseteq Level[n + 1]
    BY LevelGrows
  <2>3. \A u \in Level[n] : g[u] = f[u]
    BY <2>1, <2>2
  <2>4. \A u \in Level[n + 1] : u.type = "pane" \/ (u.first \in Level[n] /\ u.second \in Level[n])
    <3>1. (n + 1) - 1 = n
      OBVIOUS
    <3>2. QED
      BY <3>1, LevelCases DEF IsPaneTree
  <2>5. \A u \in Level[n + 1] : g[u] = Step(g, u)
    BY <2>3, <2>4
  <2>6. g = [u \in Level[n + 1] |-> g[u]]
    OBVIOUS
  <2> HIDE DEF g
  <2>7. g = h
    BY <2>5, <2>6
  <2>8. Good(g, n + 1)
    BY <2>7
  <2>9. QED
    <3> HIDE DEF Good
    <3> QED BY <2>8
<1> HIDE DEF T
<1>3. MaxSessions \in T
  BY <1>1, <1>2, Induction, MaxSessionsNat
<1>4. PICK f : Good(f, MaxSessions)
  BY <1>3 DEF T
<1>5. f = [u \in Layouts |->
             IF u.type = "pane" THEN Pane(mapping[u.session])
             ELSE [u EXCEPT !.first = f[@], !.second = f[@]]]
  BY <1>4 DEF Layouts
<1>6. QED
  BY <1>5

\* The recursion of ReplaceAllSessions, unfolded.
LEMMA CopyEquation ==
  ASSUME NEW t \in Layouts, NEW mapping
  PROVE ReplaceAllSessions(t, mapping) =
          IF t.type = "pane" THEN Pane(mapping[t.session])
          ELSE Split(t.direction, t.ratio, ReplaceAllSessions(t.first, mapping), ReplaceAllSessions(t.second, mapping))
<1> DEFINE copy[u \in Layouts] == IF u.type = "pane" THEN Pane(mapping[u.session])
                                  ELSE [u EXCEPT !.first = copy[@], !.second = copy[@]]
<1>1. copy = [u \in Layouts |-> IF u.type = "pane" THEN Pane(mapping[u.session])
                                ELSE [u EXCEPT !.first = copy[@], !.second = copy[@]]]
  <2>1. PICK f : f = [u \in Layouts |-> IF u.type = "pane" THEN Pane(mapping[u.session])
                                       ELSE [u EXCEPT !.first = f[@], !.second = f[@]]]
    BY CopyExists
  <2>2. QED
    BY <2>1 DEF copy
<1>2. \A u \in Layouts : ReplaceAllSessions(u, mapping) = copy[u]
  BY DEF ReplaceAllSessions
<1> HIDE DEF copy
<1>3. CASE IsPaneTree(t)
  BY <1>1, <1>2, <1>3 DEF IsPaneTree
<1>4. CASE IsSplitTree(t) /\ t.first \in Layouts /\ t.second \in Layouts
  <2>1. t.type # "pane"
    BY <1>4 DEF IsSplitTree
  <2>2. copy[t] = [t EXCEPT !.first = copy[t.first], !.second = copy[t.second]]
    BY <1>1, <2>1
  <2>3. copy[t] = WithParts(t, copy[t.first], copy[t.second])
    BY <2>2 DEF WithParts
  <2>4. \A a, b : WithParts(t, a, b) = Split(t.direction, t.ratio, a, b)
    BY <1>4, SplitWith DEF IsSplitTree
  <2>5. copy[t] = Split(t.direction, t.ratio, copy[t.first], copy[t.second])
    BY <2>3, <2>4
  <2>6. QED
    BY <2>1, <2>5, <1>2, <1>4
<1>5. QED
  BY <1>3, <1>4, TreeCases

-----------------------------------------------------------------------------
\* The positions and the labels of the page's nodes, and a part of a layout
\* moved below a split.
Paths == Seq({1, 2})
SplitLabel(d, r) == [type |-> "split", direction |-> d, ratio |-> r]
Labels == {Pane(s) : s \in Sessions} \cup {SplitLabel(d, r) : d \in Directions, r \in Ratios \cup {Half}}
Nodes == {Node(p, l) : p \in Paths, l \in Labels}
Moved(i, N) == {Node(<<i>> \o x.path, x.label) : x \in N}

\* A node is its position and its label.
LEMMA NodesType ==
  ASSUME NEW x \in Nodes PROVE x.path \in Paths /\ x.label \in Labels /\ x = Node(x.path, x.label)
BY DEF Nodes, Node

\* What is moved is still nodes.
LEMMA MovedType ==
  ASSUME NEW N \in SUBSET Nodes, NEW i \in {1, 2} PROVE Moved(i, N) \in SUBSET Nodes
<1> SUFFICES ASSUME NEW x \in N PROVE Node(<<i>> \o x.path, x.label) \in Nodes
  BY DEF Moved
<1>1. x.path \in Paths /\ x.label \in Labels
  BY NodesType
<1>2. <<i>> \o x.path \in Paths
  BY <1>1 DEF Paths
<1>3. QED
  BY <1>1, <1>2 DEF Nodes

\* The root of a split, on the page.
Root(t) == Node(<<>>, SplitLabel(t.direction, t.ratio))

\* The recursion of ReconstructLayout, unfolded.
LEMMA ReconEquation ==
  ASSUME NEW t \in Layouts
  PROVE /\ ReconstructLayout(t) =
             IF t.type = "pane" THEN {Node(<<>>, t)}
             ELSE {Root(t)} \cup Moved(1, ReconstructLayout(t.first)) \cup Moved(2, ReconstructLayout(t.second))
        /\ ReconstructLayout(t) \in SUBSET Nodes
<1> DEFINE V == SUBSET Nodes
           A == [u \in PaneTrees |-> {Node(<<>>, u)}]
           B == [x \in SplitTrees \X V \X V |-> {Root(x[1])} \cup Moved(1, x[2]) \cup Moved(2, x[3])]
           nodes[u \in Layouts] ==
             IF u.type = "pane" THEN {Node(<<>>, u)}
             ELSE {Node(<<>>, [type |-> "split", direction |-> u.direction, ratio |-> u.ratio])}
                    \cup {Node(<<1>> \o x.path, x.label) : x \in nodes[u.first]}
                    \cup {Node(<<2>> \o x.path, x.label) : x \in nodes[u.second]}
<1>0. <<>> \in Paths
  BY DEF Paths
<1>1. A \in [PaneTrees -> V]
  <2>1. \A u \in PaneTrees : u \in Labels
    BY TreeCases DEF PaneTrees, IsPaneTree, IsSplitTree, Labels
  <2>2. QED
    BY <2>1, <1>0 DEF Nodes
<1>2. B \in [SplitTrees \X V \X V -> V]
  <2>1. \A u \in SplitTrees : Root(u) \in Nodes
    <3> SUFFICES ASSUME NEW u \in SplitTrees PROVE Root(u) \in Nodes
      OBVIOUS
    <3>1. SplitLabel(u.direction, u.ratio) \in Labels
      BY SplitParts DEF IsSplitTreeOf, IsSplitTree, Labels
    <3>2. QED
      BY <3>1, <1>0 DEF Root, Nodes
  <2>2. QED
    BY <2>1, MovedType
<1>3. PICK f : FoldsTo(f, V, A, B)
  <2> HIDE DEF A, B, V
  <2> QED BY <1>1, <1>2, TreeRecursion
<1>4. \A u \in Layouts : f[u] = IF u.type = "pane" THEN {Node(<<>>, u)}
                                ELSE {Root(u)} \cup Moved(1, f[u.first]) \cup Moved(2, f[u.second])
  <2>1. \A u \in Layouts : u \in PaneTrees \/ (u \in SplitTrees /\ u.type # "pane" /\ f[u.first] \in V /\ f[u.second] \in V)
    <3> HIDE DEF A, B, V
    <3> QED BY <1>3, TreeCases, SplitParts DEF FoldsTo, PaneTrees, SplitTrees, IsPaneTree, IsSplitTree, IsSplitTreeOf
  <2>2. \A u \in Layouts : f[u] = IF u.type = "pane" THEN A[u] ELSE B[<<u, f[u.first], f[u.second]>>]
    <3> HIDE DEF A, B, V
    <3> QED BY <1>3 DEF FoldsTo
  <2> HIDE DEF V
  <2>3. QED
    BY <2>1, <2>2 DEF PaneTrees
<1>5. f = [u \in Layouts |-> f[u]]
  BY <1>3 DEF FoldsTo
<1>6. f = [u \in Layouts |->
             IF u.type = "pane" THEN {Node(<<>>, u)}
             ELSE {Node(<<>>, [type |-> "split", direction |-> u.direction, ratio |-> u.ratio])}
                    \cup {Node(<<1>> \o x.path, x.label) : x \in f[u.first]}
                    \cup {Node(<<2>> \o x.path, x.label) : x \in f[u.second]}]
  BY <1>4, <1>5 DEF Root, Moved, SplitLabel
<1>7. nodes = [u \in Layouts |->
             IF u.type = "pane" THEN {Node(<<>>, u)}
             ELSE {Node(<<>>, [type |-> "split", direction |-> u.direction, ratio |-> u.ratio])}
                    \cup {Node(<<1>> \o x.path, x.label) : x \in nodes[u.first]}
                    \cup {Node(<<2>> \o x.path, x.label) : x \in nodes[u.second]}]
  BY <1>6 DEF nodes
<1>8. \A u \in Layouts : ReconstructLayout(u) = nodes[u]
  BY DEF ReconstructLayout
<1> HIDE DEF nodes
<1>9. \A u \in Layouts : nodes[u] = IF u.type = "pane" THEN {Node(<<>>, u)}
                                ELSE {Root(u)} \cup Moved(1, nodes[u.first]) \cup Moved(2, nodes[u.second])
  BY <1>7 DEF Root, Moved, SplitLabel
<1>10. ASSUME NEW u \in Layouts
       PROVE ReconstructLayout(u) = IF u.type = "pane" THEN {Node(<<>>, u)}
               ELSE {Root(u)} \cup Moved(1, ReconstructLayout(u.first)) \cup Moved(2, ReconstructLayout(u.second))
  <2>1. CASE u.type = "pane"
    BY <1>8, <1>9, <2>1
  <2>2. CASE u.type # "pane"
    <3>1. u.first \in Layouts /\ u.second \in Layouts
      BY <2>2, TreeCases DEF IsPaneTree
    <3>2. QED
      BY <1>8, <1>9, <2>2, <3>1
  <2>3. QED
    BY <2>1, <2>2
<1> DEFINE S == {u \in Layouts : ReconstructLayout(u) \in SUBSET Nodes}
<1>11. ASSUME NEW u \in Layouts, IsPaneTree(u) PROVE u \in S
  <2>1. u \in Labels
    BY <1>11 DEF Labels, IsPaneTree
  <2>2. Node(<<>>, u) \in Nodes
    BY <2>1, <1>0 DEF Nodes
  <2>3. QED
    BY <2>2, <1>10, <1>11 DEF IsPaneTree
<1>12. ASSUME NEW u \in Layouts, IsSplitTree(u), u.first \in Layouts, u.second \in Layouts, u.first \in S, u.second \in S
       PROVE u \in S
  <2>1. SplitLabel(u.direction, u.ratio) \in Labels
    BY <1>12 DEF IsSplitTree, Labels
  <2>2. Root(u) \in Nodes
    BY <2>1, <1>0 DEF Root, Nodes
  <2>3. Moved(1, ReconstructLayout(u.first)) \in SUBSET Nodes /\ Moved(2, ReconstructLayout(u.second)) \in SUBSET Nodes
    BY <1>12, MovedType
  <2>4. QED
    BY <2>2, <2>3, <1>10, <1>12 DEF IsSplitTree
<1> HIDE DEF S
<1>13. Layouts \subseteq S
  BY <1>11, <1>12, TreeInduction
<1>14. QED
  BY <1>10, <1>13 DEF S

-----------------------------------------------------------------------------
(* The sessions of a tree *)

\* The sessions a tree shows, how many panes it has, and whether one is shown
\* twice.
Leaves(t) == ToSet(SessionIDs(t))
Size(t) == Len(SessionIDs(t))
TwiceIn(q, n) == \E i, j \in 1 .. Len(q) : i # j /\ q[i] = n /\ q[j] = n
Twice(t, n) == TwiceIn(SessionIDs(t), n)
Distinct(t) == \A n : ~Twice(t, n)

\* The elements of two sequences joined.
LEMMA ConcatSet ==
  ASSUME NEW S, NEW a \in Seq(S), NEW b \in Seq(S)
  PROVE ToSet(a \o b) = ToSet(a) \cup ToSet(b)
<1> DEFINE c == a \o b
<1>1. /\ c \in Seq(S) /\ Len(c) = Len(a) + Len(b) /\ Len(a) \in Nat /\ Len(b) \in Nat
      /\ DOMAIN a = 1 .. Len(a) /\ DOMAIN b = 1 .. Len(b) /\ DOMAIN c = 1 .. Len(c)
  OBVIOUS
<1>2. \A i \in 1 .. Len(c) : c[i] = IF i <= Len(a) THEN a[i] ELSE b[i - Len(a)]
  OBVIOUS
<1> HIDE DEF c
<1>3. ASSUME NEW i \in 1 .. Len(c) PROVE c[i] \in ToSet(a) \cup ToSet(b)
  <2>1. CASE i <= Len(a)
    BY <1>1, <1>2, <2>1 DEF ToSet
  <2>2. CASE ~(i <= Len(a))
    <3>1. i - Len(a) \in 1 .. Len(b)
      BY <1>1, <2>2
    <3>2. QED
      BY <1>1, <1>2, <2>2, <3>1 DEF ToSet
  <2>3. QED
    BY <2>1, <2>2
<1>4. ASSUME NEW i \in 1 .. Len(a) PROVE a[i] \in ToSet(c)
  <2>1. i \in 1 .. Len(c) /\ c[i] = a[i]
    BY <1>1, <1>2
  <2>2. QED
    BY <2>1, <1>1 DEF ToSet
<1>5. ASSUME NEW i \in 1 .. Len(b) PROVE b[i] \in ToSet(c)
  <2>1. Len(a) + i \in 1 .. Len(c) /\ c[Len(a) + i] = b[i]
    BY <1>1, <1>2
  <2>2. QED
    BY <2>1, <1>1 DEF ToSet
<1>6. ToSet(c) = ToSet(a) \cup ToSet(b)
  BY <1>1, <1>3, <1>4, <1>5 DEF ToSet
<1>7. QED
  BY <1>6 DEF c

\* What comes twice in two sequences joined.
LEMMA ConcatTwice ==
  ASSUME NEW S, NEW a \in Seq(S), NEW b \in Seq(S), NEW n
  PROVE TwiceIn(a \o b, n) <=> TwiceIn(a, n) \/ TwiceIn(b, n) \/ (n \in ToSet(a) /\ n \in ToSet(b))
<1> DEFINE c == a \o b
<1>1. /\ c \in Seq(S) /\ Len(c) = Len(a) + Len(b) /\ Len(a) \in Nat /\ Len(b) \in Nat
      /\ DOMAIN a = 1 .. Len(a) /\ DOMAIN b = 1 .. Len(b) /\ DOMAIN c = 1 .. Len(c)
  OBVIOUS
<1>2. \A i \in 1 .. Len(c) : c[i] = IF i <= Len(a) THEN a[i] ELSE b[i - Len(a)]
  OBVIOUS
<1> HIDE DEF c
<1>3. \A i \in 1 .. Len(a) : i \in 1 .. Len(c) /\ c[i] = a[i]
  BY <1>1, <1>2
<1>4. \A i \in 1 .. Len(b) : Len(a) + i \in 1 .. Len(c) /\ c[Len(a) + i] = b[i]
  BY <1>1, <1>2
<1>5. \A i \in 1 .. Len(c) : \/ i \in 1 .. Len(a)
                             \/ i - Len(a) \in 1 .. Len(b) /\ c[i] = b[i - Len(a)]
  BY <1>1, <1>2
<1>6. TwiceIn(a, n) => TwiceIn(c, n)
  BY <1>3 DEF TwiceIn
<1>7. TwiceIn(b, n) => TwiceIn(c, n)
  <2> SUFFICES ASSUME NEW i \in 1 .. Len(b), NEW j \in 1 .. Len(b), i # j, b[i] = n, b[j] = n PROVE TwiceIn(c, n)
    BY DEF TwiceIn
  <2>1. Len(a) + i # Len(a) + j
    BY <1>1
  <2>2. QED
    BY <1>4, <2>1 DEF TwiceIn
<1>8. n \in ToSet(a) /\ n \in ToSet(b) => TwiceIn(c, n)
  <2> SUFFICES ASSUME NEW i \in 1 .. Len(a), NEW j \in 1 .. Len(b), a[i] = n, b[j] = n PROVE TwiceIn(c, n)
    BY <1>1 DEF ToSet
  <2>1. i # Len(a) + j
    BY <1>1
  <2>2. QED
    BY <1>3, <1>4, <2>1 DEF TwiceIn
<1>9. ASSUME NEW i \in 1 .. Len(c), NEW j \in 1 .. Len(c), i # j, c[i] = n, c[j] = n
      PROVE TwiceIn(a, n) \/ TwiceIn(b, n) \/ (n \in ToSet(a) /\ n \in ToSet(b))
  <2>1. CASE i \in 1 .. Len(a) /\ j \in 1 .. Len(a)
    BY <2>1, <1>3, <1>9 DEF TwiceIn
  <2>2. CASE i \in 1 .. Len(a) /\ j \notin 1 .. Len(a)
    <3>1. a[i] = n /\ b[j - Len(a)] = n /\ j - Len(a) \in 1 .. Len(b)
      BY <2>2, <1>3, <1>5, <1>9
    <3>2. QED
      BY <3>1, <2>2, <1>1 DEF ToSet
  <2>3. CASE i \notin 1 .. Len(a) /\ j \in 1 .. Len(a)
    <3>1. a[j] = n /\ b[i - Len(a)] = n /\ i - Len(a) \in 1 .. Len(b)
      BY <2>3, <1>3, <1>5, <1>9
    <3>2. QED
      BY <3>1, <2>3, <1>1 DEF ToSet
  <2>4. CASE i \notin 1 .. Len(a) /\ j \notin 1 .. Len(a)
    <3>1. b[i - Len(a)] = n /\ i - Len(a) \in 1 .. Len(b) /\ b[j - Len(a)] = n /\ j - Len(a) \in 1 .. Len(b)
      BY <2>4, <1>5, <1>9
    <3>2. i - Len(a) # j - Len(a)
      BY <1>1, <1>9
    <3>3. QED
      BY <3>1, <3>2 DEF TwiceIn
  <2>5. QED
    BY <2>1, <2>2, <2>3, <2>4
<1>10. TwiceIn(c, n) => TwiceIn(a, n) \/ TwiceIn(b, n) \/ (n \in ToSet(a) /\ n \in ToSet(b))
  BY <1>9 DEF TwiceIn
<1>11. TwiceIn(c, n) <=> TwiceIn(a, n) \/ TwiceIn(b, n) \/ (n \in ToSet(a) /\ n \in ToSet(b))
  BY <1>6, <1>7, <1>8, <1>10
<1>12. QED
  BY <1>11 DEF c

\* The sessions of a pane.
LEMMA PaneLeaves ==
  ASSUME NEW s \in Sessions
  PROVE /\ SessionIDs(Pane(s)) = <<s>> /\ Leaves(Pane(s)) = {s} /\ Size(Pane(s)) = 1
        /\ \A n : ~Twice(Pane(s), n)
<1>1. SessionIDs(Pane(s)) = <<s>>
  BY PaneIsTree, SessionIDsEquation DEF Pane
<1>2. ToSet(<<s>>) = {s} /\ Len(<<s>>) = 1 /\ \A n : ~TwiceIn(<<s>>, n)
  BY DEF ToSet, TwiceIn
<1>3. QED
  BY <1>1, <1>2, Zenon DEF Leaves, Size, Twice

\* The sessions of a split are those of its parts.
LEMMA SplitLeaves ==
  ASSUME NEW t \in Layouts, IsSplitTree(t), t.first \in Layouts, t.second \in Layouts
  PROVE /\ Leaves(t) = Leaves(t.first) \cup Leaves(t.second)
        /\ Size(t) = Size(t.first) + Size(t.second)
        /\ \A n : Twice(t, n) <=> Twice(t.first, n) \/ Twice(t.second, n) \/ (n \in Leaves(t.first) /\ n \in Leaves(t.second))
<1> DEFINE a == SessionIDs(t.first)
           b == SessionIDs(t.second)
<1>1. SessionIDs(t) = a \o b
  BY SessionIDsEquation DEF IsSplitTree
<1>2. a \in Seq(Sessions) /\ b \in Seq(Sessions)
  BY IDsType
<1>3. Len(a \o b) = Len(a) + Len(b)
  BY <1>2
<1>4. ToSet(a \o b) = ToSet(a) \cup ToSet(b)
  BY <1>2, ConcatSet
<1>5. \A n : TwiceIn(a \o b, n) <=> TwiceIn(a, n) \/ TwiceIn(b, n) \/ (n \in ToSet(a) /\ n \in ToSet(b))
  BY <1>2, ConcatTwice
<1> HIDE DEF a, b
<1>6. /\ ToSet(SessionIDs(t)) = ToSet(a) \cup ToSet(b)
      /\ Len(SessionIDs(t)) = Len(a) + Len(b)
      /\ \A n : TwiceIn(SessionIDs(t), n) <=> TwiceIn(a, n) \/ TwiceIn(b, n) \/ (n \in ToSet(a) /\ n \in ToSet(b))
  BY <1>1, <1>3, <1>4, <1>5
<1>7. QED
  BY <1>6 DEF a, b, Leaves, Size, Twice

\* A tree shows some sessions, each once exactly if there are as many as
\* panes.
LEMMA LeavesType ==
  ASSUME NEW t \in Layouts
  PROVE /\ Leaves(t) \subseteq Sessions /\ Leaves(t) # {} /\ IsFiniteSet(Leaves(t))
        /\ Size(t) \in Nat /\ Size(t) >= 1
        /\ Cardinality(Leaves(t)) \in Nat /\ Cardinality(Leaves(t)) <= Size(t)
        /\ Distinct(t) <=> Size(t) = Cardinality(Leaves(t))
        /\ \A n : Twice(t, n) => n \in Leaves(t)
<1> DEFINE q == SessionIDs(t)
<1>1. q \in Seq(Sessions) /\ Len(q) >= 1
  BY IDsType
<1> HIDE DEF q
<1>2. Len(q) \in Nat /\ DOMAIN q = 1 .. Len(q) /\ q \in [1 .. Len(q) -> Sessions]
  BY <1>1
<1>3. ToSet(q) \subseteq Sessions
  BY <1>2 DEF ToSet
<1>4. ToSet(q) # {}
  <2>1. 1 \in 1 .. Len(q)
    BY <1>1, <1>2
  <2>2. QED
    BY <2>1, <1>2 DEF ToSet
<1>5. q \in Surjection(1 .. Len(q), ToSet(q))
  <2>1. q \in [1 .. Len(q) -> ToSet(q)]
    BY <1>2 DEF ToSet
  <2>2. \A y \in ToSet(q) : \E x \in 1 .. Len(q) : q[x] = y
    BY <1>2 DEF ToSet
  <2>3. QED
    BY <2>1, <2>2 DEF Surjection, Range
<1>6. IsFiniteSet(1 .. Len(q)) /\ Cardinality(1 .. Len(q)) = Len(q)
  <2>1. 1 \in Int /\ Len(q) \in Int
    BY <1>2
  <2>2. IsFiniteSet(1 .. Len(q)) /\ Cardinality(1 .. Len(q)) = IF 1 > Len(q) THEN 0 ELSE Len(q) - 1 + 1
    BY <2>1, FS_Interval
  <2>3. QED
    BY <1>1, <1>2, <2>2
<1>7. /\ IsFiniteSet(ToSet(q)) /\ Cardinality(ToSet(q)) <= Len(q)
      /\ Cardinality(ToSet(q)) = Len(q) <=> q \in Injection(1 .. Len(q), ToSet(q))
  BY <1>5, <1>6, FS_Surjection
<1>8. Cardinality(ToSet(q)) \in Nat
  BY <1>7, FS_CardinalityType
<1>9. q \in Injection(1 .. Len(q), ToSet(q)) <=> \A n : ~TwiceIn(q, n)
  <2>1. q \in [1 .. Len(q) -> ToSet(q)]
    BY <1>2 DEF ToSet
  <2>2. QED
    BY <2>1 DEF Injection, IsInjective, TwiceIn
<1>10. \A n : TwiceIn(q, n) => n \in ToSet(q)
  BY <1>2 DEF TwiceIn, ToSet
<1>11. QED
  BY <1>1, <1>2, <1>3, <1>4, <1>7, <1>8, <1>9, <1>10 DEF q, Leaves, Size, Twice, Distinct

\* A tree with few panes has few levels.
LEMMA SmallTree ==
  ASSUME NEW t \in Layouts, NEW k \in Nat, Size(t) <= k + 1 PROVE t \in Level[k]
<1> DEFINE S == {u \in Layouts : \A n \in Nat : Size(u) <= n + 1 => u \in Level[n]}
<1>1. ASSUME NEW u \in Layouts, IsPaneTree(u) PROVE u \in S
  BY <1>1, PaneLevel DEF IsPaneTree
<1>2. ASSUME NEW u \in Layouts, IsSplitTree(u), u.first \in Layouts, u.second \in Layouts, u.first \in S, u.second \in S
      PROVE u \in S
  <2> SUFFICES ASSUME NEW n \in Nat, Size(u) <= n + 1 PROVE u \in Level[n]
    OBVIOUS
  <2>1. Size(u) = Size(u.first) + Size(u.second)
    BY <1>2, SplitLeaves
  <2>2. /\ Size(u.first) \in Nat /\ Size(u.first) >= 1 /\ Size(u.second) \in Nat /\ Size(u.second) >= 1
    BY <1>2, LeavesType
  <2>3. n - 1 \in Nat /\ Size(u.first) <= (n - 1) + 1 /\ Size(u.second) <= (n - 1) + 1 /\ (n - 1) + 1 = n
    BY <2>1, <2>2
  <2>4. u.first \in Level[n - 1] /\ u.second \in Level[n - 1]
    BY <1>2, <2>3
  <2>5. Split(u.direction, u.ratio, u.first, u.second) \in Level[(n - 1) + 1]
    BY <1>2, <2>3, <2>4, SplitLevel DEF IsSplitTree
  <2>6. QED
    BY <1>2, <2>3, <2>5 DEF IsSplitTree
<1> HIDE DEF S
<1>3. Layouts \subseteq S
  BY <1>1, <1>2, TreeInduction
<1>4. QED
  BY <1>3 DEF S

\* A set of numbers up to n has at most n elements.
LEMMA SmallCardinality ==
  ASSUME NEW n \in Nat, NEW K \in SUBSET (1 .. n) PROVE IsFiniteSet(K) /\ Cardinality(K) \in Nat /\ Cardinality(K) <= n
<1>1. IsFiniteSet(1 .. n) /\ Cardinality(1 .. n) = n
  <2>1. 1 \in Int /\ n \in Int
    OBVIOUS
  <2>2. IsFiniteSet(1 .. n) /\ Cardinality(1 .. n) = IF 1 > n THEN 0 ELSE n - 1 + 1
    BY <2>1, FS_Interval
  <2>3. QED
    BY <2>2
<1>2. IsFiniteSet(K) /\ Cardinality(K) <= n
  BY <1>1, FS_Subset
<1>3. QED
  BY <1>2, FS_CardinalityType

\* What the server accepts has the same sessions, and none of them twice.
LEMMA MatchingLayout ==
  ASSUME NEW t \in Layouts, NEW u \in Layouts, Distinct(t), LayoutMatchesSessionSet(u, SessionIDs(t))
  PROVE Leaves(u) = Leaves(t) /\ Distinct(u)
<1>1. /\ Cardinality(Leaves(u)) = Size(t)
      /\ \A s \in Leaves(t) : Count(SessionIDs(u), s) = 1
  BY DEF LayoutMatchesSessionSet, Leaves, Size
<1>2. Size(t) = Cardinality(Leaves(t))
  BY LeavesType
<1> DEFINE q == SessionIDs(u)
<1>3. q \in Seq(Sessions) /\ DOMAIN q = 1 .. Len(q) /\ Len(q) \in Nat
  <2>1. q \in Seq(Sessions)
    BY IDsType
  <2> HIDE DEF q
  <2>2. QED
    BY <2>1
<1>4. ASSUME NEW s \in Leaves(t) PROVE s \in Leaves(u) /\ ~Twice(u, s)
  <2> DEFINE D == {i \in DOMAIN q : q[i] = s}
  <2>1. Cardinality(D) = 1
    BY <1>1 DEF Count
  <2>2. IsFiniteSet(D)
    <3>1. D \in SUBSET (1 .. Len(q))
      BY <1>3
    <3>2. QED
      BY <3>1, <1>3, SmallCardinality
  <2>3. PICK i : D = {i}
    <3> HIDE DEF D
    <3> QED BY <2>1, <2>2, FS_Singleton
  <2>4. i \in DOMAIN q /\ q[i] = s /\ \A j \in DOMAIN q : q[j] = s => j = i
    BY <2>3
  <2>5. s \in Leaves(u)
    BY <2>4 DEF Leaves, ToSet
  <2>6. ~TwiceIn(q, s)
    BY <2>4, <1>3 DEF TwiceIn
  <2>7. QED
    BY <2>5, <2>6 DEF Twice
<1>5. IsFiniteSet(Leaves(u)) /\ Leaves(t) \in SUBSET Leaves(u) /\ Cardinality(Leaves(u)) = Cardinality(Leaves(t))
  BY <1>1, <1>2, <1>4, LeavesType
<1>6. Leaves(u) = Leaves(t)
  BY <1>5, FS_Subset
<1>7. Distinct(u)
  <2>1. \A n : Twice(u, n) => n \in Leaves(u)
    BY LeavesType
  <2>2. QED
    BY <2>1, <1>4, <1>6 DEF Distinct
<1>8. QED
  BY <1>6, <1>7

-----------------------------------------------------------------------------
(* The joints of a tree: what its splits separate. *)

\* A split by what it separates: its direction, its ratio and the sessions on
\* either side.
Joint(d, r, A, B) == [direction |-> d, ratio |-> r, one |-> A, two |-> B]
AllJoints == [direction : Directions, ratio : Ratios \cup {Half}, one : SUBSET Sessions, two : SUBSET Sessions]

Joints(t) ==
  LET joints[u \in Layouts] ==
        IF u.type = "pane" THEN {}
        ELSE {Joint(u.direction, u.ratio, Leaves(u.first), Leaves(u.second))} \cup joints[u.first] \cup joints[u.second]
  IN joints[t]

\* The joint at the root of a split.
RootJoint(u) == Joint(u.direction, u.ratio, Leaves(u.first), Leaves(u.second))

\* It is a joint.
LEMMA RootJointType ==
  ASSUME NEW u \in Layouts, IsSplitTree(u), u.first \in Layouts, u.second \in Layouts
  PROVE RootJoint(u) \in AllJoints
<1>1. Leaves(u.first) \in SUBSET Sessions /\ Leaves(u.second) \in SUBSET Sessions
  BY LeavesType
<1>2. QED
  BY <1>1 DEF RootJoint, Joint, AllJoints, IsSplitTree

\* The joints of a split are its root's and those of its parts.
LEMMA JointsEquation ==
  ASSUME NEW t \in Layouts
  PROVE Joints(t) = IF t.type = "pane" THEN {} ELSE {RootJoint(t)} \cup Joints(t.first) \cup Joints(t.second)
<1> DEFINE V == SUBSET AllJoints
           A == [u \in PaneTrees |-> {}]
           B == [x \in SplitTrees \X V \X V |-> {RootJoint(x[1])} \cup x[2] \cup x[3]]
           joints[u \in Layouts] ==
             IF u.type = "pane" THEN {}
             ELSE {Joint(u.direction, u.ratio, Leaves(u.first), Leaves(u.second))} \cup joints[u.first] \cup joints[u.second]
<1>1. A \in [PaneTrees -> V]
  OBVIOUS
<1>2. B \in [SplitTrees \X V \X V -> V]
  <2>1. \A u \in SplitTrees : RootJoint(u) \in AllJoints
    BY SplitParts, RootJointType DEF IsSplitTreeOf, SplitTrees
  <2>2. QED
    BY <2>1
<1>3. PICK f : FoldsTo(f, V, A, B)
  <2> HIDE DEF A, B, V
  <2> QED BY <1>1, <1>2, TreeRecursion
<1>4. \A u \in Layouts : f[u] = IF u.type = "pane" THEN {} ELSE {RootJoint(u)} \cup f[u.first] \cup f[u.second]
  <2>1. \A u \in Layouts : u \in PaneTrees \/ (u \in SplitTrees /\ u.type # "pane" /\ f[u.first] \in V /\ f[u.second] \in V)
    <3> HIDE DEF A, B, V
    <3> QED BY <1>3, TreeCases, SplitParts DEF FoldsTo, PaneTrees, SplitTrees, IsPaneTree, IsSplitTree, IsSplitTreeOf
  <2>2. \A u \in Layouts : f[u] = IF u.type = "pane" THEN A[u] ELSE B[<<u, f[u.first], f[u.second]>>]
    <3> HIDE DEF A, B, V
    <3> QED BY <1>3 DEF FoldsTo
  <2> HIDE DEF V
  <2>3. QED
    BY <2>1, <2>2 DEF PaneTrees
<1>5. f = [u \in Layouts |-> f[u]]
  BY <1>3 DEF FoldsTo
<1>6. f = [u \in Layouts |->
             IF u.type = "pane" THEN {}
             ELSE {Joint(u.direction, u.ratio, Leaves(u.first), Leaves(u.second))} \cup f[u.first] \cup f[u.second]]
  BY <1>4, <1>5 DEF RootJoint
<1>7. joints = [u \in Layouts |->
             IF u.type = "pane" THEN {}
             ELSE {Joint(u.direction, u.ratio, Leaves(u.first), Leaves(u.second))} \cup joints[u.first] \cup joints[u.second]]
  BY <1>6 DEF joints
<1>8. \A u \in Layouts : Joints(u) = joints[u]
  BY DEF Joints
<1> HIDE DEF joints
<1>9. CASE t.type = "pane"
  BY <1>7, <1>8, <1>9
<1>10. CASE t.type # "pane"
  <2>1. t.first \in Layouts /\ t.second \in Layouts
    BY <1>10, TreeCases DEF IsPaneTree
  <2>2. QED
    BY <1>7, <1>8, <1>10, <2>1 DEF RootJoint
<1>11. QED
  BY <1>9, <1>10

\* A joint of t separates sessions of t.
LEMMA JointsType ==
  ASSUME NEW t \in Layouts
  PROVE /\ Joints(t) \in SUBSET AllJoints
        /\ \A j \in Joints(t) : /\ j.one \subseteq Leaves(t) /\ j.two \subseteq Leaves(t) /\ j.one # {} /\ j.two # {}
<1> DEFINE Good(u) == /\ Joints(u) \in SUBSET AllJoints
                      /\ \A j \in Joints(u) : /\ j.one \subseteq Leaves(u) /\ j.two \subseteq Leaves(u) /\ j.one # {} /\ j.two # {}
           S == {u \in Layouts : Good(u)}
<1>1. ASSUME NEW u \in Layouts, IsPaneTree(u) PROVE u \in S
  BY <1>1, JointsEquation DEF IsPaneTree
<1>2. ASSUME NEW u \in Layouts, IsSplitTree(u), u.first \in Layouts, u.second \in Layouts, u.first \in S, u.second \in S
      PROVE u \in S
  <2>1. Joints(u) = {RootJoint(u)} \cup Joints(u.first) \cup Joints(u.second)
    BY <1>2, JointsEquation DEF IsSplitTree
  <2>2. Leaves(u) = Leaves(u.first) \cup Leaves(u.second)
    BY <1>2, SplitLeaves
  <2>3. RootJoint(u) \in AllJoints
    BY <1>2, RootJointType
  <2>4. RootJoint(u).one = Leaves(u.first) /\ RootJoint(u).two = Leaves(u.second)
    BY DEF RootJoint, Joint
  <2>5. Leaves(u.first) # {} /\ Leaves(u.second) # {}
    BY <1>2, LeavesType
  <2>6. Good(u.first) /\ Good(u.second)
    BY <1>2
  <2>7. Good(u)
    BY <2>1, <2>2, <2>3, <2>4, <2>5, <2>6
  <2>8. QED
    BY <2>7
<1> HIDE DEF S
<1>3. Layouts \subseteq S
  BY <1>1, <1>2, TreeInduction
<1>4. QED
  BY <1>3 DEF S

-----------------------------------------------------------------------------
(* Splitting and closing, by joints *)

\* What a pane split off s adds to a set of sessions, and to a joint.
With(A, s, n) == IF s \in A THEN A \cup {n} ELSE A
JointWith(j, s, n) == Joint(j.direction, j.ratio, With(j.one, s, n), With(j.two, s, n))

\* The pane of s is split.
Grow(J, s, n, d) == {JointWith(j, s, n) : j \in J} \cup {Joint(d, Half, {s}, {n})}

\* A joint, as far as the sessions of K go; whether it still separates any.
JointIn(j, K) == Joint(j.direction, j.ratio, j.one \cap K, j.two \cap K)
Meets(j, K) == j.one \cap K # {} /\ j.two \cap K # {}

\* What is left when the panes of other sessions than those of K are closed.
Rest(J, K) == {JointIn(j, K) : j \in {i \in J : Meets(i, K)}}

\* A joint is its four fields.
LEMMA JointFields ==
  ASSUME NEW j \in AllJoints PROVE j = Joint(j.direction, j.ratio, j.one, j.two)
BY DEF AllJoints, Joint

\* A split of s leaves alone the joints that do not have s.
LEMMA GrowAside ==
  ASSUME NEW J \in SUBSET AllJoints, NEW s, NEW n, \A j \in J : s \notin j.one /\ s \notin j.two
  PROVE {JointWith(j, s, n) : j \in J} = J
<1>1. ASSUME NEW j \in J PROVE JointWith(j, s, n) = j
  BY JointFields DEF JointWith, With
<1>2. QED
  BY <1>1

\* The fields of a split.
LEMMA SplitTreeParts ==
  ASSUME NEW d, NEW r, NEW a, NEW b
  PROVE /\ Split(d, r, a, b).type = "split" /\ Split(d, r, a, b).direction = d /\ Split(d, r, a, b).ratio = r
        /\ Split(d, r, a, b).first = a /\ Split(d, r, a, b).second = b
        /\ d \in Directions /\ r \in Ratios \cup {Half} => IsSplitTree(Split(d, r, a, b))
BY DEF Split, IsSplitTree

\* All there is to know of a tree made of two.
LEMMA Joined ==
  ASSUME NEW k \in Nat, k + 1 <= MaxSessions, NEW a \in Level[k], NEW b \in Level[k],
         NEW d \in Directions, NEW r \in Ratios \cup {Half}
  PROVE /\ Split(d, r, a, b) \in Level[k + 1] /\ Split(d, r, a, b) \in Layouts
        /\ a \in Layouts /\ b \in Layouts
        /\ Leaves(Split(d, r, a, b)) = Leaves(a) \cup Leaves(b)
        /\ Size(Split(d, r, a, b)) = Size(a) + Size(b)
        /\ \A n : Twice(Split(d, r, a, b), n) <=> Twice(a, n) \/ Twice(b, n) \/ (n \in Leaves(a) /\ n \in Leaves(b))
        /\ Joints(Split(d, r, a, b)) = {Joint(d, r, Leaves(a), Leaves(b))} \cup Joints(a) \cup Joints(b)
<1> DEFINE t == Split(d, r, a, b)
<1>1. t \in Level[k + 1]
  BY SplitLevel
<1>2. t \in Layouts /\ a \in Layouts /\ b \in Layouts
  <2>1. k <= MaxSessions /\ k + 1 \in Nat
    BY MaxSessionsNat
  <2>2. Level[k] \subseteq Layouts /\ Level[k + 1] \subseteq Layouts
    BY <2>1, LevelIsLayout
  <2>3. QED
    BY <1>1, <2>2
<1>3. t.type = "split" /\ t.direction = d /\ t.ratio = r /\ t.first = a /\ t.second = b /\ IsSplitTree(t)
  BY SplitTreeParts
<1> HIDE DEF t
<1>4. /\ Leaves(t) = Leaves(a) \cup Leaves(b) /\ Size(t) = Size(a) + Size(b)
      /\ \A n : Twice(t, n) <=> Twice(a, n) \/ Twice(b, n) \/ (n \in Leaves(a) /\ n \in Leaves(b))
  BY <1>2, <1>3, SplitLeaves
<1>5. Joints(t) = {Joint(d, r, Leaves(a), Leaves(b))} \cup Joints(a) \cup Joints(b)
  BY <1>2, <1>3, JointsEquation DEF RootJoint
<1>6. QED
  BY <1>1, <1>2, <1>4, <1>5 DEF t

\* The same, of a tree taken apart.
LEMMA Parted ==
  ASSUME NEW k \in Nat, k <= MaxSessions, NEW t \in Level[k], ~IsPaneTree(t)
  PROVE /\ k - 1 \in Nat /\ (k - 1) + 1 = k
        /\ IsSplitTree(t) /\ t.first \in Level[k - 1] /\ t.second \in Level[k - 1]
        /\ t.first \in Layouts /\ t.second \in Layouts
        /\ Leaves(t) = Leaves(t.first) \cup Leaves(t.second)
        /\ Size(t) = Size(t.first) + Size(t.second)
        /\ \A n : Twice(t, n) <=> Twice(t.first, n) \/ Twice(t.second, n) \/ (n \in Leaves(t.first) /\ n \in Leaves(t.second))
        /\ Joints(t) = {RootJoint(t)} \cup Joints(t.first) \cup Joints(t.second)
<1>1. IsSplitTree(t) /\ k # 0 /\ t.first \in Level[k - 1] /\ t.second \in Level[k - 1]
  BY LevelCases
<1>2. k - 1 \in Nat /\ (k - 1) + 1 = k /\ k - 1 <= MaxSessions
  BY <1>1, MaxSessionsNat
<1>3. Level[k] \subseteq Layouts /\ Level[k - 1] \subseteq Layouts
  BY <1>2, LevelIsLayout
<1>4. t \in Layouts /\ t.first \in Layouts /\ t.second \in Layouts
  BY <1>1, <1>3
<1>5. t.type # "pane"
  BY <1>1 DEF IsSplitTree
<1>6. QED
  BY <1>1, <1>2, <1>4, <1>5, SplitLeaves, JointsEquation

\* Split at a pane there is not.
LEMMA SplitNothing ==
  ASSUME NEW s \in Sessions, NEW n \in Sessions, NEW d \in Directions
  PROVE \A t \in Layouts : s \notin Leaves(t) => SplitLayoutNode(t, s, n, d) = t
<1> DEFINE S == {t \in Layouts : s \notin Leaves(t) => SplitLayoutNode(t, s, n, d) = t}
<1>1. ASSUME NEW t \in Layouts, IsPaneTree(t) PROVE t \in S
  <2> SUFFICES ASSUME s \notin Leaves(t) PROVE SplitLayoutNode(t, s, n, d) = t
    OBVIOUS
  <2>1. t # Pane(s)
    BY PaneLeaves
  <2>2. QED
    BY <1>1, <2>1, SplitEquation DEF IsPaneTree
<1>2. ASSUME NEW t \in Layouts, IsSplitTree(t), t.first \in Layouts, t.second \in Layouts, t.first \in S, t.second \in S
      PROVE t \in S
  <2> SUFFICES ASSUME s \notin Leaves(t) PROVE SplitLayoutNode(t, s, n, d) = t
    OBVIOUS
  <2>1. s \notin Leaves(t.first) /\ s \notin Leaves(t.second)
    BY <1>2, SplitLeaves
  <2>2. t.type = "split" /\ t # Pane(s) /\ ~HasSession(t.first, s)
    BY <1>2, <2>1 DEF IsSplitTree, Pane, HasSession, Leaves
  <2>3. SplitLayoutNode(t.second, s, n, d) = t.second
    BY <1>2, <2>1
  <2>4. SplitLayoutNode(t, s, n, d) = Split(t.direction, t.ratio, t.first, t.second)
    BY <2>2, <2>3, SplitEquation
  <2>5. QED
    BY <1>2, <2>4 DEF IsSplitTree
<1> HIDE DEF S
<1>3. Layouts \subseteq S
  BY <1>1, <1>2, TreeInduction
<1>4. QED
  BY <1>3 DEF S

\* v is t with the pane of s split for n.
IsGrown(v, t, s, n, d) ==
  /\ Leaves(v) = Leaves(t) \cup {n} /\ Distinct(v)
  /\ Joints(v) = Grow(Joints(t), s, n, d)

\* SplitLayoutNode adds the new session beside the one split, and the joint
\* between them.
LEMMA SplitGrows ==
  ASSUME NEW s \in Sessions, NEW n \in Sessions, NEW d \in Directions
  PROVE \A t \in Layouts : \A k \in Nat :
          k + 1 <= MaxSessions /\ t \in Level[k] /\ Distinct(t) /\ s \in Leaves(t) /\ n \notin Leaves(t) =>
            SplitLayoutNode(t, s, n, d) \in Level[k + 1] /\ IsGrown(SplitLayoutNode(t, s, n, d), t, s, n, d)
<1> DEFINE V(t) == SplitLayoutNode(t, s, n, d)
           S == {t \in Layouts : \A k \in Nat :
                   k + 1 <= MaxSessions /\ t \in Level[k] /\ Distinct(t) /\ s \in Leaves(t) /\ n \notin Leaves(t) =>
                     V(t) \in Level[k + 1] /\ IsGrown(V(t), t, s, n, d)}
<1>1. ASSUME NEW t \in Layouts, IsPaneTree(t) PROVE t \in S
  <2> SUFFICES ASSUME NEW k \in Nat, k + 1 <= MaxSessions, s \in Leaves(t), n \notin Leaves(t)
               PROVE V(t) \in Level[k + 1] /\ IsGrown(V(t), t, s, n, d)
    OBVIOUS
  <2>1. t = Pane(s)
    BY <1>1, PaneLeaves DEF IsPaneTree
  <2>2. V(t) = Split(d, Half, Pane(s), Pane(n))
    BY <1>1, <2>1, SplitEquation DEF IsPaneTree
  <2>3. Pane(s) \in Level[k] /\ Pane(n) \in Level[k] /\ Half \in Ratios \cup {Half}
    BY PaneLevel
  <2>4. /\ V(t) \in Level[k + 1]
        /\ Leaves(V(t)) = Leaves(Pane(s)) \cup Leaves(Pane(n))
        /\ \A m : Twice(V(t), m) <=> Twice(Pane(s), m) \/ Twice(Pane(n), m) \/ (m \in Leaves(Pane(s)) /\ m \in Leaves(Pane(n)))
        /\ Joints(V(t)) = {Joint(d, Half, Leaves(Pane(s)), Leaves(Pane(n)))} \cup Joints(Pane(s)) \cup Joints(Pane(n))
    BY <2>2, <2>3, Joined
  <2>5. Leaves(Pane(s)) = {s} /\ Leaves(Pane(n)) = {n} /\ \A m : ~Twice(Pane(s), m) /\ ~Twice(Pane(n), m)
    BY PaneLeaves
  <2>6. Joints(Pane(s)) = {} /\ Joints(Pane(n)) = {}
    BY PaneIsTree, JointsEquation DEF IsPaneTree
  <2>7. s # n
    BY <2>1, <2>5
  <2> HIDE DEF V
  <2>8. QED
    BY <2>1, <2>4, <2>5, <2>6, <2>7 DEF IsGrown, Distinct, Grow
<1>2. ASSUME NEW t \in Layouts, IsSplitTree(t), t.first \in Layouts, t.second \in Layouts, t.first \in S, t.second \in S
      PROVE t \in S
  <2> SUFFICES ASSUME NEW k \in Nat, k + 1 <= MaxSessions, t \in Level[k], Distinct(t), s \in Leaves(t), n \notin Leaves(t)
               PROVE V(t) \in Level[k + 1] /\ IsGrown(V(t), t, s, n, d)
    OBVIOUS
  <2> DEFINE a == t.first
             b == t.second
             J == Joints(t)
  <2>0. ~IsPaneTree(t) /\ t.type = "split" /\ t # Pane(s) /\ k <= MaxSessions
    BY <1>2, MaxSessionsNat DEF IsPaneTree, IsSplitTree, Pane
  <2>1. /\ k - 1 \in Nat /\ (k - 1) + 1 = k /\ a \in Level[k - 1] /\ b \in Level[k - 1]
        /\ Leaves(t) = Leaves(a) \cup Leaves(b)
        /\ \A m : Twice(t, m) <=> Twice(a, m) \/ Twice(b, m) \/ (m \in Leaves(a) /\ m \in Leaves(b))
        /\ J = {RootJoint(t)} \cup Joints(a) \cup Joints(b)
    BY <2>0, Parted
  <2>2. Level[k - 1] \subseteq Level[k]
    BY <2>1, LevelGrows
  <2>3. Distinct(a) /\ Distinct(b) /\ \A m \in Leaves(a) : m \notin Leaves(b)
    BY <2>1 DEF Distinct
  <2>4. n \notin Leaves(a) /\ n \notin Leaves(b) /\ k <= MaxSessions /\ (k - 1) + 1 <= MaxSessions
    BY <2>0, <2>1
  <2>5. /\ Joints(a) \in SUBSET AllJoints /\ \A j \in Joints(a) : j.one \subseteq Leaves(a) /\ j.two \subseteq Leaves(a)
        /\ Joints(b) \in SUBSET AllJoints /\ \A j \in Joints(b) : j.one \subseteq Leaves(b) /\ j.two \subseteq Leaves(b)
    BY <1>2, JointsType
  <2>6. RootJoint(t) = Joint(t.direction, t.ratio, Leaves(a), Leaves(b))
    BY DEF RootJoint
  <2>7. JointWith(RootJoint(t), s, n) = Joint(t.direction, t.ratio, With(Leaves(a), s, n), With(Leaves(b), s, n))
    BY <2>6 DEF JointWith, Joint
  <2>8. Grow(J, s, n, d) = {JointWith(RootJoint(t), s, n)} \cup {JointWith(j, s, n) : j \in Joints(a)}
                             \cup {JointWith(j, s, n) : j \in Joints(b)} \cup {Joint(d, Half, {s}, {n})}
    BY <2>1 DEF Grow
  <2>9. t.direction \in Directions /\ t.ratio \in Ratios \cup {Half}
    BY <1>2 DEF IsSplitTree
  <2>10. CASE s \in Leaves(a)
    <3> DEFINE v == V(a)
    <3>1. HasSession(a, s) /\ s \notin Leaves(b)
      BY <2>3, <2>10 DEF HasSession, Leaves
    <3>2. V(t) = Split(t.direction, t.ratio, v, b)
      BY <2>0, <3>1, SplitEquation
    <3>3. v \in Level[k] /\ IsGrown(v, a, s, n, d)
      BY <1>2, <2>1, <2>3, <2>4, <2>10
    <3>4. b \in Level[k]
      BY <2>1, <2>2
    <3> HIDE DEF v, a, b, V
    <3>5. /\ V(t) \in Level[k + 1]
          /\ Leaves(V(t)) = Leaves(v) \cup Leaves(b)
          /\ \A m : Twice(V(t), m) <=> Twice(v, m) \/ Twice(b, m) \/ (m \in Leaves(v) /\ m \in Leaves(b))
          /\ Joints(V(t)) = {Joint(t.direction, t.ratio, Leaves(v), Leaves(b))} \cup Joints(v) \cup Joints(b)
      <4> DEFINE w == Split(t.direction, t.ratio, v, b)
      <4>1. /\ w \in Level[k + 1] /\ Leaves(w) = Leaves(v) \cup Leaves(b)
            /\ \A m : Twice(w, m) <=> Twice(v, m) \/ Twice(b, m) \/ (m \in Leaves(v) /\ m \in Leaves(b))
            /\ Joints(w) = {Joint(t.direction, t.ratio, Leaves(v), Leaves(b))} \cup Joints(v) \cup Joints(b)
        BY <3>3, <3>4, <2>9, Joined
      <4>2. V(t) = w
        BY <3>2
      <4> HIDE DEF w
      <4>3. QED
        BY <4>1, <4>2
    <3>6. Leaves(v) = Leaves(a) \cup {n} /\ Distinct(v) /\ Joints(v) = {JointWith(j, s, n) : j \in Joints(a)} \cup {Joint(d, Half, {s}, {n})}
      BY <3>3 DEF IsGrown, Grow
    <3>7. {JointWith(j, s, n) : j \in Joints(b)} = Joints(b)
      BY <2>5, <3>1, GrowAside
    <3>8. With(Leaves(a), s, n) = Leaves(v) /\ With(Leaves(b), s, n) = Leaves(b)
      BY <2>10, <3>1, <3>6 DEF With
    <3>9. Joints(V(t)) = Grow(J, s, n, d)
      BY <3>5, <3>6, <3>7, <3>8, <2>7, <2>8
    <3>10. Distinct(V(t))
      BY <3>5, <3>6, <2>3, <2>4 DEF Distinct
    <3>11. Leaves(V(t)) = Leaves(t) \cup {n}
      BY <3>5, <3>6, <2>1
    <3>12. QED
      BY <3>5, <3>9, <3>10, <3>11 DEF IsGrown, J
  <2>11. CASE s \notin Leaves(a)
    <3> DEFINE v == V(b)
    <3>1. ~HasSession(a, s) /\ s \in Leaves(b)
      BY <2>1, <2>11 DEF HasSession, Leaves
    <3>2. V(t) = Split(t.direction, t.ratio, a, v)
      BY <2>0, <3>1, SplitEquation
    <3>3. v \in Level[k] /\ IsGrown(v, b, s, n, d)
      BY <1>2, <2>1, <2>3, <2>4, <3>1
    <3>4. a \in Level[k]
      BY <2>1, <2>2
    <3> HIDE DEF v, a, b, V
    <3>5. /\ V(t) \in Level[k + 1]
          /\ Leaves(V(t)) = Leaves(a) \cup Leaves(v)
          /\ \A m : Twice(V(t), m) <=> Twice(a, m) \/ Twice(v, m) \/ (m \in Leaves(a) /\ m \in Leaves(v))
          /\ Joints(V(t)) = {Joint(t.direction, t.ratio, Leaves(a), Leaves(v))} \cup Joints(a) \cup Joints(v)
      <4> DEFINE w == Split(t.direction, t.ratio, a, v)
      <4>1. /\ w \in Level[k + 1] /\ Leaves(w) = Leaves(a) \cup Leaves(v)
            /\ \A m : Twice(w, m) <=> Twice(a, m) \/ Twice(v, m) \/ (m \in Leaves(a) /\ m \in Leaves(v))
            /\ Joints(w) = {Joint(t.direction, t.ratio, Leaves(a), Leaves(v))} \cup Joints(a) \cup Joints(v)
        BY <3>3, <3>4, <2>9, Joined
      <4>2. V(t) = w
        BY <3>2
      <4> HIDE DEF w
      <4>3. QED
        BY <4>1, <4>2
    <3>6. Leaves(v) = Leaves(b) \cup {n} /\ Distinct(v) /\ Joints(v) = {JointWith(j, s, n) : j \in Joints(b)} \cup {Joint(d, Half, {s}, {n})}
      BY <3>3 DEF IsGrown, Grow
    <3>7. {JointWith(j, s, n) : j \in Joints(a)} = Joints(a)
      BY <2>5, <2>11, GrowAside
    <3>8. With(Leaves(b), s, n) = Leaves(v) /\ With(Leaves(a), s, n) = Leaves(a)
      BY <2>11, <3>1, <3>6 DEF With
    <3>9. Joints(V(t)) = Grow(J, s, n, d)
      BY <3>5, <3>6, <3>7, <3>8, <2>7, <2>8
    <3>10. Distinct(V(t))
      BY <3>5, <3>6, <2>3, <2>4 DEF Distinct
    <3>11. Leaves(V(t)) = Leaves(t) \cup {n}
      BY <3>5, <3>6, <2>1
    <3>12. QED
      BY <3>5, <3>9, <3>10, <3>11 DEF IsGrown, J
  <2>12. QED
    BY <2>10, <2>11
<1> HIDE DEF S
<1>3. Layouts \subseteq S
  BY <1>1, <1>2, TreeInduction
<1>4. QED
  BY <1>3 DEF S

\* What is left of joints taken together.
LEMMA RestUnion ==
  ASSUME NEW I, NEW J, NEW K PROVE Rest(I \cup J, K) = Rest(I, K) \cup Rest(J, K)
BY DEF Rest

\* What is left of one joint.
LEMMA RestOne ==
  ASSUME NEW j, NEW K PROVE Rest({j}, K) = IF Meets(j, K) THEN {JointIn(j, K)} ELSE {}
BY DEF Rest

\* Nothing is closed.
LEMMA RestAll ==
  ASSUME NEW J \in SUBSET AllJoints, NEW K,
         \A j \in J : j.one \subseteq K /\ j.two \subseteq K /\ j.one # {} /\ j.two # {}
  PROVE Rest(J, K) = J
<1>1. ASSUME NEW j \in J PROVE Meets(j, K) /\ JointIn(j, K) = j
  <2>1. j.one \cap K = j.one /\ j.two \cap K = j.two
    OBVIOUS
  <2>2. j = Joint(j.direction, j.ratio, j.one, j.two) /\ j.one # {} /\ j.two # {}
    BY JointFields
  <2>3. QED
    BY <2>1, <2>2 DEF Meets, JointIn
<1>2. QED
  BY <1>1 DEF Rest

\* Only the sessions of the joints matter.
LEMMA RestSame ==
  ASSUME NEW J, NEW L, NEW K, NEW M, \A j \in J : j.one \subseteq L /\ j.two \subseteq L,
         K \cap L = M \cap L
  PROVE Rest(J, K) = Rest(J, M)
<1>1. ASSUME NEW j \in J PROVE (Meets(j, K) <=> Meets(j, M)) /\ JointIn(j, K) = JointIn(j, M)
  <2>1. j.one \cap K = j.one \cap M /\ j.two \cap K = j.two \cap M
    OBVIOUS
  <2>2. QED
    BY <2>1 DEF Meets, JointIn
<1>2. QED
  BY <1>1 DEF Rest

\* Nothing changes when every session of the tree stays.
LEMMA TreeRestAll ==
  ASSUME NEW t \in Layouts, NEW K, Leaves(t) \subseteq K PROVE Rest(Joints(t), K) = Joints(t)
<1>1. /\ Joints(t) \in SUBSET AllJoints
      /\ \A j \in Joints(t) : j.one \subseteq K /\ j.two \subseteq K /\ j.one # {} /\ j.two # {}
  BY JointsType
<1>2. QED
  BY <1>1, RestAll

\* Only the tree's own sessions count for what is left of it.
LEMMA TreeRestSame ==
  ASSUME NEW t \in Layouts, NEW K, NEW M, K \cap Leaves(t) = M \cap Leaves(t) PROVE Rest(Joints(t), K) = Rest(Joints(t), M)
<1>1. \A j \in Joints(t) : j.one \subseteq Leaves(t) /\ j.two \subseteq Leaves(t)
  BY JointsType
<1>2. QED
  BY <1>1, RestSame, ZenonT(60)

\* A pane has no joints.
LEMMA PaneJoints ==
  ASSUME NEW s \in Sessions PROVE Joints(Pane(s)) = {}
BY PaneIsTree, JointsEquation DEF IsPaneTree

\* Close a pane there is not.
LEMMA CloseNothing ==
  ASSUME NEW s \in Sessions
  PROVE \A t \in Layouts : s \notin Leaves(t) => ClosePaneInLayout(t, s) = t
<1> DEFINE S == {t \in Layouts : s \notin Leaves(t) => ClosePaneInLayout(t, s) = t}
<1>1. ASSUME NEW t \in Layouts, IsPaneTree(t) PROVE t \in S
  BY <1>1, CloseEquation DEF IsPaneTree
<1>2. ASSUME NEW t \in Layouts, IsSplitTree(t), t.first \in Layouts, t.second \in Layouts, t.first \in S, t.second \in S
      PROVE t \in S
  <2> SUFFICES ASSUME s \notin Leaves(t) PROVE ClosePaneInLayout(t, s) = t
    OBVIOUS
  <2>1. s \notin Leaves(t.first) /\ s \notin Leaves(t.second)
    BY <1>2, SplitLeaves
  <2>2. t.type = "split" /\ t.first # Pane(s) /\ t.second # Pane(s) /\ ~HasSession(t.first, s)
    BY <1>2, <2>1, PaneLeaves DEF IsSplitTree, HasSession, Leaves
  <2>3. ClosePaneInLayout(t.second, s) = t.second
    BY <1>2, <2>1
  <2>4. ClosePaneInLayout(t, s) = Split(t.direction, t.ratio, t.first, t.second)
    BY <2>2, <2>3, CloseEquation
  <2>5. QED
    BY <1>2, <2>4 DEF IsSplitTree
<1> HIDE DEF S
<1>3. Layouts \subseteq S
  BY <1>1, <1>2, TreeInduction
<1>4. QED
  BY <1>3 DEF S

\* Nothing is closed in a single pane.
LEMMA ClosePaneTree ==
  ASSUME NEW s \in Sessions, NEW n \in Sessions PROVE ClosePaneInLayout(Pane(n), s) = Pane(n)
BY PaneIsTree, CloseEquation DEF IsPaneTree

\* v is t without the pane of s: what is left of its joints.
IsClosed(v, t, s) ==
  /\ Leaves(v) = Leaves(t) \ {s} /\ Distinct(v)
  /\ Joints(v) = Rest(Joints(t), Leaves(t) \ {s})

\* ClosePaneInLayout removes the session's pane and leaves the rest of the
\* joints.
LEMMA CloseRests ==
  ASSUME NEW s \in Sessions
  PROVE \A t \in Layouts : \A k \in Nat :
          k <= MaxSessions /\ t \in Level[k] /\ Distinct(t) /\ s \in Leaves(t) /\ t # Pane(s) =>
            ClosePaneInLayout(t, s) \in Level[k] /\ IsClosed(ClosePaneInLayout(t, s), t, s)
<1> DEFINE V(t) == ClosePaneInLayout(t, s)
           S == {t \in Layouts : \A k \in Nat :
                   k <= MaxSessions /\ t \in Level[k] /\ Distinct(t) /\ s \in Leaves(t) /\ t # Pane(s) =>
                     V(t) \in Level[k] /\ IsClosed(V(t), t, s)}
<1>1. ASSUME NEW t \in Layouts, IsPaneTree(t) PROVE t \in S
  <2>1. s \in Leaves(t) => t = Pane(s)
    BY <1>1, PaneLeaves DEF IsPaneTree
  <2>2. QED
    BY <2>1
<1>2. ASSUME NEW t \in Layouts, IsSplitTree(t), t.first \in Layouts, t.second \in Layouts, t.first \in S, t.second \in S
      PROVE t \in S
  <2> SUFFICES ASSUME NEW k \in Nat, k <= MaxSessions, t \in Level[k], Distinct(t), s \in Leaves(t)
               PROVE V(t) \in Level[k] /\ IsClosed(V(t), t, s)
    OBVIOUS
  <2> DEFINE a == t.first
             b == t.second
             J == Joints(t)
             K == Leaves(t) \ {s}
  <2>0. ~IsPaneTree(t) /\ t.type = "split"
    BY <1>2 DEF IsPaneTree, IsSplitTree
  <2>1. /\ k - 1 \in Nat /\ (k - 1) + 1 = k /\ a \in Level[k - 1] /\ b \in Level[k - 1]
        /\ Leaves(t) = Leaves(a) \cup Leaves(b)
        /\ \A m : Twice(t, m) <=> Twice(a, m) \/ Twice(b, m) \/ (m \in Leaves(a) /\ m \in Leaves(b))
        /\ J = {RootJoint(t)} \cup Joints(a) \cup Joints(b)
    BY <2>0, Parted
  <2>2. Level[k - 1] \subseteq Level[k] /\ k - 1 <= MaxSessions
    BY <2>1, LevelGrows, MaxSessionsNat
  <2>3. Distinct(a) /\ Distinct(b) /\ \A m \in Leaves(a) : m \notin Leaves(b)
    BY <2>1 DEF Distinct
  <2>4. a \in Layouts /\ b \in Layouts
    BY <1>2
  <2>6. RootJoint(t) = Joint(t.direction, t.ratio, Leaves(a), Leaves(b))
    BY DEF RootJoint
  <2>7. JointIn(RootJoint(t), K) = Joint(t.direction, t.ratio, Leaves(a) \cap K, Leaves(b) \cap K)
    BY <2>6 DEF JointIn, Joint
  <2>8. Meets(RootJoint(t), K) <=> Leaves(a) \cap K # {} /\ Leaves(b) \cap K # {}
    BY <2>6 DEF Meets, Joint
  <2>9. t.direction \in Directions /\ t.ratio \in Ratios \cup {Half}
    BY <1>2 DEF IsSplitTree
  <2>10. Rest(J, K) = (IF Meets(RootJoint(t), K) THEN {JointIn(RootJoint(t), K)} ELSE {}) \cup Rest(Joints(a), K) \cup Rest(Joints(b), K)
    <3> HIDE DEF a, b, J, K
    <3>1. \A X, Y : Rest(X \cup Y, K) = Rest(X, K) \cup Rest(Y, K)
      BY RestUnion
    <3>2. Rest(J, K) = Rest({RootJoint(t)}, K) \cup Rest(Joints(a), K) \cup Rest(Joints(b), K)
      <4> DEFINE X == {RootJoint(t)} \cup Joints(a)
      <4>1. Rest(X, K) = Rest({RootJoint(t)}, K) \cup Rest(Joints(a), K)
        BY <3>1
      <4>2. J = X \cup Joints(b)
        BY <2>1
      <4> HIDE DEF X
      <4>3. Rest(J, K) = Rest(X, K) \cup Rest(Joints(b), K)
        BY <4>2, <3>1
      <4>4. QED
        BY <4>1, <4>3
    <3>3. QED
      BY <3>2, RestOne
  <2>11. CASE a = Pane(s)
    <3>1. V(t) = b
      BY <2>0, <2>11, CloseEquation
    <3>2. Leaves(a) = {s} /\ Joints(a) = {}
      BY <2>11, PaneLeaves, PaneJoints
    <3>3. Leaves(b) \subseteq K /\ K = Leaves(b) /\ ~Meets(RootJoint(t), K)
      BY <3>2, <2>1, <2>3, <2>8
    <3>4. Rest(Joints(b), K) = Joints(b)
      BY <3>3, <2>4, TreeRestAll
    <3>5. Rest(Joints(a), K) = {}
      BY <3>2 DEF Rest
    <3> HIDE DEF V, a, b, J, K
    <3>6. Joints(V(t)) = Rest(J, K)
      BY <3>1, <3>3, <3>4, <3>5, <2>10
    <3>7. V(t) \in Level[k] /\ Leaves(V(t)) = K /\ Distinct(V(t))
      BY <3>1, <3>3, <2>1, <2>2, <2>3
    <3>8. QED
      BY <3>6, <3>7 DEF IsClosed, J, K
  <2>12. CASE a # Pane(s) /\ b = Pane(s)
    <3>1. V(t) = a
      BY <2>0, <2>12, CloseEquation
    <3>2. Leaves(b) = {s} /\ Joints(b) = {}
      BY <2>12, PaneLeaves, PaneJoints
    <3>3. Leaves(a) \subseteq K /\ K = Leaves(a) /\ ~Meets(RootJoint(t), K)
      BY <3>2, <2>1, <2>3, <2>8
    <3>4. Rest(Joints(a), K) = Joints(a)
      BY <3>3, <2>4, TreeRestAll
    <3>5. Rest(Joints(b), K) = {}
      BY <3>2 DEF Rest
    <3> HIDE DEF V, a, b, J, K
    <3>6. Joints(V(t)) = Rest(J, K)
      BY <3>1, <3>3, <3>4, <3>5, <2>10
    <3>7. V(t) \in Level[k] /\ Leaves(V(t)) = K /\ Distinct(V(t))
      BY <3>1, <3>3, <2>1, <2>2, <2>3
    <3>8. QED
      BY <3>6, <3>7 DEF IsClosed, J, K
  <2>13. CASE a # Pane(s) /\ b # Pane(s) /\ s \in Leaves(a)
    <3> DEFINE v == V(a)
    <3>1. HasSession(a, s) /\ s \notin Leaves(b)
      BY <2>3, <2>13 DEF HasSession, Leaves
    <3>2. V(t) = Split(t.direction, t.ratio, v, b)
      BY <2>0, <2>13, <3>1, CloseEquation
    <3>3. v \in Level[k - 1] /\ IsClosed(v, a, s)
      BY <1>2, <2>1, <2>2, <2>3, <2>13
    <3>4. v \in Layouts /\ Leaves(v) # {} /\ Leaves(b) # {}
      BY <3>3, <2>1, <2>2, <2>4, LevelIsLayout, LeavesType
    <3>5. Rest(Joints(b), K) = Joints(b)
      BY <3>1, <2>1, <2>4, TreeRestAll
    <3>6. Rest(Joints(a), K) = Rest(Joints(a), Leaves(a) \ {s})
      <4>1. K \cap Leaves(a) = (Leaves(a) \ {s}) \cap Leaves(a)
        BY <2>1
      <4>2. QED
        BY <4>1, <2>4, TreeRestSame
    <3>7. Leaves(a) \cap K = Leaves(v) /\ Leaves(b) \cap K = Leaves(b) /\ K = Leaves(v) \cup Leaves(b)
      BY <3>1, <3>3, <2>1 DEF IsClosed
    <3> HIDE DEF v, a, b, V, J, K
    <3>8. /\ V(t) \in Level[(k - 1) + 1]
          /\ Leaves(V(t)) = Leaves(v) \cup Leaves(b)
          /\ \A m : Twice(V(t), m) <=> Twice(v, m) \/ Twice(b, m) \/ (m \in Leaves(v) /\ m \in Leaves(b))
          /\ Joints(V(t)) = {Joint(t.direction, t.ratio, Leaves(v), Leaves(b))} \cup Joints(v) \cup Joints(b)
      BY <3>2, <3>3, <2>1, <2>9, Joined
    <3>9. Joints(V(t)) = Rest(J, K)
      BY <3>3, <3>4, <3>5, <3>6, <3>7, <3>8, <2>7, <2>8, <2>10 DEF IsClosed
    <3>10. Distinct(V(t))
      BY <3>3, <3>8, <2>3 DEF Distinct, IsClosed
    <3>11. Leaves(V(t)) = K /\ V(t) \in Level[k]
      BY <3>7, <3>8, <2>1
    <3>12. QED
      BY <3>9, <3>10, <3>11 DEF IsClosed, J, K
  <2>14. CASE a # Pane(s) /\ b # Pane(s) /\ s \notin Leaves(a)
    <3> DEFINE v == V(b)
    <3>1. ~HasSession(a, s) /\ s \in Leaves(b)
      BY <2>1, <2>14 DEF HasSession, Leaves
    <3>2. V(t) = Split(t.direction, t.ratio, a, v)
      BY <2>0, <2>14, <3>1, CloseEquation
    <3>3. v \in Level[k - 1] /\ IsClosed(v, b, s)
      BY <1>2, <2>1, <2>2, <2>3, <2>14, <3>1
    <3>4. v \in Layouts /\ Leaves(v) # {} /\ Leaves(a) # {}
      BY <3>3, <2>1, <2>2, <2>4, LevelIsLayout, LeavesType
    <3>5. Rest(Joints(a), K) = Joints(a)
      BY <2>14, <2>1, <2>4, TreeRestAll
    <3>6. Rest(Joints(b), K) = Rest(Joints(b), Leaves(b) \ {s})
      <4>1. K \cap Leaves(b) = (Leaves(b) \ {s}) \cap Leaves(b)
        BY <2>1
      <4>2. QED
        BY <4>1, <2>4, TreeRestSame
    <3>7. Leaves(b) \cap K = Leaves(v) /\ Leaves(a) \cap K = Leaves(a) /\ K = Leaves(a) \cup Leaves(v)
      BY <2>14, <3>3, <2>1 DEF IsClosed
    <3> HIDE DEF v, a, b, V, J, K
    <3>8. /\ V(t) \in Level[(k - 1) + 1]
          /\ Leaves(V(t)) = Leaves(a) \cup Leaves(v)
          /\ \A m : Twice(V(t), m) <=> Twice(a, m) \/ Twice(v, m) \/ (m \in Leaves(a) /\ m \in Leaves(v))
          /\ Joints(V(t)) = {Joint(t.direction, t.ratio, Leaves(a), Leaves(v))} \cup Joints(a) \cup Joints(v)
      BY <3>2, <3>3, <2>1, <2>9, Joined
    <3>9. Joints(V(t)) = Rest(J, K)
      BY <3>3, <3>4, <3>5, <3>6, <3>7, <3>8, <2>7, <2>8, <2>10 DEF IsClosed
    <3>10. Distinct(V(t))
      BY <3>3, <3>8, <2>3 DEF Distinct, IsClosed
    <3>11. Leaves(V(t)) = K /\ V(t) \in Level[k]
      BY <3>7, <3>8, <2>1
    <3>12. QED
      BY <3>9, <3>10, <3>11 DEF IsClosed, J, K
  <2>15. QED
    BY <2>11, <2>12, <2>13, <2>14
<1> HIDE DEF S
<1>3. Layouts \subseteq S
  BY <1>1, <1>2, TreeInduction
<1>4. QED
  BY <1>3 DEF S

-----------------------------------------------------------------------------
\* The copy of a layout shows the new sessions.
LEMMA CopyShows ==
  ASSUME NEW mapping
  PROVE \A t \in Layouts : \A k \in Nat :
          /\ k <= MaxSessions /\ t \in Level[k] /\ Distinct(t)
          /\ \A s \in Leaves(t) : mapping[s] \in Sessions
          /\ \A s, z \in Leaves(t) : mapping[s] = mapping[z] => s = z
          => /\ ReplaceAllSessions(t, mapping) \in Level[k]
             /\ Distinct(ReplaceAllSessions(t, mapping))
             /\ Leaves(ReplaceAllSessions(t, mapping)) = {mapping[s] : s \in Leaves(t)}
<1> DEFINE V(t) == ReplaceAllSessions(t, mapping)
           Fits(t, k) == /\ k <= MaxSessions /\ t \in Level[k] /\ Distinct(t)
                         /\ \A s \in Leaves(t) : mapping[s] \in Sessions
                         /\ \A s, z \in Leaves(t) : mapping[s] = mapping[z] => s = z
           Good(v, t, k) == v \in Level[k] /\ Distinct(v) /\ Leaves(v) = {mapping[s] : s \in Leaves(t)}
           S == {t \in Layouts : \A k \in Nat : Fits(t, k) => Good(V(t), t, k)}
<1>1. ASSUME NEW t \in Layouts, IsPaneTree(t) PROVE t \in S
  <2> SUFFICES ASSUME NEW k \in Nat, Fits(t, k) PROVE Good(V(t), t, k)
    OBVIOUS
  <2>1. t.type = "pane" /\ t.session \in Sessions /\ Leaves(t) = {t.session}
    BY <1>1, PaneLeaves DEF IsPaneTree
  <2>2. mapping[t.session] \in Sessions
    BY <2>1
  <2>3. V(t) = Pane(mapping[t.session])
    BY <2>1, CopyEquation
  <2>4. QED
    BY <2>1, <2>2, <2>3, PaneLevel, PaneLeaves DEF Distinct
<1>2. ASSUME NEW t \in Layouts, IsSplitTree(t), t.first \in Layouts, t.second \in Layouts, t.first \in S, t.second \in S
      PROVE t \in S
  <2> SUFFICES ASSUME NEW k \in Nat, Fits(t, k) PROVE Good(V(t), t, k)
    OBVIOUS
  <2> DEFINE a == t.first
             b == t.second
  <2>0. ~IsPaneTree(t) /\ t.type # "pane"
    BY <1>2 DEF IsPaneTree, IsSplitTree
  <2>1. /\ k - 1 \in Nat /\ (k - 1) + 1 = k /\ a \in Level[k - 1] /\ b \in Level[k - 1]
        /\ Leaves(t) = Leaves(a) \cup Leaves(b)
        /\ \A m : Twice(t, m) <=> Twice(a, m) \/ Twice(b, m) \/ (m \in Leaves(a) /\ m \in Leaves(b))
    BY <2>0, Parted
  <2>2. k - 1 <= MaxSessions
    BY <2>1, MaxSessionsNat
  <2>3. Distinct(a) /\ Distinct(b) /\ \A m \in Leaves(a) : m \notin Leaves(b)
    BY <2>1 DEF Distinct
  <2>4. Good(V(a), a, k - 1) /\ Good(V(b), b, k - 1)
    BY <1>2, <2>1, <2>2, <2>3
  <2>5. V(t) = Split(t.direction, t.ratio, V(a), V(b))
    BY <2>0, CopyEquation
  <2>6. t.direction \in Directions /\ t.ratio \in Ratios \cup {Half}
    BY <1>2 DEF IsSplitTree
  <2>7. \A s \in Leaves(a) : \A z \in Leaves(b) : mapping[s] # mapping[z]
    BY <2>1, <2>3
  <2> HIDE DEF V
  <2>8. /\ V(t) \in Level[(k - 1) + 1]
        /\ Leaves(V(t)) = Leaves(V(a)) \cup Leaves(V(b))
        /\ \A m : Twice(V(t), m) <=> Twice(V(a), m) \/ Twice(V(b), m) \/ (m \in Leaves(V(a)) /\ m \in Leaves(V(b)))
    BY <2>1, <2>4, <2>5, <2>6, Joined
  <2>9. Distinct(V(t))
    BY <2>4, <2>7, <2>8 DEF Distinct
  <2>10. Leaves(V(t)) = {mapping[s] : s \in Leaves(t)}
    BY <2>1, <2>4, <2>8
  <2>11. QED
    BY <2>1, <2>8, <2>9, <2>10
<1> HIDE DEF S
<1>3. Layouts \subseteq S
  BY <1>1, <1>2, TreeInduction
<1>4. QED
  BY <1>3 DEF S

-----------------------------------------------------------------------------
(* What the joints determine *)

\* A joint with its ratio left aside.
JointPlain(j) == Joint(j.direction, Half, j.one, j.two)

\* The joints with their ratios left aside.
Plain(J) == {JointPlain(j) : j \in J}

\* A node of the page with its ratio left aside.
ShapeOf(x) == IF IsPane(x) THEN x ELSE Node(x.path, [type |-> "split", direction |-> x.label.direction])

\* The shape of nodes taken together.
LEMMA ShapeUnion ==
  ASSUME NEW M, NEW N
  PROVE Shape(M \cup N) = Shape(M) \cup Shape(N)
BY DEF Shape

\* The shape of nodes moved.
LEMMA ShapeMoved ==
  ASSUME NEW N, NEW i PROVE Shape(Moved(i, N)) = Moved(i, Shape(N))
<1>1. ASSUME NEW x PROVE ShapeOf(Node(<<i>> \o x.path, x.label)) = Node(<<i>> \o ShapeOf(x).path, ShapeOf(x).label)
  BY DEF ShapeOf, Node, IsPane
<1>2. Shape(Moved(i, N)) = {ShapeOf(y) : y \in Moved(i, N)}
  BY DEF Shape, ShapeOf
<1>3. Shape(N) = {ShapeOf(y) : y \in N}
  BY DEF Shape, ShapeOf
<1>4. {ShapeOf(y) : y \in Moved(i, N)} = Moved(i, {ShapeOf(y) : y \in N})
  <2> DEFINE Up(x) == Node(<<i>> \o x.path, x.label)
  <2>1. \A x : ShapeOf(Up(x)) = Up(ShapeOf(x))
    BY <1>1
  <2>2. /\ Moved(i, N) = {Up(x) : x \in N}
        /\ Moved(i, {ShapeOf(y) : y \in N}) = {Up(z) : z \in {ShapeOf(y) : y \in N}}
    BY DEF Moved
  <2> HIDE DEF Up
  <2>3. {ShapeOf(y) : y \in {Up(x) : x \in N}} = {Up(z) : z \in {ShapeOf(y) : y \in N}}
    BY <2>1
  <2>4. QED
    BY <2>2, <2>3
<1>5. QED
  BY <1>2, <1>3, <1>4

\* The root of a split with its ratio left aside.
ShapeRoot(t) == Node(<<>>, [type |-> "split", direction |-> t.direction])

\* The shape of a split is its root's and that of its parts.
LEMMA ShapeEquation ==
  ASSUME NEW t \in Layouts, IsSplitTree(t), t.first \in Layouts, t.second \in Layouts
  PROVE Shape(ReconstructLayout(t)) =
          {ShapeRoot(t)} \cup Moved(1, Shape(ReconstructLayout(t.first))) \cup Moved(2, Shape(ReconstructLayout(t.second)))
<1> DEFINE a == ReconstructLayout(t.first)
           b == ReconstructLayout(t.second)
<1>1. ReconstructLayout(t) = {Root(t)} \cup Moved(1, a) \cup Moved(2, b)
  BY ReconEquation DEF IsSplitTree
<1>2. Shape({Root(t)}) = {ShapeRoot(t)}
  BY DEF Shape, Root, ShapeRoot, Node, IsPane, SplitLabel
<1>3. \A M, N : Shape(M \cup N) = Shape(M) \cup Shape(N)
  BY ShapeUnion
<1> HIDE DEF a, b
<1> DEFINE c == {Root(t)} \cup Moved(1, a)
<1>6. Shape(c) = Shape({Root(t)}) \cup Shape(Moved(1, a))
  BY <1>3
<1>7. ReconstructLayout(t) = c \cup Moved(2, b)
  BY <1>1
<1> HIDE DEF c
<1>8. Shape(ReconstructLayout(t)) = Shape(c) \cup Shape(Moved(2, b))
  BY <1>3, <1>7
<1>4. Shape(ReconstructLayout(t)) = Shape({Root(t)}) \cup Shape(Moved(1, a)) \cup Shape(Moved(2, b))
  BY <1>6, <1>8
<1>5. QED
  BY <1>2, <1>4, ShapeMoved DEF a, b

\* The joints that separate sessions of L only.
Inner(J, L) == {j \in J : j.one \cup j.two \subseteq L}

\* The root of a tree whose sessions are distinct is its only joint of all
\* its sessions; the others are those of its parts.
LEMMA RootIsWhole ==
  ASSUME NEW t \in Layouts, IsSplitTree(t), t.first \in Layouts, t.second \in Layouts, Distinct(t)
  PROVE /\ Leaves(t) = Leaves(t.first) \cup Leaves(t.second)
        /\ Leaves(t.first) \cap Leaves(t.second) = {} /\ Leaves(t.first) # {} /\ Leaves(t.second) # {}
        /\ Distinct(t.first) /\ Distinct(t.second)
        /\ RootJoint(t) \in Joints(t) /\ RootJoint(t).one \cup RootJoint(t).two = Leaves(t)
        /\ \A j \in Joints(t) : j.one \cup j.two = Leaves(t) => j = RootJoint(t)
        /\ Joints(t.first) = Inner(Joints(t), Leaves(t.first))
        /\ Joints(t.second) = Inner(Joints(t), Leaves(t.second))
<1> DEFINE a == t.first
           b == t.second
<1>1. /\ Leaves(t) = Leaves(a) \cup Leaves(b)
      /\ \A m : Twice(t, m) <=> Twice(a, m) \/ Twice(b, m) \/ (m \in Leaves(a) /\ m \in Leaves(b))
  BY SplitLeaves
<1>2. Joints(t) = {RootJoint(t)} \cup Joints(a) \cup Joints(b)
  BY JointsEquation DEF IsSplitTree
<1>3. Leaves(a) # {} /\ Leaves(b) # {}
  BY LeavesType
<1>4. Leaves(a) \cap Leaves(b) = {} /\ Distinct(a) /\ Distinct(b)
  BY <1>1 DEF Distinct
<1>5. /\ \A j \in Joints(a) : j.one \subseteq Leaves(a) /\ j.two \subseteq Leaves(a) /\ j.one # {}
      /\ \A j \in Joints(b) : j.one \subseteq Leaves(b) /\ j.two \subseteq Leaves(b) /\ j.one # {}
  BY JointsType
<1>6. RootJoint(t).one = Leaves(a) /\ RootJoint(t).two = Leaves(b)
  BY DEF RootJoint, Joint
<1> HIDE DEF a, b
<1>7. \A j \in Joints(t) : j.one \cup j.two = Leaves(t) => j = RootJoint(t)
  BY <1>1, <1>2, <1>3, <1>4, <1>5
<1>8. Joints(a) = Inner(Joints(t), Leaves(a))
  BY <1>2, <1>3, <1>4, <1>5, <1>6 DEF Inner
<1>9. Joints(b) = Inner(Joints(t), Leaves(b))
  BY <1>2, <1>3, <1>4, <1>5, <1>6 DEF Inner
<1>10. QED
  BY <1>1, <1>2, <1>3, <1>4, <1>6, <1>7, <1>8, <1>9 DEF a, b

\* Without its ratio a joint separates the same sessions.
LEMMA PlainFields ==
  ASSUME NEW j PROVE JointPlain(j).one = j.one /\ JointPlain(j).two = j.two /\ JointPlain(j).direction = j.direction
BY DEF JointPlain, Joint

\* What lies within L does not depend on the ratios.
LEMMA PlainInner ==
  ASSUME NEW I, NEW J, NEW L, Plain(I) = Plain(J) PROVE Plain(Inner(I, L)) = Plain(Inner(J, L))
<1>1. ASSUME NEW X, NEW Y, Plain(X) = Plain(Y), NEW i \in Inner(X, L) PROVE JointPlain(i) \in Plain(Inner(Y, L))
  <2>1. i \in X /\ i.one \cup i.two \subseteq L
    BY DEF Inner
  <2>2. PICK j \in Y : JointPlain(i) = JointPlain(j)
    BY <2>1, <1>1 DEF Plain
  <2>3. j.one = i.one /\ j.two = i.two
    BY <2>2, PlainFields
  <2>4. j \in Inner(Y, L)
    BY <2>1, <2>3 DEF Inner
  <2>5. QED
    BY <2>2, <2>4 DEF Plain
<1>2. \A i \in Inner(I, L) : JointPlain(i) \in Plain(Inner(J, L))
  BY <1>1
<1>3. \A i \in Inner(J, L) : JointPlain(i) \in Plain(Inner(I, L))
  BY <1>1
<1>4. QED
  BY <1>2, <1>3 DEF Plain

\* A split shows more than one session.
LEMMA OneLeaf ==
  ASSUME NEW t \in Layouts, Distinct(t), NEW s, Leaves(t) = {s} PROVE IsPaneTree(t) /\ t = Pane(s)
<1>1. CASE IsPaneTree(t)
  BY <1>1, PaneLeaves DEF IsPaneTree
<1>2. CASE IsSplitTree(t) /\ t.first \in Layouts /\ t.second \in Layouts
  BY <1>2, RootIsWhole
<1>3. QED
  BY <1>1, <1>2, TreeCases

\* Trees of the same joints, but for the ratios, have the same shape; and with
\* the ratios, are the same.
LEMMA SameJoints ==
  \A t \in Layouts : \A u \in Layouts :
    Distinct(t) /\ Distinct(u) /\ Leaves(t) = Leaves(u) =>
      /\ Plain(Joints(t)) = Plain(Joints(u)) => Shape(ReconstructLayout(t)) = Shape(ReconstructLayout(u))
      /\ Joints(t) = Joints(u) => t = u
<1> DEFINE Alike(t, u) ==
             Distinct(t) /\ Distinct(u) /\ Leaves(t) = Leaves(u) =>
               /\ Plain(Joints(t)) = Plain(Joints(u)) => Shape(ReconstructLayout(t)) = Shape(ReconstructLayout(u))
               /\ Joints(t) = Joints(u) => t = u
           S == {t \in Layouts : \A u \in Layouts : Alike(t, u)}
<1>1. ASSUME NEW t \in Layouts, IsPaneTree(t) PROVE t \in S
  <2> SUFFICES ASSUME NEW u \in Layouts, Distinct(t), Distinct(u), Leaves(t) = Leaves(u) PROVE t = u
    OBVIOUS
  <2>1. t = Pane(t.session) /\ Leaves(t) = {t.session}
    BY <1>1, PaneLeaves DEF IsPaneTree
  <2>2. u = Pane(t.session)
    BY <2>1, OneLeaf
  <2>3. QED
    BY <2>1, <2>2
<1>2. ASSUME NEW t \in Layouts, IsSplitTree(t), t.first \in Layouts, t.second \in Layouts, t.first \in S, t.second \in S
      PROVE t \in S
  <2> SUFFICES ASSUME NEW u \in Layouts, Distinct(t), Distinct(u), Leaves(t) = Leaves(u)
               PROVE /\ Plain(Joints(t)) = Plain(Joints(u)) => Shape(ReconstructLayout(t)) = Shape(ReconstructLayout(u))
                     /\ Joints(t) = Joints(u) => t = u
    OBVIOUS
  <2>1. /\ Leaves(t) = Leaves(t.first) \cup Leaves(t.second)
        /\ Leaves(t.first) \cap Leaves(t.second) = {} /\ Leaves(t.first) # {} /\ Leaves(t.second) # {}
        /\ Distinct(t.first) /\ Distinct(t.second)
        /\ RootJoint(t) \in Joints(t) /\ RootJoint(t).one \cup RootJoint(t).two = Leaves(t)
        /\ \A j \in Joints(t) : j.one \cup j.two = Leaves(t) => j = RootJoint(t)
        /\ Joints(t.first) = Inner(Joints(t), Leaves(t.first))
        /\ Joints(t.second) = Inner(Joints(t), Leaves(t.second))
    BY <1>2, RootIsWhole
  <2>2. IsSplitTree(u) /\ u.first \in Layouts /\ u.second \in Layouts
    <3>1. CASE IsPaneTree(u)
      <4>1. Leaves(u) = {u.session}
        BY <3>1, PaneLeaves DEF IsPaneTree
      <4>2. IsPaneTree(t)
        BY <4>1, OneLeaf
      <4>3. QED
        BY <4>2, <1>2 DEF IsPaneTree, IsSplitTree
    <3>2. QED
      BY <3>1, TreeCases
  <2>3. /\ Leaves(u) = Leaves(u.first) \cup Leaves(u.second)
        /\ Distinct(u.first) /\ Distinct(u.second)
        /\ RootJoint(u) \in Joints(u) /\ RootJoint(u).one \cup RootJoint(u).two = Leaves(u)
        /\ \A j \in Joints(u) : j.one \cup j.two = Leaves(u) => j = RootJoint(u)
        /\ Joints(u.first) = Inner(Joints(u), Leaves(u.first))
        /\ Joints(u.second) = Inner(Joints(u), Leaves(u.second))
    BY <2>2, RootIsWhole
  <2>4. /\ RootJoint(t).one = Leaves(t.first) /\ RootJoint(t).two = Leaves(t.second)
        /\ RootJoint(t).direction = t.direction /\ RootJoint(t).ratio = t.ratio
        /\ RootJoint(u).one = Leaves(u.first) /\ RootJoint(u).two = Leaves(u.second)
        /\ RootJoint(u).direction = u.direction /\ RootJoint(u).ratio = u.ratio
    BY DEF RootJoint, Joint
  <2>5. ASSUME Plain(Joints(t)) = Plain(Joints(u)) PROVE Shape(ReconstructLayout(t)) = Shape(ReconstructLayout(u))
    <3>1. PICK j \in Joints(t) : JointPlain(j) = JointPlain(RootJoint(u))
      BY <2>3, <2>5 DEF Plain
    <3>2. j.one = Leaves(u.first) /\ j.two = Leaves(u.second) /\ j.direction = u.direction
      BY <3>1, <2>4, PlainFields
    <3>3. j = RootJoint(t)
      BY <2>1, <2>3, <3>2
    <3>4. Leaves(t.first) = Leaves(u.first) /\ Leaves(t.second) = Leaves(u.second) /\ t.direction = u.direction
      BY <3>2, <3>3, <2>4
    <3>5. Plain(Joints(t.first)) = Plain(Joints(u.first)) /\ Plain(Joints(t.second)) = Plain(Joints(u.second))
      BY <2>1, <2>3, <2>5, <3>4, PlainInner
    <3>6. /\ Shape(ReconstructLayout(t.first)) = Shape(ReconstructLayout(u.first))
          /\ Shape(ReconstructLayout(t.second)) = Shape(ReconstructLayout(u.second))
      BY <1>2, <2>1, <2>2, <2>3, <3>4, <3>5
    <3>7. ShapeRoot(t) = ShapeRoot(u)
      BY <3>4 DEF ShapeRoot
    <3>8. QED
      BY <3>6, <3>7, <1>2, <2>2, ShapeEquation
  <2>6. ASSUME Joints(t) = Joints(u) PROVE t = u
    <3>1. RootJoint(t) = RootJoint(u)
      BY <2>1, <2>3, <2>6
    <3>2. Leaves(t.first) = Leaves(u.first) /\ Leaves(t.second) = Leaves(u.second) /\ t.direction = u.direction /\ t.ratio = u.ratio
      BY <3>1, <2>4
    <3>3. Joints(t.first) = Joints(u.first) /\ Joints(t.second) = Joints(u.second)
      BY <2>1, <2>3, <2>6, <3>2
    <3>4. t.first = u.first /\ t.second = u.second
      BY <1>2, <2>1, <2>2, <2>3, <3>2, <3>3
    <3>5. QED
      BY <3>2, <3>4, <1>2, <2>2 DEF IsSplitTree
  <2>7. QED
    BY <2>5, <2>6
<1> HIDE DEF S
<1>3. Layouts \subseteq S
  BY <1>1, <1>2, TreeInduction
<1>4. QED
  BY <1>3 DEF S

-----------------------------------------------------------------------------
(* Positions on the page *)

\* A position one level further down.
LEMMA Consed ==
  ASSUME NEW i \in {1, 2}, NEW p \in Paths
  PROVE /\ <<i>> \o p \in Paths /\ Len(<<i>> \o p) = Len(p) + 1 /\ Len(p) \in Nat
        /\ (<<i>> \o p)[1] = i
        /\ \A k \in 1 .. Len(p) : (<<i>> \o p)[k + 1] = p[k]
        /\ \A k \in 2 .. Len(p) + 1 : (<<i>> \o p)[k] = p[k - 1]
        /\ <<i>> \o p # <<>>
BY DEF Paths

\* Sequences of the same elements are the same.
LEMMA PathsEqual ==
  ASSUME NEW p \in Paths, NEW q \in Paths, Len(p) = Len(q), \A k \in 1 .. Len(p) : p[k] = q[k]
  PROVE p = q
<1>1. Len(p) \in Nat /\ p = [k \in 1 .. Len(p) |-> p[k]] /\ q = [k \in 1 .. Len(q) |-> q[k]]
  BY DEF Paths
<1>2. [k \in 1 .. Len(p) |-> p[k]] = [k \in 1 .. Len(q) |-> q[k]]
  OBVIOUS
<1>3. QED
  BY <1>1, <1>2, Zenon

\* It says which way, and where from there.
LEMMA ConsInjective ==
  ASSUME NEW i \in {1, 2}, NEW j \in {1, 2}, NEW p \in Paths, NEW q \in Paths, <<i>> \o p = <<j>> \o q
  PROVE i = j /\ p = q
<1> DEFINE a == <<i>> \o p
           b == <<j>> \o q
<1>1. /\ Len(a) = Len(p) + 1 /\ Len(p) \in Nat /\ a[1] = i /\ \A k \in 1 .. Len(p) : a[k + 1] = p[k]
      /\ Len(b) = Len(q) + 1 /\ Len(q) \in Nat /\ b[1] = j /\ \A k \in 1 .. Len(q) : b[k + 1] = q[k]
  BY Consed
<1>2. a = b
  OBVIOUS
<1> HIDE DEF a, b
<1>3. i = j /\ Len(p) = Len(q) /\ \A k \in 1 .. Len(p) : p[k] = q[k]
  <2>1. i = j
    BY <1>1, <1>2
  <2>2. Len(p) = Len(q)
    <3>1. Len(p) + 1 = Len(q) + 1 /\ Len(p) \in Nat /\ Len(q) \in Nat
      BY <1>1, <1>2
    <3>2. QED
      BY <3>1 DEF Paths
  <2>3. ASSUME NEW k \in 1 .. Len(p) PROVE p[k] = q[k]
    <3>1. p[k] = a[k + 1] /\ q[k] = b[k + 1]
      BY <1>1, <2>2
    <3>2. QED
      BY <1>2, <3>1
  <2>4. QED
    BY <2>1, <2>2, <2>3
<1>4. QED
  BY <1>3, PathsEqual

\* Going down in two stretches.
LEMMA ConsConcat ==
  ASSUME NEW i \in {1, 2}, NEW p \in Paths, NEW q \in Paths
  PROVE p \o q \in Paths /\ (<<i>> \o p) \o q = <<i>> \o (p \o q)
BY DEF Paths

\* IsPrefix, place by place.
LEMMA PrefixPointwise ==
  ASSUME NEW p \in Paths, NEW q \in Paths
  PROVE IsPrefix(p, q) <=> Len(p) <= Len(q) /\ \A k \in 1 .. Len(p) : p[k] = q[k]
<1>1. Len(p) \in Nat /\ Len(q) \in Nat
  BY DEF Paths
<1>2. SubSeq(p, 1, Len(p)) = [k \in 1 .. Len(p) |-> p[k]]
  BY DEF Paths
<1>3. ASSUME Len(p) <= Len(q) PROVE SubSeq(q, 1, Len(p)) = [k \in 1 .. Len(p) |-> q[k]]
  BY <1>3, <1>1 DEF Paths
<1>4. ASSUME Len(p) <= Len(q)
      PROVE SubSeq(p, 1, Len(p)) = SubSeq(q, 1, Len(p)) <=> \A k \in 1 .. Len(p) : p[k] = q[k]
  BY <1>2, <1>3, <1>4
<1>5. QED
  BY <1>4 DEF IsPrefix

\* One position is above another below a common split.
LEMMA ConsPrefix ==
  ASSUME NEW i \in {1, 2}, NEW j \in {1, 2}, NEW p \in Paths, NEW q \in Paths
  PROVE /\ IsPrefix(<<i>> \o p, <<j>> \o q) <=> i = j /\ IsPrefix(p, q)
        /\ IsPrefix(<<>>, q)
        /\ ~IsPrefix(<<i>> \o p, <<>>)
<1> DEFINE a == <<i>> \o p
           b == <<j>> \o q
<1>1. /\ a \in Paths /\ Len(a) = Len(p) + 1 /\ Len(p) \in Nat /\ a[1] = i
      /\ \A k \in 1 .. Len(p) : a[k + 1] = p[k]
      /\ \A k \in 2 .. Len(p) + 1 : a[k] = p[k - 1]
  BY Consed
<1>2. /\ b \in Paths /\ Len(b) = Len(q) + 1 /\ Len(q) \in Nat /\ b[1] = j
      /\ \A k \in 1 .. Len(q) : b[k + 1] = q[k]
      /\ \A k \in 2 .. Len(q) + 1 : b[k] = q[k - 1]
  BY Consed
<1>3. <<>> \in Paths /\ Len(<<>>) = 0
  BY DEF Paths
<1> HIDE DEF a, b
<1>4. /\ IsPrefix(a, b) <=> Len(a) <= Len(b) /\ \A k \in 1 .. Len(a) : a[k] = b[k]
      /\ IsPrefix(p, q) <=> Len(p) <= Len(q) /\ \A k \in 1 .. Len(p) : p[k] = q[k]
  BY <1>1, <1>2, PrefixPointwise
<1>5. ASSUME IsPrefix(a, b) PROVE i = j /\ IsPrefix(p, q)
  <2>1. Len(a) <= Len(b) /\ \A k \in 1 .. Len(a) : a[k] = b[k]
    BY <1>4, <1>5
  <2>2. 1 \in 1 .. Len(a) /\ Len(p) <= Len(q)
    BY <2>1, <1>1, <1>2
  <2>3. i = j
    BY <2>1, <2>2, <1>1, <1>2
  <2>4. ASSUME NEW k \in 1 .. Len(p) PROVE p[k] = q[k]
    <3>1. k + 1 \in 1 .. Len(a) /\ k \in 1 .. Len(q)
      BY <2>2, <1>1, <1>2
    <3>2. QED
      BY <3>1, <2>1, <1>1, <1>2
  <2>5. QED
    BY <2>2, <2>3, <2>4, <1>4
<1>6. ASSUME i = j, IsPrefix(p, q) PROVE IsPrefix(a, b)
  <2>1. Len(p) <= Len(q) /\ \A k \in 1 .. Len(p) : p[k] = q[k]
    BY <1>4, <1>6
  <2>2. ASSUME NEW k \in 1 .. Len(a) PROVE a[k] = b[k]
    <3>1. CASE k = 1
      BY <3>1, <1>1, <1>2, <1>6
    <3>2. CASE k # 1
      <4>1. k \in 2 .. Len(p) + 1 /\ k \in 2 .. Len(q) + 1 /\ k - 1 \in 1 .. Len(p)
        BY <3>2, <2>1, <1>1, <1>2
      <4>2. QED
        BY <4>1, <2>1, <1>1, <1>2
    <3>3. QED
      BY <3>1, <3>2
  <2>3. QED
    BY <2>1, <2>2, <1>1, <1>2, <1>4
<1>7. IsPrefix(<<>>, q)
  BY <1>2, <1>3, PrefixPointwise
<1>8. ~IsPrefix(a, <<>>)
  <2>1. IsPrefix(a, <<>>) => Len(a) <= Len(<<>>)
    BY <1>1, <1>3, PrefixPointwise
  <2>2. QED
    BY <2>1, <1>1, <1>3
<1>9. QED
  BY <1>5, <1>6, <1>7, <1>8 DEF a, b

\* The parent of a position below a split.
LEMMA ConsFront ==
  ASSUME NEW i \in {1, 2}, NEW p \in Paths
  PROVE /\ Front(<<i>> \o <<>>) = <<>> /\ Last(<<i>> \o <<>>) = i
        /\ p # <<>> => /\ Front(<<i>> \o p) = <<i>> \o Front(p) /\ Last(<<i>> \o p) = Last(p)
                       /\ Front(p) \in Paths /\ Last(p) \in {1, 2}
<1>1. Front(<<i>> \o <<>>) = <<>> /\ Last(<<i>> \o <<>>) = i
  <2>1. <<i>> \o <<>> = <<i>>
    OBVIOUS
  <2>2. Len(<<i>>) = 1 /\ SubSeq(<<i>>, 1, 0) = <<>>
    OBVIOUS
  <2>3. QED
    BY <2>1, <2>2 DEF Front, Last
<1>2. ASSUME p # <<>>
      PROVE /\ Front(<<i>> \o p) = <<i>> \o Front(p) /\ Last(<<i>> \o p) = Last(p)
            /\ Front(p) \in Paths /\ Last(p) \in {1, 2}
  <2> DEFINE a == <<i>> \o p
             f == Front(p)
  <2>1. /\ a \in Paths /\ Len(a) = Len(p) + 1 /\ Len(p) \in Nat /\ a[1] = i
        /\ \A k \in 1 .. Len(p) : a[k + 1] = p[k]
        /\ \A k \in 2 .. Len(p) + 1 : a[k] = p[k - 1]
    BY Consed
  <2>2. Len(p) # 0
    BY <1>2 DEF Paths
  <2>3. f \in Paths /\ Len(f) = Len(p) - 1 /\ \A k \in 1 .. Len(p) - 1 : f[k] = p[k]
    BY <2>1, <2>2 DEF Front, Paths
  <2>4. p[Len(p)] \in {1, 2}
    BY <2>1, <2>2 DEF Paths
  <2> HIDE DEF a, f
  <2>5. Front(a) \in Paths /\ Len(Front(a)) = Len(p) /\ \A k \in 1 .. Len(p) : Front(a)[k] = a[k]
    BY <2>1, <2>2 DEF Front, Paths
  <2>6. /\ <<i>> \o f \in Paths /\ Len(<<i>> \o f) = Len(p) /\ (<<i>> \o f)[1] = i
        /\ \A k \in 2 .. Len(p) : (<<i>> \o f)[k] = f[k - 1]
    <3>1. Len(f) + 1 = Len(p)
      BY <2>1, <2>3
    <3>2. QED
      BY <2>3, <3>1, Consed
  <2>7. Front(a) = <<i>> \o f
    <3>1. ASSUME NEW k \in 1 .. Len(p) PROVE Front(a)[k] = (<<i>> \o f)[k]
      <4>1. CASE k = 1
        BY <4>1, <2>1, <2>5, <2>6
      <4>2. CASE k # 1
        <5>1. k \in 2 .. Len(p) /\ k \in 2 .. Len(p) + 1 /\ k - 1 \in 1 .. Len(p) - 1
          BY <4>2, <2>1
        <5>2. QED
          BY <5>1, <2>1, <2>3, <2>5, <2>6
      <4>3. QED
        BY <4>1, <4>2
    <3>2. QED
      BY <3>1, <2>5, <2>6, PathsEqual
  <2>8. Last(a) = p[Len(p)]
    <3> DEFINE l == Len(p)
    <3>1. l \in Nat /\ l # 0
      BY <2>1, <2>2
    <3> HIDE DEF l
    <3>2. l \in 1 .. l
      BY <3>1
    <3>3. a[l + 1] = p[l] /\ Len(a) = l + 1
      BY <3>2, <2>1 DEF l
    <3>4. QED
      BY <3>3 DEF Last, l
  <2>9. QED
    BY <2>3, <2>4, <2>7, <2>8 DEF a, f, Last
<1>3. QED
  BY <1>1, <1>2

\* What follows a prefix.
Rear(q, n) == SubSeq(q, n + 1, Len(q))

\* The rest of a position below a split.
LEMMA ConsRear ==
  ASSUME NEW i \in {1, 2}, NEW q \in Paths, NEW n \in Nat, n <= Len(q)
  PROVE Rear(<<i>> \o q, n + 1) = Rear(q, n) /\ Rear(q, 0) = q /\ Rear(q, n) \in Paths
<1> DEFINE a == <<i>> \o q
<1>1. /\ a \in Paths /\ Len(a) = Len(q) + 1 /\ Len(q) \in Nat /\ a[1] = i
      /\ \A k \in 1 .. Len(q) : a[k + 1] = q[k]
  BY Consed
<1> HIDE DEF a
<1>2. Rear(a, n + 1) \in Paths /\ Len(Rear(a, n + 1)) = Len(q) - n /\ \A k \in 1 .. Len(q) - n : Rear(a, n + 1)[k] = a[(n + k) + 1]
  BY <1>1 DEF Paths, Rear
<1>3. Rear(q, n) \in Paths /\ Len(Rear(q, n)) = Len(q) - n /\ \A k \in 1 .. Len(q) - n : Rear(q, n)[k] = q[n + k]
  BY <1>1 DEF Paths, Rear
<1>4. \A k \in 1 .. Len(q) - n : a[(n + k) + 1] = q[n + k]
  BY <1>1
<1>5. Rear(a, n + 1) = Rear(q, n)
  <2> DEFINE r == Rear(a, n + 1)
             t == Rear(q, n)
  <2>1. r \in Paths /\ t \in Paths /\ Len(r) = Len(t) /\ \A k \in 1 .. Len(r) : r[k] = t[k]
    BY <1>2, <1>3, <1>4
  <2> HIDE DEF r, t
  <2>2. r = t
    BY <2>1, PathsEqual
  <2>3. QED
    BY <2>2 DEF r, t
<1>6. Rear(q, 0) = q
  BY DEF Rear, Paths
<1>7. QED
  BY <1>3, <1>5, <1>6 DEF a

-----------------------------------------------------------------------------
(* The page of a layout *)

\* A node of a part of a tree, in the tree.
Up(i, x) == Node(<<i>> \o x.path, x.label)

\* A node moved below a split keeps its label.
LEMMA UpFields ==
  ASSUME NEW i, NEW x PROVE Up(i, x).path = <<i>> \o x.path /\ Up(i, x).label = x.label /\ (IsPane(Up(i, x)) <=> IsPane(x))
BY DEF Up, Node, IsPane

\* Nodes moved below a split stay apart.
LEMMA UpInjective ==
  ASSUME NEW i \in {1, 2}, NEW j \in {1, 2}, NEW x \in Nodes, NEW y \in Nodes
  PROVE /\ Up(i, x).path = Up(j, y).path => i = j /\ x.path = y.path
        /\ Up(i, x) = Up(j, y) => i = j /\ x = y
        /\ Up(i, x).path # <<>>
        /\ Up(i, x) \in Nodes
<1>1. x.path \in Paths /\ y.path \in Paths /\ x = Node(x.path, x.label) /\ y = Node(y.path, y.label) /\ x.label \in Labels
  BY NodesType
<1>7. /\ Up(i, x).path = <<i>> \o x.path /\ Up(i, x).label = x.label
      /\ Up(j, y).path = <<j>> \o y.path /\ Up(j, y).label = y.label
  BY UpFields
<1>8. <<i>> \o x.path = <<j>> \o y.path => i = j /\ x.path = y.path
  <2>1. \A p, q \in Paths : <<i>> \o p = <<j>> \o q => i = j /\ p = q
    BY ConsInjective
  <2>2. QED
    BY <1>1, <2>1
<1>2. Up(i, x).path = Up(j, y).path => i = j /\ x.path = y.path
  BY <1>7, <1>8
<1>3. Up(i, x) = Up(j, y) => i = j /\ x = y
  <2> SUFFICES ASSUME Up(i, x) = Up(j, y) PROVE i = j /\ x = y
    OBVIOUS
  <2>1. i = j /\ x.path = y.path /\ x.label = y.label
    BY <1>2, <1>7
  <2>2. QED
    BY <2>1, <1>1
<1>4. Up(i, x).path # <<>> /\ <<i>> \o x.path \in Paths
  BY <1>1, Consed, UpFields
<1>5. Up(i, x) \in Nodes
  BY <1>1, <1>4 DEF Up, Nodes
<1>6. QED
  BY <1>2, <1>3, <1>4, <1>5

\* Moved, node by node.
LEMMA MovedUp ==
  ASSUME NEW i, NEW N PROVE Moved(i, N) = {Up(i, x) : x \in N}
BY DEF Moved, Up

\* The nodes of a tree of two: its root, and those of its parts.
LEMMA ReconSplit ==
  ASSUME NEW t \in Layouts, IsSplitTree(t), t.first \in Layouts, t.second \in Layouts
  PROVE /\ ReconstructLayout(t) = {Root(t)} \cup {Up(1, x) : x \in ReconstructLayout(t.first)}
                                     \cup {Up(2, x) : x \in ReconstructLayout(t.second)}
        /\ ReconstructLayout(t.first) \in SUBSET Nodes /\ ReconstructLayout(t.second) \in SUBSET Nodes
        /\ Root(t).path = <<>> /\ Root(t).label = SplitLabel(t.direction, t.ratio) /\ ~IsPane(Root(t))
        /\ \A s : Root(t).label # Pane(s)
<1>1. t.type # "pane"
  BY DEF IsSplitTree
<1>2. /\ ReconstructLayout(t) = {Root(t)} \cup Moved(1, ReconstructLayout(t.first)) \cup Moved(2, ReconstructLayout(t.second))
      /\ ReconstructLayout(t.first) \in SUBSET Nodes /\ ReconstructLayout(t.second) \in SUBSET Nodes
  BY <1>1, ReconEquation
<1>3. Root(t).path = <<>> /\ Root(t).label = SplitLabel(t.direction, t.ratio) /\ ~IsPane(Root(t))
  BY DEF Root, Node, SplitLabel, IsPane
<1>4. \A s : Root(t).label # Pane(s)
  BY <1>3 DEF SplitLabel, Pane
<1>5. QED
  BY <1>2, <1>3, <1>4, MovedUp

\* The page of a pane is that pane.
LEMMA ReconPane ==
  ASSUME NEW t \in Layouts, IsPaneTree(t)
  PROVE ReconstructLayout(t) = {Node(<<>>, t)} /\ Node(<<>>, t).path = <<>> /\ Node(<<>>, t).label = t /\ IsPane(Node(<<>>, t))
BY ReconEquation DEF IsPaneTree, Node, IsPane

\* The page of a layout consists of nodes.
LEMMA ReconNodes ==
  ASSUME NEW t \in Layouts PROVE ReconstructLayout(t) \in SUBSET Nodes
BY ReconEquation

\* The panes of the page's tree are those of the tree it was made from.
LEMMA ReconPanes ==
  \A t \in Layouts : /\ \A s : PanesOf(ReconstructLayout(t), s) # {} <=> s \in Leaves(t)
                     /\ \A x \in Panes(ReconstructLayout(t)) : x.label.session \in Leaves(t) /\ x.label = Pane(x.label.session)
                     /\ \A s \in Leaves(t) : \E x \in Panes(ReconstructLayout(t)) : x.label.session = s
                     /\ ReconstructLayout(t) # {}
<1> DEFINE N(t) == ReconstructLayout(t)
           Good(t) == /\ \A s \in Leaves(t) : \E x \in N(t) : x.label = Pane(s)
                      /\ \A x \in N(t) : \/ ~IsPane(x) /\ \A s : x.label # Pane(s)
                                         \/ IsPane(x) /\ x.label.session \in Leaves(t) /\ x.label = Pane(x.label.session)
           S == {t \in Layouts : Good(t)}
<1>1. ASSUME NEW t \in Layouts, IsPaneTree(t) PROVE t \in S
  <2>1. N(t) = {Node(<<>>, t)} /\ Node(<<>>, t).label = t /\ IsPane(Node(<<>>, t))
    BY <1>1, ReconPane
  <2>2. t = Pane(t.session) /\ Leaves(t) = {t.session}
    BY <1>1, PaneLeaves DEF IsPaneTree
  <2> HIDE DEF N
  <2>3. Good(t)
    BY <2>1, <2>2
  <2>4. QED
    BY <2>3
<1>2. ASSUME NEW t \in Layouts, IsSplitTree(t), t.first \in Layouts, t.second \in Layouts, t.first \in S, t.second \in S
      PROVE t \in S
  <2>1. /\ N(t) = {Root(t)} \cup {Up(1, x) : x \in N(t.first)} \cup {Up(2, x) : x \in N(t.second)}
        /\ ~IsPane(Root(t)) /\ \A s : Root(t).label # Pane(s)
    BY <1>2, ReconSplit
  <2>2. Leaves(t) = Leaves(t.first) \cup Leaves(t.second)
    BY <1>2, SplitLeaves
  <2>3. Good(t.first) /\ Good(t.second)
    BY <1>2
  <2>4. \A i, x : Up(i, x).label = x.label /\ (IsPane(Up(i, x)) <=> IsPane(x))
    BY UpFields
  <2> HIDE DEF N
  <2>5. Good(t)
    BY <2>1, <2>2, <2>3, <2>4
  <2>6. QED
    BY <2>5
<1> HIDE DEF S
<1>3. Layouts \subseteq S
  BY <1>1, <1>2, TreeInduction
<1>4. ASSUME NEW t \in Layouts
      PROVE /\ \A s : PanesOf(N(t), s) # {} <=> s \in Leaves(t)
            /\ \A x \in Panes(N(t)) : x.label.session \in Leaves(t) /\ x.label = Pane(x.label.session)
            /\ \A s \in Leaves(t) : \E x \in Panes(N(t)) : x.label.session = s
            /\ N(t) # {}
  <2>1. Good(t) /\ Leaves(t) # {}
    BY <1>3, LeavesType DEF S
  <2>2. \A s : Pane(s).session = s /\ Pane(s).type = "pane"
    BY DEF Pane
  <2> HIDE DEF N
  <2>3. QED
    BY <2>1, <2>2 DEF PanesOf, Panes, IsPane
<1>5. QED
  BY <1>4

\* A node is alone at its place.
LEMMA ReconPaths ==
  \A t \in Layouts : /\ \A x, y \in ReconstructLayout(t) : x.path = y.path => x = y
                     /\ \A x \in ReconstructLayout(t) : x.path = <<>> /\ IsPane(x) => IsPaneTree(t) /\ t = x.label
                     /\ \A x \in ReconstructLayout(t) : x.path # <<>> => ~IsPaneTree(t)
<1> DEFINE N(t) == ReconstructLayout(t)
           Good(t) == /\ \A x, y \in N(t) : x.path = y.path => x = y
                      /\ \A x \in N(t) : x.path = <<>> /\ IsPane(x) => IsPaneTree(t) /\ t = x.label
                      /\ \A x \in N(t) : x.path # <<>> => ~IsPaneTree(t)
           S == {t \in Layouts : Good(t)}
<1>1. ASSUME NEW t \in Layouts, IsPaneTree(t) PROVE t \in S
  <2>1. N(t) = {Node(<<>>, t)} /\ Node(<<>>, t).label = t /\ Node(<<>>, t).path = <<>>
    BY <1>1, ReconPane
  <2> HIDE DEF N
  <2>2. QED
    BY <2>1, <1>1
<1>2. ASSUME NEW t \in Layouts, IsSplitTree(t), t.first \in Layouts, t.second \in Layouts, t.first \in S, t.second \in S
      PROVE t \in S
  <2>1. /\ N(t) = {Root(t)} \cup {Up(1, x) : x \in N(t.first)} \cup {Up(2, x) : x \in N(t.second)}
        /\ N(t.first) \in SUBSET Nodes /\ N(t.second) \in SUBSET Nodes
        /\ ~IsPane(Root(t)) /\ Root(t).path = <<>>
    BY <1>2, ReconSplit
  <2>3. Good(t.first) /\ Good(t.second)
    BY <1>2
  <2>4. \A x \in Nodes : \A i \in {1, 2} : Up(i, x).path # <<>>
    BY UpInjective
  <2>5. \A x \in Nodes : \A y \in Nodes : \A i, j \in {1, 2} : Up(i, x).path = Up(j, y).path => i = j /\ x.path = y.path
    BY UpInjective
  <2>6. ~IsPaneTree(t)
    BY <1>2 DEF IsPaneTree, IsSplitTree
  <2> HIDE DEF N
  <2>7. ASSUME NEW x \in N(t), NEW y \in N(t), x.path = y.path PROVE x = y
    <3>1. CASE x = Root(t)
      BY <3>1, <2>1, <2>4, <2>7
    <3>2. CASE y = Root(t)
      BY <3>2, <2>1, <2>4, <2>7
    <3>3. CASE x # Root(t) /\ y # Root(t)
      <4> DEFINE M(i) == IF i = 1 THEN N(t.first) ELSE N(t.second)
      <4>6. \A z \in N(t) : z # Root(t) => \E i \in {1, 2} : \E v \in M(i) : z = Up(i, v)
        BY <2>1
      <4>7. M(1) = N(t.first) /\ M(2) = N(t.second)
        OBVIOUS
      <4> HIDE DEF M
      <4>1. PICK i \in {1, 2} : \E v \in M(i) : x = Up(i, v)
        BY <3>3, <4>6
      <4>2. PICK j \in {1, 2} : \E w \in M(j) : y = Up(j, w)
        BY <3>3, <4>6
      <4>8. PICK v \in M(i) : x = Up(i, v)
        BY <4>1
      <4>9. PICK w \in M(j) : y = Up(j, w)
        BY <4>2
      <4>3. i = j /\ v.path = w.path
        BY <4>7, <4>8, <4>9, <2>1, <2>5, <2>7
      <4>4. v = w
        BY <4>7, <4>3, <2>3
      <4>5. QED
        BY <4>8, <4>9, <4>3, <4>4
    <3>4. QED
      BY <3>1, <3>2, <3>3
  <2>8. \A x \in N(t) : x.path = <<>> => ~IsPane(x)
    BY <2>1, <2>4
  <2>9. QED
    BY <2>6, <2>7, <2>8
<1> HIDE DEF S
<1>3. Layouts \subseteq S
  BY <1>1, <1>2, TreeInduction
<1>4. QED
  BY <1>3 DEF S

\* The order of the panes below a split.
LEMMA ConsBefore ==
  ASSUME NEW p \in Paths, NEW q \in Paths
  PROVE /\ \A i \in {1, 2} : Before(p, q) => Before(<<i>> \o p, <<i>> \o q)
        /\ Before(<<1>> \o p, <<2>> \o q)
<1>1. ASSUME NEW i \in {1, 2}, Before(p, q) PROVE Before(<<i>> \o p, <<i>> \o q)
  <2> DEFINE a == <<i>> \o p
             b == <<i>> \o q
  <2>1. PICK k \in DOMAIN p \cap DOMAIN q : p[k] < q[k] /\ \A j \in 1 .. k - 1 : p[j] = q[j]
    BY <1>1 DEF Before
  <2>2. /\ a \in Paths /\ Len(a) = Len(p) + 1 /\ Len(p) \in Nat /\ a[1] = i
        /\ \A j \in 1 .. Len(p) : a[j + 1] = p[j]
        /\ \A j \in 2 .. Len(p) + 1 : a[j] = p[j - 1]
    BY Consed
  <2>3. /\ b \in Paths /\ Len(b) = Len(q) + 1 /\ Len(q) \in Nat /\ b[1] = i
        /\ \A j \in 1 .. Len(q) : b[j + 1] = q[j]
        /\ \A j \in 2 .. Len(q) + 1 : b[j] = q[j - 1]
    BY Consed
  <2> HIDE DEF a, b
  <2>4. DOMAIN p = 1 .. Len(p) /\ DOMAIN q = 1 .. Len(q) /\ DOMAIN a = 1 .. Len(p) + 1 /\ DOMAIN b = 1 .. Len(q) + 1
    BY <2>2, <2>3 DEF Paths
  <2>5. k + 1 \in DOMAIN a \cap DOMAIN b /\ a[k + 1] < b[k + 1]
    BY <2>1, <2>2, <2>3, <2>4
  <2>6. ASSUME NEW j \in 1 .. (k + 1) - 1 PROVE a[j] = b[j]
    <3>1. CASE j = 1
      BY <3>1, <2>2, <2>3
    <3>2. CASE j # 1
      <4>1. j \in 2 .. Len(p) + 1 /\ j \in 2 .. Len(q) + 1 /\ j - 1 \in 1 .. k - 1
        BY <3>2, <2>1, <2>4, <2>2, <2>3
      <4>2. QED
        BY <4>1, <2>1, <2>2, <2>3
    <3>3. QED
      BY <3>1, <3>2
  <2>7. Before(a, b)
    BY <2>5, <2>6 DEF Before
  <2>8. QED
    BY <2>7 DEF a, b
<1>2. Before(<<1>> \o p, <<2>> \o q)
  <2> DEFINE a == <<1>> \o p
             b == <<2>> \o q
  <2>2. a \in Paths /\ Len(a) = Len(p) + 1 /\ Len(p) \in Nat /\ a[1] = 1
    BY Consed
  <2>3. b \in Paths /\ Len(b) = Len(q) + 1 /\ Len(q) \in Nat /\ b[1] = 2
    BY Consed
  <2> HIDE DEF a, b
  <2>4. 1 \in DOMAIN a \cap DOMAIN b
    BY <2>2, <2>3 DEF Paths
  <2>5. Before(a, b)
    BY <2>2, <2>3, <2>4 DEF Before
  <2>6. QED
    BY <2>5 DEF a, b
<1>3. QED
  BY <1>1, <1>2

\* Of the panes of a session there is a last one.
LEMMA LastPane ==
  ASSUME NEW s
  PROVE \A t \in Layouts : s \in Leaves(t) =>
          \E x \in PanesOf(ReconstructLayout(t), s) : \A y \in PanesOf(ReconstructLayout(t), s) : x = y \/ Before(y.path, x.path)
<1> DEFINE N(t) == ReconstructLayout(t)
           Has(t) == \E x \in PanesOf(N(t), s) : \A y \in PanesOf(N(t), s) : x = y \/ Before(y.path, x.path)
           S == {t \in Layouts : s \in Leaves(t) => Has(t)}
<1>1. ASSUME NEW t \in Layouts, IsPaneTree(t) PROVE t \in S
  <2>1. N(t) = {Node(<<>>, t)}
    BY <1>1, ReconPane
  <2>2. s \in Leaves(t) => PanesOf(N(t), s) # {}
    BY ReconPanes
  <2> HIDE DEF N
  <2>3. QED
    BY <2>1, <2>2 DEF PanesOf
<1>2. ASSUME NEW t \in Layouts, IsSplitTree(t), t.first \in Layouts, t.second \in Layouts, t.first \in S, t.second \in S
      PROVE t \in S
  <2> SUFFICES ASSUME s \in Leaves(t) PROVE Has(t)
    OBVIOUS
  <2>1. /\ N(t) = {Root(t)} \cup {Up(1, x) : x \in N(t.first)} \cup {Up(2, x) : x \in N(t.second)}
        /\ N(t.first) \in SUBSET Nodes /\ N(t.second) \in SUBSET Nodes
        /\ Root(t).label # Pane(s)
    BY <1>2, ReconSplit
  <2>2. Leaves(t) = Leaves(t.first) \cup Leaves(t.second)
    BY <1>2, SplitLeaves
  <2>3. \A i, x : Up(i, x).label = x.label /\ Up(i, x).path = <<i>> \o x.path
    BY UpFields
  <2>4. \A x \in Nodes : x.path \in Paths
    BY NodesType
  <2>5. \A p, q \in Paths : /\ \A i \in {1, 2} : Before(p, q) => Before(<<i>> \o p, <<i>> \o q)
                            /\ Before(<<1>> \o p, <<2>> \o q)
    BY ConsBefore
  <2>6. PanesOf(N(t.second), s) # {} <=> s \in Leaves(t.second)
    BY <1>2, ReconPanes
  <2>7. PanesOf(N(t), s) = {Up(1, x) : x \in PanesOf(N(t.first), s)} \cup {Up(2, x) : x \in PanesOf(N(t.second), s)}
    <3> HIDE DEF N
    <3> QED BY <2>1, <2>3 DEF PanesOf
  <2>8. /\ \A x \in PanesOf(N(t.first), s) : x.path \in Paths
        /\ \A x \in PanesOf(N(t.second), s) : x.path \in Paths
    <3> HIDE DEF N
    <3> QED BY <2>1, <2>4 DEF PanesOf
  <2>9. CASE s \in Leaves(t.second)
    <3>1. Has(t.second)
      BY <1>2, <2>9
    <3>2. PICK x \in PanesOf(N(t.second), s) : \A y \in PanesOf(N(t.second), s) : x = y \/ Before(y.path, x.path)
      BY <3>1
    <3> HIDE DEF N
    <3>3. ASSUME NEW z \in PanesOf(N(t), s) PROVE Up(2, x) = z \/ Before(z.path, Up(2, x).path)
      <4>1. CASE \E y \in PanesOf(N(t.first), s) : z = Up(1, y)
        <5>1. PICK y \in PanesOf(N(t.first), s) : z = Up(1, y)
          BY <4>1
        <5>2. z.path = <<1>> \o y.path /\ Up(2, x).path = <<2>> \o x.path /\ y.path \in Paths /\ x.path \in Paths
          BY <5>1, <2>3, <2>8
        <5>3. Before(<<1>> \o y.path, <<2>> \o x.path)
          BY <5>2, <2>5
        <5>4. QED
          BY <5>2, <5>3
      <4>2. CASE \E y \in PanesOf(N(t.second), s) : z = Up(2, y)
        BY <4>2, <2>3, <2>5, <2>8, <3>2, ZenonT(60)
      <4>3. QED
        BY <4>1, <4>2, <2>7
    <3>4. Up(2, x) \in PanesOf(N(t), s)
      BY <2>7
    <3>5. QED
      BY <3>3, <3>4
  <2>10. CASE s \notin Leaves(t.second)
    <3>1. Has(t.first) /\ PanesOf(N(t.second), s) = {}
      BY <1>2, <2>2, <2>6, <2>10
    <3>2. PICK x \in PanesOf(N(t.first), s) : \A y \in PanesOf(N(t.first), s) : x = y \/ Before(y.path, x.path)
      BY <3>1
    <3> HIDE DEF N
    <3>3. ASSUME NEW z \in PanesOf(N(t), s) PROVE Up(1, x) = z \/ Before(z.path, Up(1, x).path)
      <4>1. PICK y \in PanesOf(N(t.first), s) : z = Up(1, y)
        BY <3>1, <2>7
      <4>2. QED
        BY <4>1, <2>3, <2>5, <2>8, <3>2, ZenonT(60)
    <3>4. Up(1, x) \in PanesOf(N(t), s)
      BY <2>7
    <3>5. QED
      BY <3>3, <3>4
  <2>11. QED
    BY <2>9, <2>10
<1> HIDE DEF S
<1>3. Layouts \subseteq S
  BY <1>1, <1>2, TreeInduction
<1>4. QED
  BY <1>3 DEF S

\* findPaneBySessionID finds a pane of the session if the page has one.
LEMMA FindPane ==
  ASSUME NEW t \in Layouts, NEW s \in Leaves(t)
  PROVE LET x == FindPaneBySessionID(ReconstructLayout(t), s) IN x \in ReconstructLayout(t) /\ x.label = Pane(s) /\ x = Node(x.path, Pane(s))
<1> DEFINE N == ReconstructLayout(t)
           x == FindPaneBySessionID(N, s)
<1>1. \E y \in PanesOf(N, s) : \A z \in PanesOf(N, s) : y = z \/ Before(z.path, y.path)
  BY LastPane
<1>2. x \in PanesOf(N, s)
  <2> HIDE DEF N
  <2> QED BY <1>1 DEF FindPaneBySessionID
<1>3. x \in N /\ x.label = Pane(s)
  BY <1>2 DEF PanesOf
<1>4. x \in Nodes
  BY <1>3, ReconNodes
<1>5. x = Node(x.path, x.label)
  BY <1>4, NodesType
<1>6. QED
  BY <1>3, <1>5

-----------------------------------------------------------------------------
(* Splitting a pane of the page *)

\* The pane of s at p is split.
NewNodes(p, s, n, d) == {Node(p, SplitLabel(d, Half)), Node(p \o <<1>>, Pane(s)), Node(p \o <<2>>, Pane(n))}
SplitAt(N, p, s, n, d) == (N \ {Node(p, Pane(s))}) \cup NewNodes(p, s, n, d)

\* A node moved below a split.
LEMMA UpNode ==
  ASSUME NEW i, NEW p, NEW l PROVE Up(i, Node(p, l)) = Node(<<i>> \o p, l)
BY DEF Up, Node

\* The nodes a split makes, moved.
LEMMA UpNewNodes ==
  ASSUME NEW i \in {1, 2}, NEW p \in Paths, NEW s, NEW n, NEW d
  PROVE {Up(i, z) : z \in NewNodes(p, s, n, d)} = NewNodes(<<i>> \o p, s, n, d)
<1>1. <<1>> \in Paths /\ <<2>> \in Paths
  BY DEF Paths
<1>2. \A q \in Paths : (<<i>> \o p) \o q = <<i>> \o (p \o q)
  BY ConsConcat
<1>3. (<<i>> \o p) \o <<1>> = <<i>> \o (p \o <<1>>) /\ (<<i>> \o p) \o <<2>> = <<i>> \o (p \o <<2>>)
  BY <1>1, <1>2
<1>4. \A q, l : Up(i, Node(q, l)) = Node(<<i>> \o q, l)
  BY UpNode
<1> DEFINE x == Node(p, SplitLabel(d, Half))
           y == Node(p \o <<1>>, Pane(s))
           z == Node(p \o <<2>>, Pane(n))
<1>5. /\ Up(i, x) = Node(<<i>> \o p, SplitLabel(d, Half))
      /\ Up(i, y) = Node((<<i>> \o p) \o <<1>>, Pane(s))
      /\ Up(i, z) = Node((<<i>> \o p) \o <<2>>, Pane(n))
  BY <1>3, <1>4
<1>6. NewNodes(p, s, n, d) = {x, y, z}
  BY DEF NewNodes
<1>7. NewNodes(<<i>> \o p, s, n, d) = {Up(i, x), Up(i, y), Up(i, z)}
  BY <1>5 DEF NewNodes
<1> HIDE DEF x, y, z
<1>8. QED
  BY <1>6, <1>7

\* A split in a part of a layout.
LEMMA UpSplitAt ==
  ASSUME NEW i \in {1, 2}, NEW N \in SUBSET Nodes, NEW s, NEW n, NEW d, NEW x \in N, x.label = Pane(s)
  PROVE Moved(i, SplitAt(N, x.path, s, n, d)) = SplitAt(Moved(i, N), Up(i, x).path, s, n, d)
<1>1. x.path \in Paths /\ x = Node(x.path, Pane(s))
  BY NodesType
<1>2. Up(i, x).path = <<i>> \o x.path /\ Up(i, x) = Node(Up(i, x).path, Pane(s))
  <2>1. Up(i, x) = Node(<<i>> \o x.path, Pane(s))
    BY DEF Up
  <2>2. QED
    BY <2>1, UpFields
<1>3. {Up(i, z) : z \in NewNodes(x.path, s, n, d)} = NewNodes(Up(i, x).path, s, n, d)
  BY <1>1, <1>2, UpNewNodes
<1>4. \A y \in N : Up(i, y) = Up(i, x) => y = x
  <2>1. \A y, z \in Nodes : Up(i, y) = Up(i, z) => y = z
    BY UpInjective
  <2>2. QED
    BY <2>1
<1>5. {Up(i, z) : z \in N \ {x}} = {Up(i, z) : z \in N} \ {Up(i, x)}
  BY <1>4
<1>6. {Up(i, z) : z \in (N \ {x}) \cup NewNodes(x.path, s, n, d)} =
        {Up(i, z) : z \in N \ {x}} \cup {Up(i, z) : z \in NewNodes(x.path, s, n, d)}
  OBVIOUS
<1>7. SplitAt(N, x.path, s, n, d) = (N \ {x}) \cup NewNodes(x.path, s, n, d)
  BY <1>1 DEF SplitAt
<1>8. SplitAt({Up(i, z) : z \in N}, Up(i, x).path, s, n, d) =
        ({Up(i, z) : z \in N} \ {Up(i, x)}) \cup NewNodes(Up(i, x).path, s, n, d)
  BY <1>2 DEF SplitAt
<1>9. QED
  BY <1>3, <1>5, <1>6, <1>7, <1>8, MovedUp

\* A split changes only the part the pane is in.
LEMMA SplitAtUnion ==
  ASSUME NEW A, NEW M, NEW B, NEW p, NEW s, NEW n, NEW d, Node(p, Pane(s)) \notin A, Node(p, Pane(s)) \notin B
  PROVE SplitAt(A \cup M \cup B, p, s, n, d) = A \cup SplitAt(M, p, s, n, d) \cup B
BY DEF SplitAt

\* What the page's split of a pane of t makes.
IsSplitAt(u, t, x, s, n, d) ==
  /\ ReconstructLayout(u) = SplitAt(ReconstructLayout(t), x.path, s, n, d)
  /\ Size(u) = Size(t) + 1
  /\ Leaves(u) = Leaves(t) \cup {n}
  /\ \A m : Twice(t, m) => Twice(u, m)
  /\ n \in Leaves(t) => Twice(u, n)
  /\ Distinct(t) => u = SplitLayoutNode(t, s, n, d)

\* The nodes of a tree that is made of two.
LEMMA ReconJoined ==
  ASSUME NEW k \in Nat, k + 1 <= MaxSessions, NEW a \in Level[k], NEW b \in Level[k],
         NEW d \in Directions, NEW r \in Ratios \cup {Half}
  PROVE ReconstructLayout(Split(d, r, a, b)) =
          {Node(<<>>, SplitLabel(d, r))} \cup {Up(1, x) : x \in ReconstructLayout(a)} \cup {Up(2, x) : x \in ReconstructLayout(b)}
<1> DEFINE t == Split(d, r, a, b)
<1>1. t \in Layouts /\ a \in Layouts /\ b \in Layouts
  BY Joined
<1>2. t.direction = d /\ t.ratio = r /\ t.first = a /\ t.second = b /\ IsSplitTree(t)
  BY SplitTreeParts
<1> HIDE DEF t
<1>3. ReconstructLayout(t) = {Root(t)} \cup {Up(1, x) : x \in ReconstructLayout(t.first)} \cup {Up(2, x) : x \in ReconstructLayout(t.second)}
  BY <1>1, <1>2, ReconSplit
<1>4. Root(t) = Node(<<>>, SplitLabel(d, r))
  BY <1>2 DEF Root
<1>5. QED
  BY <1>2, <1>3, <1>4 DEF t

\* A pane of the page shows a session of the layout.
LEMMA PaneOfLeaves ==
  ASSUME NEW t \in Layouts, NEW s, NEW x \in ReconstructLayout(t), x.label = Pane(s)
  PROVE s \in Leaves(t) /\ s \in Sessions
<1>1. PanesOf(ReconstructLayout(t), s) # {}
  BY DEF PanesOf
<1>2. s \in Leaves(t)
  BY <1>1, ReconPanes
<1>3. QED
  BY <1>2, LeavesType

\* Splitting a pane of the page makes the page of a layout with one more pane.
LEMMA PageSplits ==
  ASSUME NEW s \in Sessions, NEW n \in Sessions, NEW d \in Directions
  PROVE \A t \in Layouts : \A k \in Nat : \A x \in ReconstructLayout(t) :
          k + 1 <= MaxSessions /\ t \in Level[k] /\ x.label = Pane(s) =>
            \E u \in Level[k + 1] : IsSplitAt(u, t, x, s, n, d)
<1> DEFINE N(t) == ReconstructLayout(t)
           S == {t \in Layouts : \A k \in Nat : \A x \in N(t) :
                   k + 1 <= MaxSessions /\ t \in Level[k] /\ x.label = Pane(s) =>
                     \E u \in Level[k + 1] : IsSplitAt(u, t, x, s, n, d)}
<1>0. Half \in Ratios \cup {Half}
  OBVIOUS
<1>1. ASSUME NEW t \in Layouts, IsPaneTree(t) PROVE t \in S
  <2> SUFFICES ASSUME NEW k \in Nat, NEW x \in N(t), k + 1 <= MaxSessions, x.label = Pane(s)
               PROVE \E u \in Level[k + 1] : IsSplitAt(u, t, x, s, n, d)
    OBVIOUS
  <2>1. N(t) = {Node(<<>>, t)} /\ Node(<<>>, t).label = t /\ Node(<<>>, t).path = <<>>
    BY <1>1, ReconPane
  <2>2. x = Node(<<>>, t) /\ t = Pane(s) /\ x.path = <<>>
    BY <2>1
  <2> DEFINE u == Split(d, Half, Pane(s), Pane(n))
  <2>3. Pane(s) \in Level[k] /\ Pane(n) \in Level[k] /\ Pane(s) \in Layouts /\ Pane(n) \in Layouts
    BY PaneLevel, PaneIsTree
  <2>4. /\ u \in Level[k + 1]
        /\ Leaves(u) = Leaves(Pane(s)) \cup Leaves(Pane(n))
        /\ Size(u) = Size(Pane(s)) + Size(Pane(n))
        /\ \A m : Twice(u, m) <=> Twice(Pane(s), m) \/ Twice(Pane(n), m) \/ (m \in Leaves(Pane(s)) /\ m \in Leaves(Pane(n)))
    BY <2>3, <1>0, Joined
  <2>5. /\ Leaves(Pane(s)) = {s} /\ Leaves(Pane(n)) = {n} /\ \A m : ~Twice(Pane(s), m) /\ ~Twice(Pane(n), m)
        /\ Size(Pane(s)) = 1 /\ Size(Pane(n)) = 1
    BY PaneLeaves
  <2>6. N(u) = {Node(<<>>, SplitLabel(d, Half))} \cup {Up(1, z) : z \in N(Pane(s))} \cup {Up(2, z) : z \in N(Pane(n))}
    BY <2>3, <1>0, ReconJoined
  <2>7. N(Pane(s)) = {Node(<<>>, Pane(s))} /\ N(Pane(n)) = {Node(<<>>, Pane(n))}
    BY PaneIsTree, ReconPane
  <2>8. /\ Up(1, Node(<<>>, Pane(s))) = Node(<<>> \o <<1>>, Pane(s))
        /\ Up(2, Node(<<>>, Pane(n))) = Node(<<>> \o <<2>>, Pane(n))
    <3>1. <<1>> \o <<>> = <<>> \o <<1>> /\ <<2>> \o <<>> = <<>> \o <<2>>
      OBVIOUS
    <3>2. \A i, p, l : Up(i, Node(p, l)) = Node(<<i>> \o p, l)
      BY UpNode
    <3>3. /\ Up(1, Node(<<>>, Pane(s))) = Node(<<1>> \o <<>>, Pane(s))
          /\ Up(2, Node(<<>>, Pane(n))) = Node(<<2>> \o <<>>, Pane(n))
      BY <3>2
    <3>4. QED
      BY <3>1, <3>3, Zenon
  <2>9. SplitLayoutNode(t, s, n, d) = u
    BY <1>1, <2>2, SplitEquation DEF IsPaneTree
  <2> HIDE DEF u, N
  <2>10. N(u) = NewNodes(<<>>, s, n, d)
    BY <2>6, <2>7, <2>8 DEF NewNodes
  <2>11. SplitAt(N(t), x.path, s, n, d) = NewNodes(<<>>, s, n, d)
    BY <2>1, <2>2 DEF SplitAt
  <2>12. IsSplitAt(u, t, x, s, n, d)
    BY <2>2, <2>4, <2>5, <2>9, <2>10, <2>11 DEF IsSplitAt, N
  <2>13. QED
    BY <2>4, <2>12
<1>2. ASSUME NEW t \in Layouts, IsSplitTree(t), t.first \in Layouts, t.second \in Layouts, t.first \in S, t.second \in S
      PROVE t \in S
  <2> SUFFICES ASSUME NEW k \in Nat, NEW x \in N(t), k + 1 <= MaxSessions, t \in Level[k], x.label = Pane(s)
               PROVE \E u \in Level[k + 1] : IsSplitAt(u, t, x, s, n, d)
    OBVIOUS
  <2> DEFINE a == t.first
             b == t.second
             e == t.direction
             r == t.ratio
  <2>0. ~IsPaneTree(t) /\ t.type = "split" /\ k <= MaxSessions /\ t # Pane(s)
    BY <1>2, MaxSessionsNat DEF IsPaneTree, IsSplitTree, Pane
  <2>1. /\ k - 1 \in Nat /\ (k - 1) + 1 = k /\ a \in Level[k - 1] /\ b \in Level[k - 1]
        /\ a \in Layouts /\ b \in Layouts
        /\ Leaves(t) = Leaves(a) \cup Leaves(b)
        /\ Size(t) = Size(a) + Size(b)
        /\ \A m : Twice(t, m) <=> Twice(a, m) \/ Twice(b, m) \/ (m \in Leaves(a) /\ m \in Leaves(b))
    BY <2>0, Parted
  <2>2. Level[k - 1] \subseteq Level[k] /\ (k - 1) + 1 <= MaxSessions
    BY <2>0, <2>1, LevelGrows
  <2>3. e \in Directions /\ r \in Ratios \cup {Half}
    BY <1>2 DEF IsSplitTree
  <2>4. /\ N(t) = {Root(t)} \cup {Up(1, z) : z \in N(a)} \cup {Up(2, z) : z \in N(b)}
        /\ N(a) \in SUBSET Nodes /\ N(b) \in SUBSET Nodes
        /\ Root(t).label # Pane(s) /\ Root(t) = Node(<<>>, SplitLabel(e, r))
    BY <1>2, ReconSplit DEF Root
  <2>5. \A y, z \in Nodes : \A i, j \in {1, 2} : Up(i, y) = Up(j, z) => i = j
    BY UpInjective
  <2>6. /\ \A i, y : Up(i, y).label = y.label
        /\ \A y \in Nodes : y.path \in Paths /\ y = Node(y.path, y.label)
        /\ \A i \in {1, 2} : \A y \in Nodes : Up(i, y) \in Nodes
    <3>1. \A i, y : Up(i, y).label = y.label
      BY UpFields
    <3>2. \A y \in Nodes : y.path \in Paths /\ y = Node(y.path, y.label)
      BY NodesType
    <3>3. \A i \in {1, 2} : \A y \in Nodes : Up(i, y) \in Nodes
      BY UpInjective
    <3>4. QED
      BY <3>1, <3>2, <3>3
  <2>7. /\ Size(a) \in Nat /\ Size(b) \in Nat
    BY <2>1, LeavesType
  <2>8. HasSession(a, s) <=> s \in Leaves(a)
    BY DEF HasSession, Leaves
  <2>9. CASE \E y \in N(a) : x = Up(1, y)
    <3>1. PICK y \in N(a) : x = Up(1, y)
      BY <2>9
    <3>2. y.label = Pane(s) /\ x = Node(x.path, Pane(s)) /\ y \in Nodes
      <4> HIDE DEF N
      <4> QED BY <3>1, <2>4, <2>6
    <3>3. PICK v \in Level[(k - 1) + 1] : IsSplitAt(v, a, y, s, n, d)
      BY <1>2, <2>1, <2>2, <3>2
    <3>4. v \in Level[k] /\ b \in Level[k] /\ s \in Leaves(a)
      BY <2>1, <2>2, <3>2, <3>3, PaneOfLeaves
    <3> DEFINE u == Split(e, r, v, b)
    <3>5. /\ u \in Level[k + 1]
          /\ Leaves(u) = Leaves(v) \cup Leaves(b)
          /\ Size(u) = Size(v) + Size(b)
          /\ \A m : Twice(u, m) <=> Twice(v, m) \/ Twice(b, m) \/ (m \in Leaves(v) /\ m \in Leaves(b))
      BY <3>4, <2>3, Joined
    <3>6. N(u) = {Root(t)} \cup {Up(1, z) : z \in N(v)} \cup {Up(2, z) : z \in N(b)}
      BY <3>4, <2>3, <2>4, ReconJoined
    <3>7. {Up(1, z) : z \in N(v)} = SplitAt({Up(1, z) : z \in N(a)}, x.path, s, n, d)
      <4>1. N(v) = SplitAt(N(a), y.path, s, n, d)
        BY <3>3 DEF IsSplitAt
      <4>2. Moved(1, SplitAt(N(a), y.path, s, n, d)) = SplitAt(Moved(1, N(a)), Up(1, y).path, s, n, d)
        <5>1. \A M \in SUBSET Nodes : \A z \in M : z.label = Pane(s) =>
                Moved(1, SplitAt(M, z.path, s, n, d)) = SplitAt(Moved(1, M), Up(1, z).path, s, n, d)
          BY UpSplitAt
        <5>2. QED
          BY <5>1, <3>2, <2>4
      <4>3. Moved(1, N(v)) = SplitAt(Moved(1, N(a)), x.path, s, n, d)
        BY <4>1, <4>2, <3>1
      <4>4. QED
        BY <4>3, MovedUp
    <3>8. Distinct(t) => SplitLayoutNode(t, s, n, d) = u
      <4>1. SUFFICES ASSUME Distinct(t) PROVE SplitLayoutNode(t, s, n, d) = u
        OBVIOUS
      <4>2. Distinct(a)
        BY <2>1, <4>1 DEF Distinct
      <4>3. v = SplitLayoutNode(a, s, n, d)
        BY <3>3, <4>2 DEF IsSplitAt
      <4>4. QED
        BY <4>3, <2>0, <2>8, <3>4, SplitEquation
    <3>9. Node(x.path, Pane(s)) \notin {Root(t)} /\ Node(x.path, Pane(s)) \notin {Up(2, z) : z \in N(b)}
      <4> HIDE DEF N
      <4> QED BY <3>1, <3>2, <2>4, <2>5
    <3> HIDE DEF u, N
    <3>10. N(u) = SplitAt(N(t), x.path, s, n, d)
      <4> DEFINE A == {Root(t)}
                 M == {Up(1, z) : z \in N(a)}
                 B == {Up(2, z) : z \in N(b)}
      <4>1. Node(x.path, Pane(s)) \notin A /\ Node(x.path, Pane(s)) \notin B
        BY <3>9
      <4>2. N(t) = A \cup M \cup B /\ N(u) = A \cup SplitAt(M, x.path, s, n, d) \cup B
        BY <3>6, <3>7, <2>4
      <4> HIDE DEF A, M, B
      <4>3. QED
        BY <4>1, <4>2, SplitAtUnion
    <3>11. /\ Size(v) = Size(a) + 1 /\ Leaves(v) = Leaves(a) \cup {n} /\ \A m : Twice(a, m) => Twice(v, m)
           /\ n \in Leaves(a) => Twice(v, n)
      BY <3>3 DEF IsSplitAt
    <3>12. Size(u) = Size(t) + 1
      BY <3>5, <3>11, <2>1, <2>7
    <3> HIDE DEF a, b
    <3>13. Leaves(u) = Leaves(t) \cup {n} /\ (\A m : Twice(t, m) => Twice(u, m)) /\ (n \in Leaves(t) => Twice(u, n))
      BY <3>5, <3>11, <2>1
    <3>14. IsSplitAt(u, t, x, s, n, d)
      BY <3>8, <3>10, <3>12, <3>13 DEF IsSplitAt, N
    <3>15. QED
      BY <3>5, <3>14
  <2>10. CASE \E y \in N(b) : x = Up(2, y)
    <3>1. PICK y \in N(b) : x = Up(2, y)
      BY <2>10
    <3>2. y.label = Pane(s) /\ x = Node(x.path, Pane(s)) /\ y \in Nodes
      <4> HIDE DEF N
      <4> QED BY <3>1, <2>4, <2>6
    <3>3. PICK v \in Level[(k - 1) + 1] : IsSplitAt(v, b, y, s, n, d)
      BY <1>2, <2>1, <2>2, <3>2
    <3>4. v \in Level[k] /\ a \in Level[k] /\ s \in Leaves(b)
      BY <2>1, <2>2, <3>2, <3>3, PaneOfLeaves
    <3> DEFINE u == Split(e, r, a, v)
    <3>5. /\ u \in Level[k + 1]
          /\ Leaves(u) = Leaves(a) \cup Leaves(v)
          /\ Size(u) = Size(a) + Size(v)
          /\ \A m : Twice(u, m) <=> Twice(a, m) \/ Twice(v, m) \/ (m \in Leaves(a) /\ m \in Leaves(v))
      BY <3>4, <2>3, Joined
    <3>6. N(u) = {Root(t)} \cup {Up(1, z) : z \in N(a)} \cup {Up(2, z) : z \in N(v)}
      BY <3>4, <2>3, <2>4, ReconJoined
    <3>7. {Up(2, z) : z \in N(v)} = SplitAt({Up(2, z) : z \in N(b)}, x.path, s, n, d)
      <4>1. N(v) = SplitAt(N(b), y.path, s, n, d)
        BY <3>3 DEF IsSplitAt
      <4>2. Moved(2, SplitAt(N(b), y.path, s, n, d)) = SplitAt(Moved(2, N(b)), Up(2, y).path, s, n, d)
        <5>1. \A M \in SUBSET Nodes : \A z \in M : z.label = Pane(s) =>
                Moved(2, SplitAt(M, z.path, s, n, d)) = SplitAt(Moved(2, M), Up(2, z).path, s, n, d)
          BY UpSplitAt
        <5>2. QED
          BY <5>1, <3>2, <2>4
      <4>3. Moved(2, N(v)) = SplitAt(Moved(2, N(b)), x.path, s, n, d)
        BY <4>1, <4>2, <3>1
      <4>4. QED
        BY <4>3, MovedUp
    <3>8. Distinct(t) => SplitLayoutNode(t, s, n, d) = u
      <4>1. SUFFICES ASSUME Distinct(t) PROVE SplitLayoutNode(t, s, n, d) = u
        OBVIOUS
      <4>2. Distinct(b) /\ s \notin Leaves(a)
        BY <2>1, <4>1, <3>4 DEF Distinct
      <4>3. v = SplitLayoutNode(b, s, n, d)
        BY <3>3, <4>2 DEF IsSplitAt
      <4>4. QED
        BY <4>2, <4>3, <2>0, <2>8, SplitEquation
    <3>9. Node(x.path, Pane(s)) \notin {Root(t)} \cup {Up(1, z) : z \in N(a)} /\ Node(x.path, Pane(s)) \notin {}
      <4> HIDE DEF N
      <4> QED BY <3>1, <3>2, <2>4, <2>5
    <3> HIDE DEF u, N
    <3>10. N(u) = SplitAt(N(t), x.path, s, n, d)
      <4> DEFINE A == {Root(t)} \cup {Up(1, z) : z \in N(a)}
                 M == {Up(2, z) : z \in N(b)}
      <4>1. Node(x.path, Pane(s)) \notin A /\ Node(x.path, Pane(s)) \notin {}
        BY <3>9
      <4>2. N(t) = A \cup M \cup {} /\ N(u) = A \cup SplitAt(M, x.path, s, n, d) \cup {}
        BY <3>6, <3>7, <2>4
      <4> HIDE DEF A, M
      <4>3. QED
        BY <4>1, <4>2, SplitAtUnion
    <3>11. /\ Size(v) = Size(b) + 1 /\ Leaves(v) = Leaves(b) \cup {n} /\ \A m : Twice(b, m) => Twice(v, m)
           /\ n \in Leaves(b) => Twice(v, n)
      BY <3>3 DEF IsSplitAt
    <3>12. Size(u) = Size(t) + 1
      BY <3>5, <3>11, <2>1, <2>7
    <3> HIDE DEF a, b
    <3>13. Leaves(u) = Leaves(t) \cup {n} /\ (\A m : Twice(t, m) => Twice(u, m)) /\ (n \in Leaves(t) => Twice(u, n))
      BY <3>5, <3>11, <2>1
    <3>14. IsSplitAt(u, t, x, s, n, d)
      BY <3>8, <3>10, <3>12, <3>13 DEF IsSplitAt, N
    <3>15. QED
      BY <3>5, <3>14
  <2>11. QED
    BY <2>4, <2>9, <2>10
<1> HIDE DEF S
<1>3. Layouts \subseteq S
  BY <1>1, <1>2, TreeInduction
<1>4. QED
  BY <1>3 DEF S

-----------------------------------------------------------------------------
(* Closing a pane of the page *)

\* u is what the page makes of t when it splits the pane of s.
MakesSplit(u, t, s, n, d) ==
  /\ Size(u) = Size(t) + 1
  /\ Leaves(u) = Leaves(t) \cup {n}
  /\ \A m : Twice(t, m) => Twice(u, m)
  /\ n \in Leaves(t) => Twice(u, n)
  /\ Distinct(t) => u = SplitLayoutNode(t, s, n, d)

\* applySplit does to the page's tree what splitLayoutNode does to the server's.
LEMMA ApplySplitMakes ==
  ASSUME NEW t \in Layouts, NEW s \in Leaves(t), NEW n \in Sessions, NEW d \in Directions, Size(t) <= MaxSessions
  PROVE \E u \in Layouts : ApplySplit(ReconstructLayout(t), s, n, d) = ReconstructLayout(u) /\ MakesSplit(u, t, s, n, d)
<1> DEFINE N == ReconstructLayout(t)
           x == FindPaneBySessionID(N, s)
           k == MaxSessions - 1
<1>1. x \in N /\ x.label = Pane(s) /\ x = Node(x.path, Pane(s))
  BY FindPane
<1>2. s \in Sessions /\ Size(t) \in Nat
  BY LeavesType
<1>3. k \in Nat /\ k + 1 = MaxSessions /\ k + 1 <= MaxSessions /\ Size(t) <= k + 1
  BY <1>2, MaxSessionsNat
<1>4. t \in Level[k]
  BY <1>3, SmallTree
<1> HIDE DEF k
<1>5. PICK u \in Level[k + 1] : IsSplitAt(u, t, x, s, n, d)
  <2> HIDE DEF x
  <2>1. \A y \in ReconstructLayout(t) :
          k + 1 <= MaxSessions /\ t \in Level[k] /\ y.label = Pane(s) => \E u \in Level[k + 1] : IsSplitAt(u, t, y, s, n, d)
    BY <1>2, <1>3, PageSplits
  <2>2. QED
    BY <2>1, <1>1, <1>3, <1>4
<1>6. u \in Layouts
  BY <1>3 DEF Layouts
<1>7. PanesOf(N, s) # {}
  BY ReconPanes
<1>8. ApplySplit(N, s, n, d) = SplitAt(N, x.path, s, n, d)
  <2> HIDE DEF N
  <2> QED BY <1>7 DEF ApplySplit, SplitAt, NewNodes, SplitLabel
<1>9. ApplySplit(N, s, n, d) = ReconstructLayout(u) /\ MakesSplit(u, t, s, n, d)
  BY <1>5, <1>8 DEF IsSplitAt, MakesSplit
<1>10. QED
  BY <1>6, <1>9

\* The page does nothing when it does not show the session to be split.
LEMMA ApplySplitNothing ==
  ASSUME NEW t \in Layouts, NEW s, NEW n, NEW d, s \notin Leaves(t)
  PROVE ApplySplit(ReconstructLayout(t), s, n, d) = ReconstructLayout(t)
BY ReconPanes DEF ApplySplit

-----------------------------------------------------------------------------
\* A node of the sibling, lifted to its parent's place.
Lifted(parent, sibling, x) == Node(parent \o Rear(x.path, Len(sibling)), x.label)

\* The page without the node at p: its sibling takes the parent's place.
CloseAt(N, p) ==
  LET parent == Front(p)
      sibling == parent \o <<3 - Last(p)>> IN
  {x \in N : ~IsPrefix(parent, x.path)} \cup {Lifted(parent, sibling, y) : y \in {x \in N : IsPrefix(sibling, x.path)}}

\* The pane is in the part that moves aside.
LEMMA CloseAtRoot ==
  ASSUME NEW i \in {1, 2}, NEW r, r.path = <<>>, NEW A \in SUBSET Nodes, NEW B \in SUBSET Nodes
  PROVE CloseAt({r} \cup Moved(i, A) \cup Moved(3 - i, B), <<i>> \o <<>>) = B
<1> DEFINE N == {r} \cup Moved(i, A) \cup Moved(3 - i, B)
           sibling == <<>> \o <<3 - i>>
<1>1. Front(<<i>> \o <<>>) = <<>> /\ Last(<<i>> \o <<>>) = i /\ <<>> \in Paths
  <2>1. <<>> \in Paths
    BY DEF Paths
  <2>2. \A p \in Paths : Front(<<i>> \o <<>>) = <<>> /\ Last(<<i>> \o <<>>) = i
    BY ConsFront
  <2>3. QED
    BY <2>1, <2>2
<1>2. sibling = <<3 - i>> \o <<>> /\ Len(sibling) = 1 /\ 3 - i \in {1, 2} /\ 3 - i # i
  OBVIOUS
<1>3. \A x \in A \cup B : x.path \in Paths /\ x = Node(x.path, x.label)
  BY NodesType
<1>4. \A x \in N : x = r \/ (\E y \in A : x = Up(i, y)) \/ (\E z \in B : x = Up(3 - i, z))
  <2>1. Moved(i, A) = {Up(i, x) : x \in A} /\ Moved(3 - i, B) = {Up(3 - i, x) : x \in B}
    BY MovedUp
  <2>2. \A x \in N : x = r \/ x \in Moved(i, A) \/ x \in Moved(3 - i, B)
    OBVIOUS
  <2>3. \A x \in Moved(i, A) : \E y \in A : x = Up(i, y)
    BY <2>1
  <2>4. \A x \in Moved(3 - i, B) : \E z \in B : x = Up(3 - i, z)
    BY <2>1
  <2> HIDE DEF N
  <2> SUFFICES ASSUME NEW x \in N PROVE x = r \/ (\E y \in A : x = Up(i, y)) \/ (\E z \in B : x = Up(3 - i, z))
    OBVIOUS
  <2>5. CASE x = r
    BY <2>5
  <2>6. CASE x \in Moved(i, A)
    BY <2>6, <2>3
  <2>7. CASE x \in Moved(3 - i, B)
    BY <2>7, <2>4
  <2>8. QED
    BY <2>2, <2>5, <2>6, <2>7
<1>5. \A x \in N : IsPrefix(<<>>, x.path)
  <2>1. \A p \in Paths : IsPrefix(<<>>, p)
    BY ConsPrefix
  <2>2. \A p \in Paths : <<i>> \o p \in Paths /\ <<3 - i>> \o p \in Paths
    BY <1>2, Consed
  <2>3. \A j, x : Up(j, x).path = <<j>> \o x.path
    BY UpFields
  <2> HIDE DEF N
  <2>4. \A y \in A : IsPrefix(<<>>, Up(i, y).path)
    <3> SUFFICES ASSUME NEW y \in A PROVE IsPrefix(<<>>, Up(i, y).path)
      OBVIOUS
    <3>1. y.path \in Paths
      BY <1>3
    <3>2. <<i>> \o y.path \in Paths
      BY <3>1, <2>2
    <3>3. QED
      BY <3>2, <2>1, <2>3
  <2>5. \A y \in B : IsPrefix(<<>>, Up(3 - i, y).path)
    <3> SUFFICES ASSUME NEW y \in B PROVE IsPrefix(<<>>, Up(3 - i, y).path)
      OBVIOUS
    <3>1. y.path \in Paths
      BY <1>3
    <3>2. <<3 - i>> \o y.path \in Paths
      BY <3>1, <2>2
    <3>3. QED
      BY <3>2, <2>1, <2>3
  <2>6. IsPrefix(<<>>, r.path)
    BY <1>1, <2>1
  <2>7. QED
    BY <1>4, <2>4, <2>5, <2>6
<1>6. /\ ~IsPrefix(sibling, <<>>)
      /\ \A p \in Paths : ~IsPrefix(sibling, <<i>> \o p) /\ IsPrefix(sibling, <<3 - i>> \o p)
  <2>1. \A p, q \in Paths : \A j, k \in {1, 2} : /\ IsPrefix(<<j>> \o p, <<k>> \o q) <=> j = k /\ IsPrefix(p, q)
                                                 /\ IsPrefix(<<>>, q)
                                                 /\ ~IsPrefix(<<j>> \o p, <<>>)
    BY ConsPrefix
  <2> HIDE DEF sibling
  <2>2. QED
    BY <1>1, <1>2, <2>1
<1>7. {x \in N : IsPrefix(sibling, x.path)} = Moved(3 - i, B)
  <2>1. \A j, x : Up(j, x).path = <<j>> \o x.path
    BY UpFields
  <2>2. Moved(i, A) = {Up(i, x) : x \in A} /\ Moved(3 - i, B) = {Up(3 - i, x) : x \in B}
    BY MovedUp
  <2> HIDE DEF sibling
  <2>3. \A x \in Moved(i, A) : ~IsPrefix(sibling, x.path)
    <3>1. \A y \in A : ~IsPrefix(sibling, Up(i, y).path)
      <4> SUFFICES ASSUME NEW y \in A PROVE ~IsPrefix(sibling, Up(i, y).path)
        OBVIOUS
      <4>1. y.path \in Paths
        BY <1>3
      <4>2. QED
        BY <4>1, <1>6, <2>1
    <3>2. QED
      BY <3>1, <2>2
  <2>4. \A x \in Moved(3 - i, B) : IsPrefix(sibling, x.path)
    <3>1. \A y \in B : IsPrefix(sibling, Up(3 - i, y).path)
      <4> SUFFICES ASSUME NEW y \in B PROVE IsPrefix(sibling, Up(3 - i, y).path)
        OBVIOUS
      <4>1. y.path \in Paths
        BY <1>3
      <4>2. QED
        BY <4>1, <1>6, <2>1
    <3>2. QED
      BY <3>1, <2>2
  <2>5. QED
    BY <2>3, <2>4, <1>6
<1>8. ASSUME NEW x \in B PROVE Lifted(<<>>, sibling, Up(3 - i, x)) = x
  <2>1. x.path \in Paths /\ x = Node(x.path, x.label)
    BY <1>3
  <2>2. Up(3 - i, x).path = <<3 - i>> \o x.path /\ Up(3 - i, x).label = x.label
    BY UpFields
  <2>3. Rear(<<3 - i>> \o x.path, 0 + 1) = Rear(x.path, 0) /\ Rear(x.path, 0) = x.path
    <3>1. 0 \in Nat /\ 0 <= Len(x.path)
      BY <2>1 DEF Paths
    <3>2. QED
      BY <2>1, <3>1, <1>2, ConsRear
  <2>4. <<>> \o x.path = x.path
    BY <2>1 DEF Paths
  <2>5. Rear(Up(3 - i, x).path, Len(sibling)) = x.path
    <3>1. Len(sibling) = 0 + 1
      BY <1>2
    <3> HIDE DEF sibling
    <3>2. QED
      BY <2>2, <2>3, <3>1
  <2> HIDE DEF sibling
  <2>6. QED
    BY <2>1, <2>2, <2>4, <2>5 DEF Lifted
<1>9. {Lifted(<<>>, sibling, y) : y \in Moved(3 - i, B)} = B
  <2>1. Moved(3 - i, B) = {Up(3 - i, x) : x \in B}
    BY MovedUp
  <2> HIDE DEF sibling
  <2>2. QED
    BY <2>1, <1>8
<1>10. CloseAt(N, <<i>> \o <<>>) =
         {x \in N : ~IsPrefix(<<>>, x.path)} \cup {Lifted(<<>>, sibling, y) : y \in {x \in N : IsPrefix(sibling, x.path)}}
  BY <1>1 DEF CloseAt
<1> HIDE DEF N, sibling
<1>11. CloseAt(N, <<i>> \o <<>>) = B
  BY <1>5, <1>7, <1>9, <1>10
<1>12. QED
  BY <1>11 DEF N

\* Closing a pane further down in the i-th part of a split.
ClosesDeeper(i, r, A, B, p) ==
  CloseAt({r} \cup Moved(i, A) \cup Moved(3 - i, B), <<i>> \o p) = {r} \cup Moved(i, CloseAt(A, p)) \cup Moved(3 - i, B)

\* The pane is deeper in a part of the tree.
LEMMA CloseAtUp ==
  ASSUME NEW i \in {1, 2}, NEW r, r.path = <<>>, NEW A \in SUBSET Nodes, NEW B \in SUBSET Nodes, NEW p \in Paths, p # <<>>
  PROVE ClosesDeeper(i, r, A, B, p)
<1> DEFINE N == {r} \cup Moved(i, A) \cup Moved(3 - i, B)
           parent == Front(p)
           sibling == parent \o <<3 - Last(p)>>
           parent2 == <<i>> \o parent
           sibling2 == parent2 \o <<3 - Last(p)>>
<1>1. Front(<<i>> \o p) = parent2 /\ Last(<<i>> \o p) = Last(p) /\ parent \in Paths /\ Last(p) \in {1, 2}
  BY ConsFront
<1>2. sibling \in Paths /\ sibling2 = <<i>> \o sibling /\ Len(sibling2) = Len(sibling) + 1 /\ Len(sibling) \in Nat
  <2>1. <<3 - Last(p)>> \in Paths
    BY <1>1 DEF Paths
  <2>2. sibling \in Paths /\ sibling2 = <<i>> \o sibling
    BY <1>1, <2>1, ConsConcat
  <2> HIDE DEF sibling, sibling2
  <2>3. QED
    BY <2>2, Consed
<1>3. 3 - i \in {1, 2} /\ 3 - i # i
  OBVIOUS
<1>4. \A x \in A \cup B : x.path \in Paths /\ x = Node(x.path, x.label)
  BY NodesType
<1>5. Moved(i, A) = {Up(i, x) : x \in A} /\ Moved(3 - i, B) = {Up(3 - i, x) : x \in B}
  BY MovedUp
<1>6. \A j, x : Up(j, x).path = <<j>> \o x.path /\ Up(j, x).label = x.label
  BY UpFields
<1> HIDE DEF parent, sibling, sibling2
<1>7. \A q \in {parent, sibling} :
        /\ ~IsPrefix(<<i>> \o q, <<>>)
        /\ \A o \in Paths : /\ ~IsPrefix(<<i>> \o q, <<3 - i>> \o o)
                            /\ IsPrefix(<<i>> \o q, <<i>> \o o) <=> IsPrefix(q, o)
  <2>1. \A a, b \in Paths : \A j, k \in {1, 2} : /\ IsPrefix(<<j>> \o a, <<k>> \o b) <=> j = k /\ IsPrefix(a, b)
                                                 /\ ~IsPrefix(<<j>> \o a, <<>>)
    BY ConsPrefix
  <2>2. \A q \in {parent, sibling} : q \in Paths
    BY <1>1, <1>2
  <2>3. <<>> \in Paths
    BY DEF Paths
  <2>4. QED
    BY <1>3, <2>1, <2>2, <2>3
<1> DEFINE K == {x \in A : ~IsPrefix(parent, x.path)}
           L == {x \in A : IsPrefix(sibling, x.path)}
<1>8. {x \in N : ~IsPrefix(parent2, x.path)} = {r} \cup Moved(i, K) \cup Moved(3 - i, B)
  <2>1. ~IsPrefix(parent2, r.path)
    BY <1>7
  <2>2. \A x \in A : IsPrefix(parent2, Up(i, x).path) <=> IsPrefix(parent, x.path)
    <3> SUFFICES ASSUME NEW x \in A PROVE (IsPrefix(parent2, Up(i, x).path) <=> IsPrefix(parent, x.path))
      OBVIOUS
    <3>1. x.path \in Paths
      BY <1>4
    <3>2. Up(i, x).path = <<i>> \o x.path
      BY <1>6
    <3>3. QED
      BY <3>1, <3>2, <1>7
  <2>3. \A x \in B : ~IsPrefix(parent2, Up(3 - i, x).path)
    <3> SUFFICES ASSUME NEW x \in B PROVE ~IsPrefix(parent2, Up(3 - i, x).path)
      OBVIOUS
    <3>1. x.path \in Paths
      BY <1>4
    <3>2. Up(3 - i, x).path = <<3 - i>> \o x.path
      BY <1>6
    <3>3. QED
      BY <3>1, <3>2, <1>7
  <2>4. Moved(i, K) = {Up(i, x) : x \in K}
    BY MovedUp
  <2> HIDE DEF parent2
  <2>5. QED
    BY <2>1, <2>2, <2>3, <2>4, <1>5
<1>9. {x \in N : IsPrefix(sibling2, x.path)} = {Up(i, x) : x \in L}
  <2>1. ~IsPrefix(sibling2, r.path)
    BY <1>2, <1>7
  <2>2. \A x \in A : IsPrefix(sibling2, Up(i, x).path) <=> IsPrefix(sibling, x.path)
    <3> SUFFICES ASSUME NEW x \in A PROVE (IsPrefix(sibling2, Up(i, x).path) <=> IsPrefix(sibling, x.path))
      OBVIOUS
    <3>1. x.path \in Paths
      BY <1>4
    <3>2. Up(i, x).path = <<i>> \o x.path
      BY <1>6
    <3>3. QED
      BY <3>1, <3>2, <1>7, <1>2
  <2>3. \A x \in B : ~IsPrefix(sibling2, Up(3 - i, x).path)
    <3> SUFFICES ASSUME NEW x \in B PROVE ~IsPrefix(sibling2, Up(3 - i, x).path)
      OBVIOUS
    <3>1. x.path \in Paths
      BY <1>4
    <3>2. Up(3 - i, x).path = <<3 - i>> \o x.path
      BY <1>6
    <3>3. QED
      BY <3>1, <3>2, <1>7, <1>2
  <2>4. QED
    BY <2>1, <2>2, <2>3, <1>5
<1>10. ASSUME NEW x \in L PROVE Lifted(parent2, sibling2, Up(i, x)) = Up(i, Lifted(parent, sibling, x))
  <2>1. x.path \in Paths /\ x \in A
    BY <1>4
  <2>2. Len(sibling) <= Len(x.path)
    BY DEF IsPrefix
  <2>3. Rear(<<i>> \o x.path, Len(sibling) + 1) = Rear(x.path, Len(sibling)) /\ Rear(x.path, Len(sibling)) \in Paths
    BY <2>1, <2>2, <1>2, ConsRear
  <2> DEFINE q == Rear(x.path, Len(sibling))
  <2>4. q \in Paths
    BY <2>3
  <2>5. Rear(Up(i, x).path, Len(sibling2)) = q
    BY <2>3, <1>2, <1>6
  <2> HIDE DEF q
  <2>6. parent2 \o q = <<i>> \o (parent \o q)
    BY <2>4, <1>1, ConsConcat
  <2>7. Lifted(parent2, sibling2, Up(i, x)) = Node(<<i>> \o (parent \o q), x.label)
    BY <2>5, <2>6, <1>6 DEF Lifted
  <2>8. Lifted(parent, sibling, x) = Node(parent \o q, x.label)
    BY DEF Lifted, q
  <2>9. Up(i, Node(parent \o q, x.label)) = Node(<<i>> \o (parent \o q), x.label)
    BY UpNode
  <2>10. QED
    BY <2>7, <2>8, <2>9
<1>11. {Lifted(parent2, sibling2, y) : y \in {Up(i, x) : x \in L}} = {Up(i, z) : z \in {Lifted(parent, sibling, x) : x \in L}}
  <2> HIDE DEF L
  <2> QED BY <1>10
<1>12. CloseAt(N, <<i>> \o p) = {x \in N : ~IsPrefix(parent2, x.path)} \cup {Lifted(parent2, sibling2, y) : y \in {x \in N : IsPrefix(sibling2, x.path)}}
  BY <1>1 DEF CloseAt, sibling2
<1>13. CloseAt(A, p) = K \cup {Lifted(parent, sibling, x) : x \in L}
  BY DEF CloseAt, parent, sibling
<1> HIDE DEF N, K, L, parent2
<1>14. Moved(i, CloseAt(A, p)) = Moved(i, K) \cup {Up(i, z) : z \in {Lifted(parent, sibling, x) : x \in L}}
  BY <1>13, MovedUp
<1>15. CloseAt(N, <<i>> \o p) = {r} \cup Moved(i, CloseAt(A, p)) \cup Moved(3 - i, B)
  BY <1>8, <1>9, <1>11, <1>12, <1>14
<1>16. QED
  BY <1>15 DEF N, ClosesDeeper

\* Closing a pane of a split: in its first part, in its second part.
ClosesSides(l, A, B, p) ==
  /\ CloseAt({Node(<<>>, l)} \cup Moved(1, A) \cup Moved(2, B), <<1>> \o p) =
       IF p = <<>> THEN B ELSE {Node(<<>>, l)} \cup Moved(1, CloseAt(A, p)) \cup Moved(2, B)
  /\ CloseAt({Node(<<>>, l)} \cup Moved(1, A) \cup Moved(2, B), <<2>> \o p) =
       IF p = <<>> THEN A ELSE {Node(<<>>, l)} \cup Moved(1, A) \cup Moved(2, CloseAt(B, p))

\* A pane of a split is closed: its sibling is left, or its part is changed.
LEMMA CloseAtSides ==
  ASSUME NEW l, NEW A \in SUBSET Nodes, NEW B \in SUBSET Nodes, NEW p \in Paths
  PROVE ClosesSides(l, A, B, p)
<1> DEFINE r == Node(<<>>, l)
<1>1. r.path = <<>>
  BY DEF Node
<1>2. 3 - 1 = 2 /\ 3 - 2 = 1 /\ 1 \in {1, 2} /\ 2 \in {1, 2}
  OBVIOUS
<1> HIDE DEF r
<1>3. \A i \in {1, 2} : \A M, N \in SUBSET Nodes :
        CloseAt({r} \cup Moved(i, M) \cup Moved(3 - i, N), <<i>> \o <<>>) = N
  <2> SUFFICES ASSUME NEW i \in {1, 2}, NEW M \in SUBSET Nodes, NEW N \in SUBSET Nodes
               PROVE CloseAt({r} \cup Moved(i, M) \cup Moved(3 - i, N), <<i>> \o <<>>) = N
    OBVIOUS
  <2> QED BY <1>1, CloseAtRoot
<1>4. \A i \in {1, 2} : \A M, N \in SUBSET Nodes : p # <<>> =>
        CloseAt({r} \cup Moved(i, M) \cup Moved(3 - i, N), <<i>> \o p) = {r} \cup Moved(i, CloseAt(M, p)) \cup Moved(3 - i, N)
  <2> SUFFICES ASSUME NEW i \in {1, 2}, NEW M \in SUBSET Nodes, NEW N \in SUBSET Nodes, p # <<>>
               PROVE CloseAt({r} \cup Moved(i, M) \cup Moved(3 - i, N), <<i>> \o p) = {r} \cup Moved(i, CloseAt(M, p)) \cup Moved(3 - i, N)
    OBVIOUS
  <2>1. ClosesDeeper(i, r, M, N, p)
    BY <1>1, CloseAtUp
  <2>2. QED
    BY <2>1 DEF ClosesDeeper
<1>5. /\ CloseAt({r} \cup Moved(1, A) \cup Moved(3 - 1, B), <<1>> \o <<>>) = B
      /\ CloseAt({r} \cup Moved(2, B) \cup Moved(3 - 2, A), <<2>> \o <<>>) = A
  BY <1>2, <1>3
<1>6. p # <<>> =>
      /\ CloseAt({r} \cup Moved(1, A) \cup Moved(3 - 1, B), <<1>> \o p) = {r} \cup Moved(1, CloseAt(A, p)) \cup Moved(3 - 1, B)
      /\ CloseAt({r} \cup Moved(2, B) \cup Moved(3 - 2, A), <<2>> \o p) = {r} \cup Moved(2, CloseAt(B, p)) \cup Moved(3 - 2, A)
  BY <1>2, <1>4
<1>7. /\ {r} \cup Moved(2, B) \cup Moved(1, A) = {r} \cup Moved(1, A) \cup Moved(2, B)
      /\ {r} \cup Moved(2, CloseAt(B, p)) \cup Moved(1, A) = {r} \cup Moved(1, A) \cup Moved(2, CloseAt(B, p))
  OBVIOUS
<1>8. /\ CloseAt({r} \cup Moved(1, A) \cup Moved(2, B), <<1>> \o <<>>) = B
      /\ CloseAt({r} \cup Moved(2, B) \cup Moved(1, A), <<2>> \o <<>>) = A
      /\ p # <<>> =>
           /\ CloseAt({r} \cup Moved(1, A) \cup Moved(2, B), <<1>> \o p) = {r} \cup Moved(1, CloseAt(A, p)) \cup Moved(2, B)
           /\ CloseAt({r} \cup Moved(2, B) \cup Moved(1, A), <<2>> \o p) = {r} \cup Moved(2, CloseAt(B, p)) \cup Moved(1, A)
  BY <1>2, <1>5, <1>6
<1>9. /\ CloseAt({r} \cup Moved(1, A) \cup Moved(2, B), <<1>> \o p) =
           IF p = <<>> THEN B ELSE {r} \cup Moved(1, CloseAt(A, p)) \cup Moved(2, B)
      /\ CloseAt({r} \cup Moved(1, A) \cup Moved(2, B), <<2>> \o p) =
           IF p = <<>> THEN A ELSE {r} \cup Moved(1, A) \cup Moved(2, CloseAt(B, p))
  BY <1>7, <1>8, Zenon
<1>10. QED
  BY <1>9 DEF r, ClosesSides

\* u is t without the pane x of s.
IsCloseAt(u, t, x, s) ==
  /\ ReconstructLayout(u) = CloseAt(ReconstructLayout(t), x.path)
  /\ Size(u) + 1 = Size(t)
  /\ Leaves(u) \cup {s} = Leaves(t)
  /\ s \in Leaves(u) <=> Twice(t, s)
  /\ \A m : m # s => (Twice(u, m) <=> Twice(t, m))
  /\ Distinct(t) => u = ClosePaneInLayout(t, s)

\* Closing a pane on the page closes it in the tree.
LEMMA PageCloses ==
  ASSUME NEW s \in Sessions
  PROVE \A t \in Layouts : \A k \in Nat : \A x \in ReconstructLayout(t) :
          k <= MaxSessions /\ t \in Level[k] /\ x.label = Pane(s) /\ x.path # <<>> =>
            \E u \in Level[k] : IsCloseAt(u, t, x, s)
<1> DEFINE N(t) == ReconstructLayout(t)
           S == {t \in Layouts : \A k \in Nat : \A x \in N(t) :
                   k <= MaxSessions /\ t \in Level[k] /\ x.label = Pane(s) /\ x.path # <<>> =>
                     \E u \in Level[k] : IsCloseAt(u, t, x, s)}
<1>1. ASSUME NEW t \in Layouts, IsPaneTree(t) PROVE t \in S
  <2>1. \A x \in N(t) : x.path = <<>>
    BY <1>1, ReconPane
  <2>2. QED
    BY <2>1
<1>2. ASSUME NEW t \in Layouts, IsSplitTree(t), t.first \in Layouts, t.second \in Layouts, t.first \in S, t.second \in S
      PROVE t \in S
  <2> SUFFICES ASSUME NEW k \in Nat, NEW x \in N(t), k <= MaxSessions, t \in Level[k], x.label = Pane(s), x.path # <<>>
               PROVE \E u \in Level[k] : IsCloseAt(u, t, x, s)
    OBVIOUS
  <2> DEFINE a == t.first
             b == t.second
             e == t.direction
             r == t.ratio
             l == SplitLabel(e, r)
  <2>0. ~IsPaneTree(t) /\ t.type = "split"
    BY <1>2 DEF IsPaneTree, IsSplitTree
  <2>1. /\ k - 1 \in Nat /\ (k - 1) + 1 = k /\ a \in Level[k - 1] /\ b \in Level[k - 1]
        /\ a \in Layouts /\ b \in Layouts
        /\ Leaves(t) = Leaves(a) \cup Leaves(b)
        /\ Size(t) = Size(a) + Size(b)
        /\ \A m : Twice(t, m) <=> Twice(a, m) \/ Twice(b, m) \/ (m \in Leaves(a) /\ m \in Leaves(b))
    BY <2>0, Parted
  <2>2. Level[k - 1] \subseteq Level[k] /\ k - 1 <= MaxSessions
    <3>1. Level[k - 1] \subseteq Level[(k - 1) + 1]
      BY <2>1, LevelGrows
    <3>2. QED
      BY <3>1, <2>1, MaxSessionsNat
  <2>3. e \in Directions /\ r \in Ratios \cup {Half}
    BY <1>2 DEF IsSplitTree
  <2>4. /\ N(t) = {Node(<<>>, l)} \cup {Up(1, z) : z \in N(a)} \cup {Up(2, z) : z \in N(b)}
        /\ N(a) \in SUBSET Nodes /\ N(b) \in SUBSET Nodes
        /\ Node(<<>>, l).label # Pane(s)
    BY <1>2, ReconSplit DEF Root
  <2>5. N(t) = {Node(<<>>, l)} \cup Moved(1, N(a)) \cup Moved(2, N(b))
    BY <2>4, MovedUp
  <2>6. /\ \A i, y : Up(i, y).label = y.label /\ Up(i, y).path = <<i>> \o y.path
        /\ \A y \in Nodes : y.path \in Paths
    <3>1. \A i, y : Up(i, y).label = y.label /\ Up(i, y).path = <<i>> \o y.path
      BY UpFields
    <3>2. \A y \in Nodes : y.path \in Paths
      BY NodesType
    <3>3. QED
      BY <3>1, <3>2
  <2>7. /\ Size(a) \in Nat /\ Size(b) \in Nat
        /\ \A m : Twice(a, m) => m \in Leaves(a)
        /\ \A m : Twice(b, m) => m \in Leaves(b)
    BY <2>1, LeavesType
  <2>8. HasSession(a, s) <=> s \in Leaves(a)
    BY DEF HasSession, Leaves
  <2>9. \A p \in Paths :
          /\ CloseAt(N(t), <<1>> \o p) =
               IF p = <<>> THEN N(b) ELSE {Node(<<>>, l)} \cup Moved(1, CloseAt(N(a), p)) \cup Moved(2, N(b))
          /\ CloseAt(N(t), <<2>> \o p) =
               IF p = <<>> THEN N(a) ELSE {Node(<<>>, l)} \cup Moved(1, N(a)) \cup Moved(2, CloseAt(N(b), p))
    <3> SUFFICES ASSUME NEW p \in Paths
                 PROVE /\ CloseAt(N(t), <<1>> \o p) =
                            IF p = <<>> THEN N(b) ELSE {Node(<<>>, l)} \cup Moved(1, CloseAt(N(a), p)) \cup Moved(2, N(b))
                       /\ CloseAt(N(t), <<2>> \o p) =
                            IF p = <<>> THEN N(a) ELSE {Node(<<>>, l)} \cup Moved(1, N(a)) \cup Moved(2, CloseAt(N(b), p))
      OBVIOUS
    <3> HIDE DEF N, a, b, l
    <3>1. ClosesSides(l, N(a), N(b), p)
      BY <2>4, CloseAtSides
    <3>2. QED
      BY <3>1, <2>5 DEF ClosesSides
  <2>10. \A v \in Layouts : \A y \in N(v) : y.label = Pane(s) => s \in Leaves(v) /\ (y.path = <<>> => v = Pane(s))
                                                              /\ (y.path # <<>> => v # Pane(s))
    <3> SUFFICES ASSUME NEW v \in Layouts, NEW y \in N(v), y.label = Pane(s)
                 PROVE s \in Leaves(v) /\ (y.path = <<>> => v = Pane(s)) /\ (y.path # <<>> => v # Pane(s))
      OBVIOUS
    <3>1. s \in Leaves(v)
      BY PaneOfLeaves
    <3>2. IsPane(y)
      BY DEF IsPane, Pane
    <3>3. y.path = <<>> => v = Pane(s)
      BY <3>2, ReconPaths
    <3>4. IsPaneTree(Pane(s))
      BY PaneIsTree
    <3>5. y.path # <<>> => v # Pane(s)
      BY <3>4, ReconPaths
    <3>6. QED
      BY <3>1, <3>3, <3>5
  <2>11. \A m : ~Twice(Pane(s), m)
    BY PaneLeaves
  <2>12. Leaves(Pane(s)) = {s} /\ Size(Pane(s)) = 1
    BY PaneLeaves
  <2>13. CASE \E y \in N(a) : x = Up(1, y)
    <3>1. PICK y \in N(a) : x = Up(1, y)
      BY <2>13
    <3>2. y.label = Pane(s) /\ x.path = <<1>> \o y.path /\ y.path \in Paths
      <4> HIDE DEF N, a, b
      <4> QED BY <3>1, <2>4, <2>6
    <3>3. s \in Leaves(a) /\ (y.path = <<>> => a = Pane(s)) /\ (y.path # <<>> => a # Pane(s))
      BY <3>2, <2>1, <2>10
    <3>4. Distinct(t) => Distinct(a) /\ s \notin Leaves(b)
      BY <2>1, <3>3 DEF Distinct
    <3>5. CASE y.path = <<>>
      <4>1. a = Pane(s)
        BY <3>3, <3>5
      <4>2. b \in Level[k] /\ N(b) = CloseAt(N(t), x.path)
        BY <2>1, <2>2, <2>9, <3>2, <3>5
      <4>3. Distinct(t) => ClosePaneInLayout(t, s) = b
        <5>1. SUFFICES ASSUME Distinct(t) PROVE ClosePaneInLayout(t, s) = b
          OBVIOUS
        <5>2. b # Pane(s)
          BY <5>1, <3>4, <2>12
        <5>3. QED
          BY <4>1, <5>2, <2>0, CloseEquation
      <4> HIDE DEF N, a, b
      <4>4. /\ Size(b) + 1 = Size(t) /\ Leaves(b) \cup {s} = Leaves(t)
        BY <4>1, <2>1, <2>7, <2>12
      <4>5. /\ s \in Leaves(b) <=> Twice(t, s)
            /\ \A m : m # s => (Twice(b, m) <=> Twice(t, m))
        BY <4>1, <2>1, <2>7, <2>11, <2>12
      <4>6. IsCloseAt(b, t, x, s)
        BY <4>2, <4>3, <4>4, <4>5 DEF IsCloseAt, N
      <4>7. QED
        BY <4>2, <4>6
    <3>6. CASE y.path # <<>>
      <4>1. PICK v \in Level[k - 1] : IsCloseAt(v, a, y, s)
        BY <1>2, <2>1, <2>2, <3>2, <3>6
      <4> DEFINE u == Split(e, r, v, b)
      <4>2. /\ u \in Level[k]
            /\ Leaves(u) = Leaves(v) \cup Leaves(b)
            /\ Size(u) = Size(v) + Size(b)
            /\ \A m : Twice(u, m) <=> Twice(v, m) \/ Twice(b, m) \/ (m \in Leaves(v) /\ m \in Leaves(b))
        <5>1. (k - 1) + 1 = k /\ k - 1 \in Nat /\ (k - 1) + 1 <= MaxSessions
          BY <2>1
        <5> DEFINE h == k - 1
        <5>2. h \in Nat /\ h + 1 <= MaxSessions /\ v \in Level[h] /\ b \in Level[h] /\ Level[h + 1] = Level[k]
          BY <5>1, <2>1, <4>1
        <5> HIDE DEF h
        <5>3. QED
          BY <5>2, <2>3, Joined
      <4>3. N(u) = {Node(<<>>, l)} \cup {Up(1, z) : z \in N(v)} \cup {Up(2, z) : z \in N(b)}
        <5>1. (k - 1) + 1 = k /\ k - 1 \in Nat /\ (k - 1) + 1 <= MaxSessions
          BY <2>1
        <5> DEFINE h == k - 1
        <5>2. h \in Nat /\ h + 1 <= MaxSessions /\ v \in Level[h] /\ b \in Level[h]
          BY <5>1, <2>1, <4>1
        <5> HIDE DEF h
        <5>3. QED
          BY <5>2, <2>3, ReconJoined
      <4>4. N(u) = {Node(<<>>, l)} \cup Moved(1, N(v)) \cup Moved(2, N(b))
        BY <4>3, MovedUp
      <4>5. N(v) = CloseAt(N(a), y.path)
        BY <4>1 DEF IsCloseAt
      <4>6. CloseAt(N(t), x.path) = {Node(<<>>, l)} \cup Moved(1, CloseAt(N(a), y.path)) \cup Moved(2, N(b))
        BY <2>9, <3>2, <3>6
      <4>7. N(u) = CloseAt(N(t), x.path)
        <5> HIDE DEF N, a, b, l, u
        <5> QED BY <4>4, <4>5, <4>6
      <4>8. Distinct(t) => ClosePaneInLayout(t, s) = u
        <5>1. SUFFICES ASSUME Distinct(t) PROVE ClosePaneInLayout(t, s) = u
          OBVIOUS
        <5>2. a # Pane(s) /\ b # Pane(s)
          BY <5>1, <3>3, <3>4, <3>6, <2>12
        <5>3. v = ClosePaneInLayout(a, s)
          BY <4>1, <5>1, <3>4 DEF IsCloseAt
        <5>4. HasSession(a, s) <=> TRUE
          BY <5>1, <2>8, <3>3, <3>4
        <5>5. QED
          BY <5>2, <5>3, <5>4, <2>0, CloseEquation
      <4>9. /\ Size(v) + 1 = Size(a) /\ Leaves(v) \cup {s} = Leaves(a)
            /\ s \in Leaves(v) <=> Twice(a, s)
            /\ \A m : m # s => (Twice(v, m) <=> Twice(a, m))
        BY <4>1 DEF IsCloseAt
      <4> HIDE DEF N, a, b, u
      <4>10. Size(v) \in Nat
        <5>1. v \in Layouts
          BY <4>1, <2>1, <2>2, LevelIsLayout
        <5>2. QED
          BY <5>1, LeavesType
      <4>11. Size(u) + 1 = Size(t)
        BY <4>2, <4>9, <4>10, <2>1, <2>7
      <4>12. /\ Leaves(u) \cup {s} = Leaves(t)
             /\ s \in Leaves(u) <=> Twice(t, s)
        BY <4>2, <4>9, <2>1, <2>7, <3>3
      <4>13. \A m : m # s => (Twice(u, m) <=> Twice(t, m))
        <5>1. \A m : m # s => (m \in Leaves(v) <=> m \in Leaves(a))
          BY <4>9
        <5>2. QED
          BY <5>1, <4>2, <4>9, <2>1
      <4>14. IsCloseAt(u, t, x, s)
        BY <4>7, <4>8, <4>11, <4>12, <4>13 DEF IsCloseAt, N
      <4>15. QED
        BY <4>2, <4>14
    <3>7. QED
      BY <3>5, <3>6
  <2>14. CASE \E y \in N(b) : x = Up(2, y)
    <3>1. PICK y \in N(b) : x = Up(2, y)
      BY <2>14
    <3>2. y.label = Pane(s) /\ x.path = <<2>> \o y.path /\ y.path \in Paths
      <4> HIDE DEF N, a, b
      <4> QED BY <3>1, <2>4, <2>6
    <3>3. s \in Leaves(b) /\ (y.path = <<>> => b = Pane(s)) /\ (y.path # <<>> => b # Pane(s))
      BY <3>2, <2>1, <2>10
    <3>4. Distinct(t) => Distinct(b) /\ s \notin Leaves(a)
      BY <2>1, <3>3 DEF Distinct
    <3>5. CASE y.path = <<>>
      <4>1. b = Pane(s)
        BY <3>3, <3>5
      <4>2. a \in Level[k] /\ N(a) = CloseAt(N(t), x.path)
        BY <2>1, <2>2, <2>9, <3>2, <3>5
      <4>3. Distinct(t) => ClosePaneInLayout(t, s) = a
        <5>1. SUFFICES ASSUME Distinct(t) PROVE ClosePaneInLayout(t, s) = a
          OBVIOUS
        <5>2. a # Pane(s)
          BY <5>1, <3>4, <2>12
        <5>3. QED
          BY <4>1, <5>2, <2>0, CloseEquation
      <4> HIDE DEF N, a, b
      <4>4. /\ Size(a) + 1 = Size(t) /\ Leaves(a) \cup {s} = Leaves(t)
        BY <4>1, <2>1, <2>7, <2>12
      <4>5. /\ s \in Leaves(a) <=> Twice(t, s)
            /\ \A m : m # s => (Twice(a, m) <=> Twice(t, m))
        BY <4>1, <2>1, <2>7, <2>11, <2>12
      <4>6. IsCloseAt(a, t, x, s)
        BY <4>2, <4>3, <4>4, <4>5 DEF IsCloseAt, N
      <4>7. QED
        BY <4>2, <4>6
    <3>6. CASE y.path # <<>>
      <4>1. PICK v \in Level[k - 1] : IsCloseAt(v, b, y, s)
        BY <1>2, <2>1, <2>2, <3>2, <3>6
      <4> DEFINE u == Split(e, r, a, v)
      <4>2. /\ u \in Level[k]
            /\ Leaves(u) = Leaves(a) \cup Leaves(v)
            /\ Size(u) = Size(a) + Size(v)
            /\ \A m : Twice(u, m) <=> Twice(a, m) \/ Twice(v, m) \/ (m \in Leaves(a) /\ m \in Leaves(v))
        <5>1. (k - 1) + 1 = k /\ k - 1 \in Nat /\ (k - 1) + 1 <= MaxSessions
          BY <2>1
        <5> DEFINE h == k - 1
        <5>2. h \in Nat /\ h + 1 <= MaxSessions /\ v \in Level[h] /\ a \in Level[h] /\ Level[h + 1] = Level[k]
          BY <5>1, <2>1, <4>1
        <5> HIDE DEF h
        <5>3. QED
          BY <5>2, <2>3, Joined
      <4>3. N(u) = {Node(<<>>, l)} \cup {Up(1, z) : z \in N(a)} \cup {Up(2, z) : z \in N(v)}
        <5>1. (k - 1) + 1 = k /\ k - 1 \in Nat /\ (k - 1) + 1 <= MaxSessions
          BY <2>1
        <5> DEFINE h == k - 1
        <5>2. h \in Nat /\ h + 1 <= MaxSessions /\ v \in Level[h] /\ a \in Level[h]
          BY <5>1, <2>1, <4>1
        <5> HIDE DEF h
        <5>3. QED
          BY <5>2, <2>3, ReconJoined
      <4>4. N(u) = {Node(<<>>, l)} \cup Moved(1, N(a)) \cup Moved(2, N(v))
        BY <4>3, MovedUp
      <4>5. N(v) = CloseAt(N(b), y.path)
        BY <4>1 DEF IsCloseAt
      <4>6. CloseAt(N(t), x.path) = {Node(<<>>, l)} \cup Moved(1, N(a)) \cup Moved(2, CloseAt(N(b), y.path))
        BY <2>9, <3>2, <3>6
      <4>7. N(u) = CloseAt(N(t), x.path)
        <5> HIDE DEF N, a, b, l, u
        <5> QED BY <4>4, <4>5, <4>6
      <4>8. Distinct(t) => ClosePaneInLayout(t, s) = u
        <5>1. SUFFICES ASSUME Distinct(t) PROVE ClosePaneInLayout(t, s) = u
          OBVIOUS
        <5>2. a # Pane(s) /\ b # Pane(s)
          BY <5>1, <3>3, <3>4, <3>6, <2>12
        <5>3. v = ClosePaneInLayout(b, s)
          BY <4>1, <5>1, <3>4 DEF IsCloseAt
        <5>4. HasSession(a, s) <=> FALSE
          BY <5>1, <2>8, <3>3, <3>4
        <5>5. QED
          BY <5>2, <5>3, <5>4, <2>0, CloseEquation
      <4>9. /\ Size(v) + 1 = Size(b) /\ Leaves(v) \cup {s} = Leaves(b)
            /\ s \in Leaves(v) <=> Twice(b, s)
            /\ \A m : m # s => (Twice(v, m) <=> Twice(b, m))
        BY <4>1 DEF IsCloseAt
      <4> HIDE DEF N, a, b, u
      <4>10. Size(v) \in Nat
        <5>1. v \in Layouts
          BY <4>1, <2>1, <2>2, LevelIsLayout
        <5>2. QED
          BY <5>1, LeavesType
      <4>11. Size(u) + 1 = Size(t)
        BY <4>2, <4>9, <4>10, <2>1, <2>7
      <4>12. /\ Leaves(u) \cup {s} = Leaves(t)
             /\ s \in Leaves(u) <=> Twice(t, s)
        BY <4>2, <4>9, <2>1, <2>7, <3>3
      <4>13. \A m : m # s => (Twice(u, m) <=> Twice(t, m))
        <5>1. \A m : m # s => (m \in Leaves(v) <=> m \in Leaves(b))
          BY <4>9
        <5>2. QED
          BY <5>1, <4>2, <4>9, <2>1
      <4>14. IsCloseAt(u, t, x, s)
        BY <4>7, <4>8, <4>11, <4>12, <4>13 DEF IsCloseAt, N
      <4>15. QED
        BY <4>2, <4>14
    <3>7. QED
      BY <3>5, <3>6
  <2>15. QED
    BY <2>4, <2>13, <2>14
<1> HIDE DEF S
<1>3. Layouts \subseteq S
  BY <1>1, <1>2, TreeInduction
<1>4. QED
  BY <1>3 DEF S

-----------------------------------------------------------------------------
(* Dragging a handle *)

\* u is what the page makes of t when the pane of s is closed.
MakesClose(u, t, s) ==
  /\ Size(u) + 1 = Size(t)
  /\ Leaves(u) \cup {s} = Leaves(t)
  /\ s \in Leaves(u) <=> Twice(t, s)
  /\ \A m : m # s => (Twice(u, m) <=> Twice(t, m))
  /\ Distinct(t) => u = ClosePaneInLayout(t, s)

\* applyClosePane does to the page's tree what closePaneInLayout does to the server's.
LEMMA ApplyCloseMakes ==
  ASSUME NEW t \in Layouts, NEW s \in Leaves(t), t # Pane(s), NEW layout
  PROVE \E u \in Layouts : ApplyClosePane(ReconstructLayout(t), s, layout) = ReconstructLayout(u) /\ MakesClose(u, t, s)
<1> DEFINE N == ReconstructLayout(t)
           x == FindPaneBySessionID(N, s)
<1>1. x \in N /\ x.label = Pane(s)
  BY FindPane
<1>2. s \in Sessions /\ MaxSessions \in Nat /\ MaxSessions <= MaxSessions /\ t \in Level[MaxSessions]
  BY LeavesType, MaxSessionsNat DEF Layouts
<1>3. x.path # <<>>
  <2>1. IsPane(x)
    BY <1>1 DEF IsPane, Pane
  <2>2. QED
    BY <1>1, <2>1, ReconPaths
<1>4. PICK u \in Level[MaxSessions] : IsCloseAt(u, t, x, s)
  <2> HIDE DEF x
  <2>1. \A y \in ReconstructLayout(t) :
          y.label = Pane(s) /\ y.path # <<>> => \E u \in Level[MaxSessions] : IsCloseAt(u, t, y, s)
    BY <1>2, PageCloses
  <2>2. QED
    BY <2>1, <1>1, <1>3
<1>5. u \in Layouts
  BY DEF Layouts
<1>6. PanesOf(N, s) # {}
  BY ReconPanes
<1>7. ApplyClosePane(N, s, layout) = CloseAt(N, x.path)
  <2>1. \A p : CloseAt(N, p) =
          {y \in N : ~IsPrefix(Front(p), y.path)}
            \cup {Lifted(Front(p), Front(p) \o <<3 - Last(p)>>, y) : y \in {z \in N : IsPrefix(Front(p) \o <<3 - Last(p)>>, z.path)}}
    BY DEF CloseAt
  <2> HIDE DEF N
  <2> QED BY <1>3, <1>6, <2>1 DEF ApplyClosePane, Lifted, Rear
<1>8. ApplyClosePane(N, s, layout) = ReconstructLayout(u) /\ MakesClose(u, t, s)
  BY <1>4, <1>7 DEF IsCloseAt, MakesClose
<1>9. QED
  BY <1>5, <1>8

\* A pane that is not shown is not closed; the last one gives way to the layout.
LEMMA ApplyCloseElse ==
  ASSUME NEW t \in Layouts, NEW s, NEW layout
  PROVE /\ s \notin Leaves(t) => ApplyClosePane(ReconstructLayout(t), s, layout) = ReconstructLayout(t)
        /\ t = Pane(s) => ApplyClosePane(ReconstructLayout(t), s, layout) = ReconstructLayout(layout)
<1>1. s \notin Leaves(t) => ApplyClosePane(ReconstructLayout(t), s, layout) = ReconstructLayout(t)
  BY ReconPanes DEF ApplyClosePane
<1>2. ASSUME t = Pane(s) PROVE ApplyClosePane(ReconstructLayout(t), s, layout) = ReconstructLayout(layout)
  <2>1. IsPaneTree(t)
    <3>1. t.type = "pane"
      BY <1>2 DEF Pane
    <3>2. ~IsSplitTree(t)
      BY <3>1 DEF IsSplitTree
    <3>3. QED
      BY <3>2, TreeCases
  <2>2. s \in Leaves(t)
    <3>1. s \in Sessions
      BY <2>1, <1>2 DEF IsPaneTree, Pane
    <3>2. QED
      BY <3>1, <1>2, PaneLeaves
  <2> DEFINE x == FindPaneBySessionID(ReconstructLayout(t), s)
  <2>3. x \in ReconstructLayout(t)
    BY <2>2, FindPane
  <2>4. x.path = <<>>
    BY <2>1, <2>3, ReconPane
  <2>5. PanesOf(ReconstructLayout(t), s) # {}
    BY <2>2, ReconPanes
  <2>6. QED
    BY <2>4, <2>5 DEF ApplyClosePane
<1>3. QED
  BY <1>1, <1>2

-----------------------------------------------------------------------------
\* A node with another ratio, if it is the one at p.
Rated(x, p, r) == IF x.path = p THEN [x EXCEPT !.label.ratio = r] ELSE x

\* Its label changes.
LEMMA RatedNode ==
  ASSUME NEW p, NEW l, NEW q, NEW r
  PROVE /\ Rated(Node(p, l), q, r) = Node(p, IF p = q THEN [l EXCEPT !.ratio = r] ELSE l)
        /\ \A d, e : Rated(Node(p, SplitLabel(d, e)), p, r) = Node(p, SplitLabel(d, r))
BY DEF Rated, Node, SplitLabel

\* The same, moved below a split.
LEMMA RatedUp ==
  ASSUME NEW i \in {1, 2}, NEW x \in Nodes, NEW y \in Nodes, NEW r
  PROVE /\ Rated(Up(i, y), Up(i, x).path, r) = Up(i, Rated(y, x.path, r))
        /\ Rated(Up(3 - i, y), Up(i, x).path, r) = Up(3 - i, y)
        /\ Rated(Up(i, y), <<>>, r) = Up(i, y)
        /\ \A l : Rated(Node(<<>>, l), Up(i, x).path, r) = Node(<<>>, l)
<1>1. 3 - i \in {1, 2} /\ 3 - i # i
  OBVIOUS
<1>2. /\ Up(i, y).path = Up(i, x).path <=> y.path = x.path
      /\ Up(3 - i, y).path # Up(i, x).path
      /\ Up(i, y).path # <<>> /\ Up(i, x).path # <<>>
  <2>1. \A j \in {1, 2} : Up(j, y).path = Up(i, x).path => j = i /\ y.path = x.path
    BY UpInjective
  <2>2. Up(i, y).path # <<>> /\ Up(i, x).path # <<>>
    BY UpInjective
  <2>3. y.path = x.path => Up(i, y).path = Up(i, x).path
    <3>1. Up(i, y).path = <<i>> \o y.path /\ Up(i, x).path = <<i>> \o x.path
      BY UpFields
    <3>2. QED
      BY <3>1
  <2>4. QED
    BY <1>1, <2>1, <2>2, <2>3
<1>3. y = Node(y.path, y.label)
  BY NodesType
<1>4. CASE y.path = x.path
  <2>1. Rated(Up(i, y), Up(i, x).path, r) = Node(<<i>> \o y.path, [y.label EXCEPT !.ratio = r])
    <3>1. Up(i, y) = Node(<<i>> \o y.path, y.label) /\ Up(i, x).path = <<i>> \o y.path
      BY <1>4, UpFields DEF Up
    <3>2. QED
      BY <3>1, RatedNode
  <2>2. Rated(y, x.path, r) = Node(y.path, [y.label EXCEPT !.ratio = r])
    BY <1>3, <1>4, RatedNode
  <2>3. Up(i, Node(y.path, [y.label EXCEPT !.ratio = r])) = Node(<<i>> \o y.path, [y.label EXCEPT !.ratio = r])
    BY UpNode
  <2>4. Rated(Up(i, y), Up(i, x).path, r) = Up(i, Rated(y, x.path, r))
    BY <2>1, <2>2, <2>3
  <2>5. Rated(Up(3 - i, y), Up(i, x).path, r) = Up(3 - i, y) /\ Rated(Up(i, y), <<>>, r) = Up(i, y)
    BY <1>2 DEF Rated
  <2>6. \A l : Rated(Node(<<>>, l), Up(i, x).path, r) = Node(<<>>, l)
    BY <1>2 DEF Rated, Node
  <2>7. QED
    BY <2>4, <2>5, <2>6
<1>5. CASE y.path # x.path
  <2>1. Rated(Up(i, y), Up(i, x).path, r) = Up(i, Rated(y, x.path, r))
    BY <1>2, <1>5 DEF Rated
  <2>2. Rated(Up(3 - i, y), Up(i, x).path, r) = Up(3 - i, y) /\ Rated(Up(i, y), <<>>, r) = Up(i, y)
    BY <1>2 DEF Rated
  <2>3. \A l : Rated(Node(<<>>, l), Up(i, x).path, r) = Node(<<>>, l)
    BY <1>2 DEF Rated, Node
  <2>4. QED
    BY <2>1, <2>2, <2>3
<1>6. QED
  BY <1>4, <1>5

\* u is t with another ratio at x: the same panes, the same joints but for the
\* ratio.
IsRated(u, t, x, r) ==
  /\ ReconstructLayout(u) = SetRatio(ReconstructLayout(t), x.path, r)
  /\ SessionIDs(u) = SessionIDs(t)
  /\ Plain(Joints(u)) = Plain(Joints(t))

\* SetRatio, node by node.
LEMMA SetRatioRated ==
  ASSUME NEW N, NEW p, NEW r PROVE SetRatio(N, p, r) = {Rated(x, p, r) : x \in N}
BY DEF SetRatio, Rated

\* The ratio of a split's root, of a split in its first part, in its second
\* part.
RatesSides(l, A, B, r, x) ==
  LET N == {Node(<<>>, l)} \cup Moved(1, A) \cup Moved(2, B) IN
  /\ SetRatio(N, <<>>, r) = {Rated(Node(<<>>, l), <<>>, r)} \cup Moved(1, A) \cup Moved(2, B)
  /\ SetRatio(N, Up(1, x).path, r) = {Node(<<>>, l)} \cup Moved(1, SetRatio(A, x.path, r)) \cup Moved(2, B)
  /\ SetRatio(N, Up(2, x).path, r) = {Node(<<>>, l)} \cup Moved(1, A) \cup Moved(2, SetRatio(B, x.path, r))

\* The ratio of a split's root, of a split in its first part, in its second part.
LEMMA SetRatioSides ==
  ASSUME NEW l, NEW A \in SUBSET Nodes, NEW B \in SUBSET Nodes, NEW r, NEW x \in Nodes
  PROVE RatesSides(l, A, B, r, x)
<1> DEFINE N == {Node(<<>>, l)} \cup Moved(1, A) \cup Moved(2, B)
<1>1. 3 - 1 = 2 /\ 3 - 2 = 1 /\ 1 \in {1, 2} /\ 2 \in {1, 2}
  OBVIOUS
<1>2. \A i \in {1, 2}, y \in Nodes :
        /\ Rated(Up(i, y), Up(i, x).path, r) = Up(i, Rated(y, x.path, r))
        /\ Rated(Up(3 - i, y), Up(i, x).path, r) = Up(3 - i, y)
        /\ Rated(Up(i, y), <<>>, r) = Up(i, y)
        /\ \A k : Rated(Node(<<>>, k), Up(i, x).path, r) = Node(<<>>, k)
  <2>1. TAKE i \in {1, 2}, y \in Nodes
  <2>2. QED
    BY RatedUp
<1>3. \A y \in Nodes :
        /\ Rated(Up(1, y), Up(1, x).path, r) = Up(1, Rated(y, x.path, r))
        /\ Rated(Up(2, y), Up(2, x).path, r) = Up(2, Rated(y, x.path, r))
        /\ Rated(Up(2, y), Up(1, x).path, r) = Up(2, y)
        /\ Rated(Up(1, y), Up(2, x).path, r) = Up(1, y)
        /\ Rated(Up(1, y), <<>>, r) = Up(1, y)
        /\ Rated(Up(2, y), <<>>, r) = Up(2, y)
  BY <1>1, <1>2
<1>4. \A i \in {1, 2} : Rated(Node(<<>>, l), Up(i, x).path, r) = Node(<<>>, l)
  BY <1>2
<1>5. /\ Moved(1, A) = {Up(1, y) : y \in A} /\ Moved(2, B) = {Up(2, y) : y \in B}
      /\ Moved(1, SetRatio(A, x.path, r)) = {Up(1, y) : y \in {Rated(z, x.path, r) : z \in A}}
      /\ Moved(2, SetRatio(B, x.path, r)) = {Up(2, y) : y \in {Rated(z, x.path, r) : z \in B}}
  BY MovedUp, SetRatioRated
<1>6. \A p : SetRatio(N, p, r) = {Rated(Node(<<>>, l), p, r)} \cup {Rated(y, p, r) : y \in Moved(1, A)} \cup {Rated(y, p, r) : y \in Moved(2, B)}
  <2> SUFFICES ASSUME NEW p
               PROVE SetRatio(N, p, r) = {Rated(Node(<<>>, l), p, r)} \cup {Rated(y, p, r) : y \in Moved(1, A)} \cup {Rated(y, p, r) : y \in Moved(2, B)}
    OBVIOUS
  <2>1. SetRatio(N, p, r) = {Rated(y, p, r) : y \in N}
    BY SetRatioRated
  <2>2. QED
    BY <2>1
<1>7. /\ {Rated(y, <<>>, r) : y \in Moved(1, A)} = Moved(1, A)
      /\ {Rated(y, <<>>, r) : y \in Moved(2, B)} = Moved(2, B)
      /\ {Rated(y, Up(2, x).path, r) : y \in Moved(1, A)} = Moved(1, A)
      /\ {Rated(y, Up(1, x).path, r) : y \in Moved(2, B)} = Moved(2, B)
  BY <1>3, <1>5
<1>8. {Rated(y, Up(1, x).path, r) : y \in Moved(1, A)} = Moved(1, SetRatio(A, x.path, r))
  BY <1>3, <1>5
<1>9. {Rated(y, Up(2, x).path, r) : y \in Moved(2, B)} = Moved(2, SetRatio(B, x.path, r))
  BY <1>3, <1>5
<1> HIDE DEF N
<1>10. /\ SetRatio(N, <<>>, r) = {Rated(Node(<<>>, l), <<>>, r)} \cup Moved(1, A) \cup Moved(2, B)
       /\ SetRatio(N, Up(1, x).path, r) = {Node(<<>>, l)} \cup Moved(1, SetRatio(A, x.path, r)) \cup Moved(2, B)
       /\ SetRatio(N, Up(2, x).path, r) = {Node(<<>>, l)} \cup Moved(1, A) \cup Moved(2, SetRatio(B, x.path, r))
  BY <1>4, <1>6, <1>7, <1>8, <1>9
<1>11. QED
  BY <1>10 DEF N, RatesSides

\* The ratio of the root.
LEMMA RatedRoot ==
  ASSUME NEW d, NEW e, NEW r PROVE Rated(Node(<<>>, SplitLabel(d, e)), <<>>, r) = Node(<<>>, SplitLabel(d, r))
BY DEF Rated, Node, SplitLabel

\* The joints without ratios, taken together.
LEMMA PlainUnion ==
  /\ \A I, J : Plain(I \cup J) = Plain(I) \cup Plain(J)
  /\ \A d, r, A, B : Plain({Joint(d, r, A, B)}) = {Joint(d, Half, A, B)}
<1>1. ASSUME NEW I, NEW J PROVE Plain(I \cup J) = Plain(I) \cup Plain(J)
  BY DEF Plain
<1>2. ASSUME NEW d, NEW r, NEW A, NEW B PROVE Plain({Joint(d, r, A, B)}) = {Joint(d, Half, A, B)}
  <2>1. JointPlain(Joint(d, r, A, B)) = Joint(d, Half, A, B)
    BY DEF JointPlain, Joint
  <2>2. QED
    BY <2>1 DEF Plain
<1>3. QED
  BY <1>1, <1>2

\* A tree joined of parts with the same sessions and the same joints but for ratios.
LEMMA JoinedAlike ==
  ASSUME NEW k \in Nat, k + 1 <= MaxSessions, NEW a \in Level[k], NEW b \in Level[k],
         NEW v \in Level[k], NEW w \in Level[k],
         SessionIDs(v) = SessionIDs(a), SessionIDs(w) = SessionIDs(b),
         Plain(Joints(v)) = Plain(Joints(a)), Plain(Joints(w)) = Plain(Joints(b)),
         NEW d \in Directions, NEW r \in Ratios \cup {Half}, NEW e \in Ratios \cup {Half}
  PROVE /\ SessionIDs(Split(d, r, v, w)) = SessionIDs(Split(d, e, a, b))
        /\ Plain(Joints(Split(d, r, v, w))) = Plain(Joints(Split(d, e, a, b)))
<1> DEFINE t == Split(d, e, a, b)
           u == Split(d, r, v, w)
<1>1. /\ t \in Layouts /\ u \in Layouts
      /\ Joints(t) = {Joint(d, e, Leaves(a), Leaves(b))} \cup Joints(a) \cup Joints(b)
      /\ Joints(u) = {Joint(d, r, Leaves(v), Leaves(w))} \cup Joints(v) \cup Joints(w)
  BY Joined
<1>2. /\ t.type = "split" /\ t.first = a /\ t.second = b
      /\ u.type = "split" /\ u.first = v /\ u.second = w
  BY DEF Split
<1> HIDE DEF t, u
<1>3. SessionIDs(t) = SessionIDs(a) \o SessionIDs(b) /\ SessionIDs(u) = SessionIDs(v) \o SessionIDs(w)
  BY <1>1, <1>2, SessionIDsEquation
<1>4. Leaves(v) = Leaves(a) /\ Leaves(w) = Leaves(b)
  BY DEF Leaves
<1>5. /\ Plain(Joints(t)) = {Joint(d, Half, Leaves(a), Leaves(b))} \cup Plain(Joints(a)) \cup Plain(Joints(b))
      /\ Plain(Joints(u)) = {Joint(d, Half, Leaves(v), Leaves(w))} \cup Plain(Joints(v)) \cup Plain(Joints(w))
  <2>1. \A I, J, K, L : L = I \cup J \cup K => Plain(L) = Plain(I) \cup Plain(J) \cup Plain(K)
    BY DEF Plain
  <2>2. /\ Plain({Joint(d, e, Leaves(a), Leaves(b))}) = {Joint(d, Half, Leaves(a), Leaves(b))}
        /\ Plain({Joint(d, r, Leaves(v), Leaves(w))}) = {Joint(d, Half, Leaves(v), Leaves(w))}
    BY PlainUnion
  <2>3. /\ Plain(Joints(t)) = Plain({Joint(d, e, Leaves(a), Leaves(b))}) \cup Plain(Joints(a)) \cup Plain(Joints(b))
        /\ Plain(Joints(u)) = Plain({Joint(d, r, Leaves(v), Leaves(w))}) \cup Plain(Joints(v)) \cup Plain(Joints(w))
    BY <1>1, <2>1, SMTT(30)
  <2>4. QED
    BY <2>2, <2>3
<1>6. SessionIDs(u) = SessionIDs(t) /\ Plain(Joints(u)) = Plain(Joints(t))
  BY <1>3, <1>4, <1>5
<1>7. QED
  BY <1>6 DEF t, u

\* A handle dragged on the page changes one ratio of the tree.
LEMMA PageDrags ==
  ASSUME NEW r \in Ratios \cup {Half}
  PROVE \A t \in Layouts : \A k \in Nat : \A x \in ReconstructLayout(t) :
          k <= MaxSessions /\ t \in Level[k] /\ ~IsPane(x) => \E u \in Level[k] : IsRated(u, t, x, r)
<1> DEFINE N(t) == ReconstructLayout(t)
           S == {t \in Layouts : \A k \in Nat : \A x \in N(t) :
                   k <= MaxSessions /\ t \in Level[k] /\ ~IsPane(x) => \E u \in Level[k] : IsRated(u, t, x, r)}
<1>1. ASSUME NEW t \in Layouts, IsPaneTree(t) PROVE t \in S
  <2>1. \A x \in N(t) : IsPane(x)
    BY <1>1, ReconPane
  <2>2. QED
    BY <2>1
<1>2. ASSUME NEW t \in Layouts, IsSplitTree(t), t.first \in Layouts, t.second \in Layouts, t.first \in S, t.second \in S
      PROVE t \in S
  <2> SUFFICES ASSUME NEW k \in Nat, NEW x \in N(t), k <= MaxSessions, t \in Level[k], ~IsPane(x)
               PROVE \E u \in Level[k] : IsRated(u, t, x, r)
    OBVIOUS
  <2> DEFINE a == t.first
             b == t.second
             d == t.direction
             e == t.ratio
             l == SplitLabel(d, e)
             h == k - 1
  <2>0. ~IsPaneTree(t) /\ t.type = "split" /\ t = Split(d, e, a, b)
    BY <1>2 DEF IsPaneTree, IsSplitTree
  <2>1. /\ h \in Nat /\ h + 1 = k /\ a \in Level[h] /\ b \in Level[h] /\ h + 1 <= MaxSessions /\ h <= MaxSessions
    BY <2>0, Parted, MaxSessionsNat
  <2>3. d \in Directions /\ e \in Ratios \cup {Half}
    BY <1>2 DEF IsSplitTree
  <2>4. /\ N(t) = {Node(<<>>, l)} \cup {Up(1, z) : z \in N(a)} \cup {Up(2, z) : z \in N(b)}
        /\ N(a) \in SUBSET Nodes /\ N(b) \in SUBSET Nodes
    BY <1>2, ReconSplit DEF Root
  <2>5. N(t) = {Node(<<>>, l)} \cup Moved(1, N(a)) \cup Moved(2, N(b))
    BY <2>4, MovedUp
  <2>6. \A i, y : IsPane(Up(i, y)) <=> IsPane(y)
    BY UpFields
  <2> DEFINE u0 == Split(d, r, a, b)
             u1(v) == Split(d, e, v, b)
             u2(v) == Split(d, e, a, v)
  <2>7. N(u0) = {Node(<<>>, SplitLabel(d, r))} \cup Moved(1, N(a)) \cup Moved(2, N(b)) /\ u0 \in Level[k]
    <3> HIDE DEF h
    <3>1. N(u0) = {Node(<<>>, SplitLabel(d, r))} \cup {Up(1, z) : z \in N(a)} \cup {Up(2, z) : z \in N(b)}
      BY <2>1, <2>3, ReconJoined
    <3>2. u0 \in Level[h + 1]
      BY <2>1, <2>3, SplitLevel
    <3>3. QED
      BY <3>1, <3>2, <2>1, MovedUp
  <2>8. \A v \in Level[h] : /\ N(u1(v)) = {Node(<<>>, l)} \cup Moved(1, N(v)) \cup Moved(2, N(b)) /\ u1(v) \in Level[k]
                            /\ N(u2(v)) = {Node(<<>>, l)} \cup Moved(1, N(a)) \cup Moved(2, N(v)) /\ u2(v) \in Level[k]
    <3> SUFFICES ASSUME NEW v \in Level[h]
                 PROVE /\ N(u1(v)) = {Node(<<>>, l)} \cup Moved(1, N(v)) \cup Moved(2, N(b)) /\ u1(v) \in Level[k]
                       /\ N(u2(v)) = {Node(<<>>, l)} \cup Moved(1, N(a)) \cup Moved(2, N(v)) /\ u2(v) \in Level[k]
      OBVIOUS
    <3> HIDE DEF h
    <3>1. /\ N(u1(v)) = {Node(<<>>, l)} \cup {Up(1, z) : z \in N(v)} \cup {Up(2, z) : z \in N(b)}
          /\ N(u2(v)) = {Node(<<>>, l)} \cup {Up(1, z) : z \in N(a)} \cup {Up(2, z) : z \in N(v)}
      BY <2>1, <2>3, ReconJoined
    <3>2. u1(v) \in Level[h + 1] /\ u2(v) \in Level[h + 1]
      BY <2>1, <2>3, SplitLevel
    <3>3. {Up(1, z) : z \in N(v)} = Moved(1, N(v)) /\ {Up(2, z) : z \in N(v)} = Moved(2, N(v))
          /\ {Up(1, z) : z \in N(a)} = Moved(1, N(a)) /\ {Up(2, z) : z \in N(b)} = Moved(2, N(b))
      BY MovedUp
    <3>4. QED
      BY <3>1, <3>2, <3>3, <2>1
  <2>9. CASE x = Node(<<>>, l)
    <3>1. x.path = <<>>
      BY <2>9 DEF Node
    <3>2. SetRatio(N(t), <<>>, r) = {Rated(Node(<<>>, l), <<>>, r)} \cup Moved(1, N(a)) \cup Moved(2, N(b))
      <4>1. Node(<<>>, l) \in Nodes
        <5>1. <<>> \in Paths /\ l \in Labels
          BY <2>3 DEF Labels, Paths
        <5>2. QED
          BY <5>1 DEF Nodes
      <4> HIDE DEF N, a, b, l
      <4>2. RatesSides(l, N(a), N(b), r, Node(<<>>, l))
        BY <4>1, <2>4, SetRatioSides
      <4>3. QED
        BY <4>2, <2>5 DEF RatesSides
    <3>3. Rated(Node(<<>>, l), <<>>, r) = Node(<<>>, SplitLabel(d, r))
      <4> HIDE DEF e, d
      <4> QED BY RatedRoot DEF l
    <3>4. N(u0) = SetRatio(N(t), x.path, r)
      BY <3>1, <3>2, <3>3, <2>7
    <3>5. SessionIDs(u0) = SessionIDs(t) /\ Plain(Joints(u0)) = Plain(Joints(t))
      <4>1. SessionIDs(u0) = SessionIDs(Split(d, e, a, b)) /\ Plain(Joints(u0)) = Plain(Joints(Split(d, e, a, b)))
        <5> HIDE DEF h, a, b, d, e
        <5> QED BY <2>1, <2>3, JoinedAlike
      <4>2. QED
        BY <4>1, <2>0
    <3>6. IsRated(u0, t, x, r)
      BY <3>4, <3>5 DEF IsRated, N
    <3>7. QED
      BY <3>6, <2>7
  <2>10. CASE \E y \in N(a) : x = Up(1, y)
    <3>1. PICK y \in N(a) : x = Up(1, y)
      BY <2>10
    <3>2. ~IsPane(y)
      BY <3>1, <2>6
    <3>3. PICK v \in Level[h] : IsRated(v, a, y, r)
      BY <1>2, <2>1, <3>2
    <3>4. /\ N(v) = SetRatio(N(a), y.path, r)
          /\ SessionIDs(v) = SessionIDs(a) /\ Plain(Joints(v)) = Plain(Joints(a))
      BY <3>3 DEF IsRated
    <3>5. SetRatio(N(t), x.path, r) = {Node(<<>>, l)} \cup Moved(1, SetRatio(N(a), y.path, r)) \cup Moved(2, N(b))
      <4>1. y \in Nodes
        BY <2>4
      <4> HIDE DEF N, a, b, l
      <4>2. SetRatio({Node(<<>>, l)} \cup Moved(1, N(a)) \cup Moved(2, N(b)), Up(1, y).path, r) = {Node(<<>>, l)} \cup Moved(1, SetRatio(N(a), y.path, r)) \cup Moved(2, N(b))
        <5>1. RatesSides(l, N(a), N(b), r, y)
          BY <4>1, <2>4, SetRatioSides
        <5>2. QED
          BY <5>1 DEF RatesSides
      <4>3. QED
        BY <4>2, <3>1, <2>5
    <3>6. N(u1(v)) = SetRatio(N(t), x.path, r) /\ u1(v) \in Level[k]
      <4> HIDE DEF N, a, b, l, h, u1
      <4> QED BY <3>4, <3>5, <2>8
    <3>7. SessionIDs(u1(v)) = SessionIDs(t) /\ Plain(Joints(u1(v))) = Plain(Joints(t))
      <4>1. SessionIDs(u1(v)) = SessionIDs(Split(d, e, a, b)) /\ Plain(Joints(u1(v))) = Plain(Joints(Split(d, e, a, b)))
        <5> HIDE DEF h, a, b, d, e
        <5> QED BY <3>4, <2>1, <2>3, JoinedAlike
      <4>2. QED
        BY <4>1, <2>0
    <3>8. IsRated(u1(v), t, x, r)
      BY <3>6, <3>7 DEF IsRated, N
    <3>9. QED
      BY <3>6, <3>8
  <2>11. CASE \E y \in N(b) : x = Up(2, y)
    <3>1. PICK y \in N(b) : x = Up(2, y)
      BY <2>11
    <3>2. ~IsPane(y)
      BY <3>1, <2>6
    <3>3. PICK v \in Level[h] : IsRated(v, b, y, r)
      BY <1>2, <2>1, <3>2
    <3>4. /\ N(v) = SetRatio(N(b), y.path, r)
          /\ SessionIDs(v) = SessionIDs(b) /\ Plain(Joints(v)) = Plain(Joints(b))
      BY <3>3 DEF IsRated
    <3>5. SetRatio(N(t), x.path, r) = {Node(<<>>, l)} \cup Moved(1, N(a)) \cup Moved(2, SetRatio(N(b), y.path, r))
      <4>1. y \in Nodes
        BY <2>4
      <4> HIDE DEF N, a, b, l
      <4>2. SetRatio({Node(<<>>, l)} \cup Moved(1, N(a)) \cup Moved(2, N(b)), Up(2, y).path, r) = {Node(<<>>, l)} \cup Moved(1, N(a)) \cup Moved(2, SetRatio(N(b), y.path, r))
        <5>1. RatesSides(l, N(a), N(b), r, y)
          BY <4>1, <2>4, SetRatioSides
        <5>2. QED
          BY <5>1 DEF RatesSides
      <4>3. QED
        BY <4>2, <3>1, <2>5
    <3>6. N(u2(v)) = SetRatio(N(t), x.path, r) /\ u2(v) \in Level[k]
      <4> HIDE DEF N, a, b, l, h, u2
      <4> QED BY <3>4, <3>5, <2>8
    <3>7. SessionIDs(u2(v)) = SessionIDs(t) /\ Plain(Joints(u2(v))) = Plain(Joints(t))
      <4>1. SessionIDs(u2(v)) = SessionIDs(Split(d, e, a, b)) /\ Plain(Joints(u2(v))) = Plain(Joints(Split(d, e, a, b)))
        <5> HIDE DEF h, a, b, d, e
        <5> QED BY <3>4, <2>1, <2>3, JoinedAlike
      <4>2. QED
        BY <4>1, <2>0
    <3>8. IsRated(u2(v), t, x, r)
      BY <3>6, <3>7 DEF IsRated, N
    <3>9. QED
      BY <3>6, <3>8
  <2>12. QED
    BY <2>4, <2>9, <2>10, <2>11
<1> HIDE DEF S
<1>3. Layouts \subseteq S
  BY <1>1, <1>2, TreeInduction
<1>4. QED
  BY <1>3 DEF S

-----------------------------------------------------------------------------
(* Serializing the page *)

\* A node of a tree that stands at p.
At(p, x) == Node(p \o x.path, x.label)

\* The nodes of a tree that stands at p.
Placed(p, u) == {At(p, x) : x \in ReconstructLayout(u)}

\* One step down from a position.
LEMMA PathSteps ==
  ASSUME NEW p \in Paths
  PROVE /\ p \o <<>> = p /\ <<>> \o p = p /\ p \o <<1>> \in Paths /\ p \o <<2>> \in Paths
        /\ \A q \in Paths : p \o (<<1>> \o q) = (p \o <<1>>) \o q /\ p \o (<<2>> \o q) = (p \o <<2>>) \o q
<1>1. <<1>> \in Paths /\ <<2>> \in Paths
  BY DEF Paths
<1>2. p \o <<>> = p /\ <<>> \o p = p
  BY ConcatEmptySeq DEF Paths
<1>3. p \o <<1>> \in Paths /\ p \o <<2>> \in Paths
  BY <1>1, ConcatProperties DEF Paths
<1>4. \A q \in Paths : p \o (<<1>> \o q) = (p \o <<1>>) \o q /\ p \o (<<2>> \o q) = (p \o <<2>>) \o q
  BY <1>1, ConcatAssociative DEF Paths
<1>5. QED
  BY <1>2, <1>3, <1>4

\* A split at p has its parts one step further down.
LEMMA PlacedParts ==
  ASSUME NEW u \in Layouts, NEW p \in Paths
  PROVE /\ IsPaneTree(u) => Placed(p, u) = {Node(p, u)}
        /\ IsSplitTree(u) /\ u.first \in Layouts /\ u.second \in Layouts =>
             Placed(p, u) = {Node(p, SplitLabel(u.direction, u.ratio))} \cup Placed(p \o <<1>>, u.first) \cup Placed(p \o <<2>>, u.second)
<1>1. ASSUME IsPaneTree(u) PROVE Placed(p, u) = {Node(p, u)}
  <2>1. ReconstructLayout(u) = {Node(<<>>, u)}
    BY <1>1, ReconPane
  <2>2. At(p, Node(<<>>, u)) = Node(p, u)
    <3>1. p \o <<>> = p
      BY PathSteps
    <3>2. Node(<<>>, u).path = <<>> /\ Node(<<>>, u).label = u
      BY DEF Node
    <3>3. QED
      BY <3>1, <3>2 DEF At
  <2>3. QED
    BY <2>1, <2>2 DEF Placed
<1>2. ASSUME IsSplitTree(u), u.first \in Layouts, u.second \in Layouts
      PROVE Placed(p, u) = {Node(p, SplitLabel(u.direction, u.ratio))} \cup Placed(p \o <<1>>, u.first) \cup Placed(p \o <<2>>, u.second)
  <2> DEFINE A == ReconstructLayout(u.first)
             B == ReconstructLayout(u.second)
             l == SplitLabel(u.direction, u.ratio)
  <2>1. /\ ReconstructLayout(u) = {Node(<<>>, l)} \cup {Up(1, x) : x \in A} \cup {Up(2, x) : x \in B}
        /\ A \in SUBSET Nodes /\ B \in SUBSET Nodes
    BY <1>2, ReconSplit DEF Root
  <2>2. At(p, Node(<<>>, l)) = Node(p, l)
    <3>1. p \o <<>> = p
      BY PathSteps
    <3>2. Node(<<>>, l).path = <<>> /\ Node(<<>>, l).label = l
      BY DEF Node
    <3>3. QED
      BY <3>1, <3>2 DEF At
  <2>3. ASSUME NEW x \in Nodes PROVE At(p, Up(1, x)) = At(p \o <<1>>, x) /\ At(p, Up(2, x)) = At(p \o <<2>>, x)
    <3>1. x.path \in Paths
      BY NodesType
    <3>2. p \o (<<1>> \o x.path) = (p \o <<1>>) \o x.path /\ p \o (<<2>> \o x.path) = (p \o <<2>>) \o x.path
      BY <3>1, PathSteps
    <3>3. Up(1, x).path = <<1>> \o x.path /\ Up(1, x).label = x.label /\ Up(2, x).path = <<2>> \o x.path /\ Up(2, x).label = x.label
      BY UpFields
    <3>4. QED
      BY <3>2, <3>3 DEF At
  <2>4. Placed(p, u) = {At(p, Node(<<>>, l))} \cup {At(p, Up(1, x)) : x \in A} \cup {At(p, Up(2, x)) : x \in B}
    <3> HIDE DEF l, A, B
    <3> QED BY <2>1 DEF Placed
  <2>5. {At(p, Up(1, x)) : x \in A} = Placed(p \o <<1>>, u.first) /\ {At(p, Up(2, x)) : x \in B} = Placed(p \o <<2>>, u.second)
    BY <2>1, <2>3 DEF Placed
  <2>6. QED
    BY <2>2, <2>4, <2>5
<1>3. QED
  BY <1>1, <1>2

\* A layout stands at the root of its page.
LEMMA PlacedAtRoot ==
  ASSUME NEW t \in Layouts PROVE Placed(<<>>, t) = ReconstructLayout(t)
<1>1. \A x \in ReconstructLayout(t) : At(<<>>, x) = x
  <2> SUFFICES ASSUME NEW x \in ReconstructLayout(t) PROVE At(<<>>, x) = x
    OBVIOUS
  <2>1. x \in Nodes
    BY ReconNodes
  <2>2. x.path \in Paths /\ x = Node(x.path, x.label)
    BY <2>1, NodesType
  <2>3. <<>> \o x.path = x.path
    BY <2>2, PathSteps
  <2>4. QED
    BY <2>2, <2>3 DEF At
<1>2. QED
  BY <1>1 DEF Placed

\* The label at the place of a tree.
TopLabel(u) == IF u.type = "pane" THEN u ELSE SplitLabel(u.direction, u.ratio)

\* A tree has its root's node where it stands.
LEMMA PlacedTop ==
  ASSUME NEW u \in Layouts, NEW p \in Paths PROVE Node(p, TopLabel(u)) \in Placed(p, u)
<1>1. CASE IsPaneTree(u)
  BY <1>1, PlacedParts DEF TopLabel, IsPaneTree
<1>2. CASE IsSplitTree(u) /\ u.first \in Layouts /\ u.second \in Layouts
  BY <1>2, PlacedParts DEF TopLabel, IsSplitTree
<1>3. QED
  BY <1>1, <1>2, TreeCases

\* No two nodes have the same position.
OnePath(N) == \A x, y \in N : x.path = y.path => x = y

\* Only one tree stands at a place.
LEMMA PlacedOnce ==
  ASSUME NEW N, OnePath(N)
  PROVE \A u \in Layouts : \A v \in Layouts : \A p \in Paths : Placed(p, u) \subseteq N /\ Placed(p, v) \subseteq N => u = v
<1> DEFINE S == {u \in Layouts : \A v \in Layouts : \A p \in Paths : Placed(p, u) \subseteq N /\ Placed(p, v) \subseteq N => u = v}
<1>0. ASSUME NEW u \in Layouts, NEW v \in Layouts, NEW p \in Paths, Placed(p, u) \subseteq N, Placed(p, v) \subseteq N
      PROVE TopLabel(u) = TopLabel(v)
  <2>1. Node(p, TopLabel(u)) \in N /\ Node(p, TopLabel(v)) \in N
    BY <1>0, PlacedTop
  <2>2. Node(p, TopLabel(u)) = Node(p, TopLabel(v))
    BY <2>1 DEF OnePath, Node
  <2>3. QED
    BY <2>2 DEF Node
<1>1. ASSUME NEW u \in Layouts, IsPaneTree(u) PROVE u \in S
  <2> SUFFICES ASSUME NEW v \in Layouts, NEW p \in Paths, Placed(p, u) \subseteq N, Placed(p, v) \subseteq N PROVE u = v
    OBVIOUS
  <2>1. TopLabel(u) = TopLabel(v)
    BY <1>0
  <2>2. u.type = "pane" /\ TopLabel(u) = u
    BY <1>1 DEF IsPaneTree, TopLabel
  <2>3. v.type = "pane"
    BY <2>1, <2>2 DEF TopLabel, SplitLabel
  <2>4. QED
    BY <2>1, <2>2, <2>3 DEF TopLabel
<1>2. ASSUME NEW u \in Layouts, IsSplitTree(u), u.first \in Layouts, u.second \in Layouts, u.first \in S, u.second \in S
      PROVE u \in S
  <2> SUFFICES ASSUME NEW v \in Layouts, NEW p \in Paths, Placed(p, u) \subseteq N, Placed(p, v) \subseteq N PROVE u = v
    OBVIOUS
  <2>1. TopLabel(u) = TopLabel(v)
    BY <1>0
  <2>2. u.type = "split" /\ TopLabel(u) = SplitLabel(u.direction, u.ratio)
    BY <1>2 DEF IsSplitTree, TopLabel
  <2>3. v.type # "pane"
    BY <2>1, <2>2 DEF TopLabel, SplitLabel
  <2>4. IsSplitTree(v) /\ v.first \in Layouts /\ v.second \in Layouts
    BY <2>3, TreeCases DEF IsPaneTree
  <2>5. v.direction = u.direction /\ v.ratio = u.ratio
    BY <2>1, <2>2, <2>3 DEF TopLabel, SplitLabel
  <2>6. /\ Placed(p \o <<1>>, u.first) \subseteq N /\ Placed(p \o <<2>>, u.second) \subseteq N
        /\ Placed(p \o <<1>>, v.first) \subseteq N /\ Placed(p \o <<2>>, v.second) \subseteq N
    <3>1. Placed(p, u) = {Node(p, SplitLabel(u.direction, u.ratio))} \cup Placed(p \o <<1>>, u.first) \cup Placed(p \o <<2>>, u.second)
      BY <1>2, PlacedParts
    <3>2. Placed(p, v) = {Node(p, SplitLabel(v.direction, v.ratio))} \cup Placed(p \o <<1>>, v.first) \cup Placed(p \o <<2>>, v.second)
      BY <2>4, PlacedParts
    <3>3. QED
      BY <3>1, <3>2
  <2>7. p \o <<1>> \in Paths /\ p \o <<2>> \in Paths
    BY PathSteps
  <2>8. u.first = v.first /\ u.second = v.second
    BY <1>2, <2>4, <2>6, <2>7
  <2>9. QED
    BY <1>2, <2>4, <2>5, <2>8 DEF IsSplitTree
<1> HIDE DEF S
<1>3. Layouts \subseteq S
  BY <1>1, <1>2, TreeInduction
<1>4. QED
  BY <1>3 DEF S

\* At every node of a tree stands a tree.
LEMMA PlacedEverywhere ==
  \A t \in Layouts : \A p \in Paths : \A x \in Placed(p, t) :
    x.path \in Paths /\ \E u \in Layouts : Placed(x.path, u) \subseteq Placed(p, t)
<1> DEFINE S == {t \in Layouts : \A p \in Paths : \A x \in Placed(p, t) :
                   x.path \in Paths /\ \E u \in Layouts : Placed(x.path, u) \subseteq Placed(p, t)}
<1>1. ASSUME NEW t \in Layouts, IsPaneTree(t) PROVE t \in S
  <2> SUFFICES ASSUME NEW p \in Paths, NEW x \in Placed(p, t)
               PROVE x.path \in Paths /\ \E u \in Layouts : Placed(x.path, u) \subseteq Placed(p, t)
    OBVIOUS
  <2>1. x = Node(p, t)
    BY <1>1, PlacedParts
  <2>2. x.path = p
    BY <2>1 DEF Node
  <2>3. QED
    BY <2>2
<1>2. ASSUME NEW t \in Layouts, IsSplitTree(t), t.first \in Layouts, t.second \in Layouts, t.first \in S, t.second \in S
      PROVE t \in S
  <2> SUFFICES ASSUME NEW p \in Paths, NEW x \in Placed(p, t)
               PROVE x.path \in Paths /\ \E u \in Layouts : Placed(x.path, u) \subseteq Placed(p, t)
    OBVIOUS
  <2>1. Placed(p, t) = {Node(p, SplitLabel(t.direction, t.ratio))} \cup Placed(p \o <<1>>, t.first) \cup Placed(p \o <<2>>, t.second)
    BY <1>2, PlacedParts
  <2>2. p \o <<1>> \in Paths /\ p \o <<2>> \in Paths
    BY PathSteps
  <2>3. CASE x = Node(p, SplitLabel(t.direction, t.ratio))
    <3>1. x.path = p
      BY <2>3 DEF Node
    <3>2. QED
      BY <3>1
  <2>4. CASE x \in Placed(p \o <<1>>, t.first)
    <3>1. x.path \in Paths /\ \E u \in Layouts : Placed(x.path, u) \subseteq Placed(p \o <<1>>, t.first)
      BY <1>2, <2>2, <2>4
    <3>2. QED
      BY <3>1, <2>1
  <2>5. CASE x \in Placed(p \o <<2>>, t.second)
    <3>1. x.path \in Paths /\ \E u \in Layouts : Placed(x.path, u) \subseteq Placed(p \o <<2>>, t.second)
      BY <1>2, <2>2, <2>5
    <3>2. QED
      BY <3>1, <2>1
  <2>6. QED
    BY <2>1, <2>3, <2>4, <2>5
<1> HIDE DEF S
<1>3. Layouts \subseteq S
  BY <1>1, <1>2, TreeInduction
<1>4. QED
  BY <1>3 DEF S

\* The label at a position is that of the node there.
LEMMA LabelIs ==
  ASSUME NEW N, OnePath(N), NEW p, NEW l, Node(p, l) \in N PROVE LabelAt(N, p) = l
<1>1. Node(p, l).path = p /\ Node(p, l).label = l
  BY DEF Node
<1>2. (CHOOSE x \in N : x.path = p) = Node(p, l)
  BY <1>1 DEF OnePath
<1>3. QED
  BY <1>1, <1>2 DEF LabelAt

\* One step of serializeTree: the tree whose label is l, from its parts.
Built(l, a, b) == IF l.type = "pane" THEN l ELSE Split(l.direction, l.ratio, a, b)

\* g is what serializeTree makes of the nodes N, from each position down.
Serializes(g, N) == g = [p \in {x.path : x \in N} |-> Built(LabelAt(N, p), g[p \o <<1>>], g[p \o <<2>>])]

\* A tree is built from the label of its root and its parts.
LEMMA BuiltTop ==
  ASSUME NEW u \in Layouts
  PROVE /\ IsPaneTree(u) => \A a, b : Built(TopLabel(u), a, b) = u
        /\ IsSplitTree(u) => Built(TopLabel(u), u.first, u.second) = u
<1>1. ASSUME IsPaneTree(u) PROVE \A a, b : Built(TopLabel(u), a, b) = u
  BY <1>1 DEF IsPaneTree, Built, TopLabel
<1>2. ASSUME IsSplitTree(u) PROVE Built(TopLabel(u), u.first, u.second) = u
  <2>1. TopLabel(u) = SplitLabel(u.direction, u.ratio)
    BY <1>2 DEF IsSplitTree, TopLabel
  <2>2. Built(SplitLabel(u.direction, u.ratio), u.first, u.second) = Split(u.direction, u.ratio, u.first, u.second)
    BY DEF Built, SplitLabel
  <2>3. QED
    BY <1>2, <2>1, <2>2 DEF IsSplitTree
<1>3. QED
  BY <1>1, <1>2

\* The recursion of serializeTree has a solution.
LEMMA SerializesExists ==
  ASSUME NEW t \in Layouts
  PROVE \E g : Serializes(g, ReconstructLayout(t))
<1> DEFINE N == ReconstructLayout(t)
           P == {x.path : x \in N}
           g == [p \in P |-> CHOOSE u \in Layouts : Placed(p, u) \subseteq N]
<1>1. OnePath(N)
  BY ReconPaths DEF OnePath
<1>2. \A p \in P : p \in Paths /\ \E u \in Layouts : Placed(p, u) \subseteq N
  <2> SUFFICES ASSUME NEW x \in N PROVE x.path \in Paths /\ \E u \in Layouts : Placed(x.path, u) \subseteq N
    OBVIOUS
  <2>1. <<>> \in Paths /\ Placed(<<>>, t) = N
    BY PlacedAtRoot DEF Paths
  <2>2. QED
    BY <2>1, PlacedEverywhere
<1>3. \A p \in P : g[p] \in Layouts /\ Placed(p, g[p]) \subseteq N
  BY <1>2
<1>4. \A p \in P : \A u \in Layouts : Placed(p, u) \subseteq N => g[p] = u
  <2> SUFFICES ASSUME NEW p \in P, NEW u \in Layouts, Placed(p, u) \subseteq N PROVE g[p] = u
    OBVIOUS
  <2>1. p \in Paths /\ g[p] \in Layouts /\ Placed(p, g[p]) \subseteq N
    BY <1>2, <1>3
  <2> HIDE DEF g, N
  <2>2. QED
    BY <1>1, <2>1, PlacedOnce
<1>5. \A p \in P : g[p] = Built(LabelAt(N, p), g[p \o <<1>>], g[p \o <<2>>])
  <2> SUFFICES ASSUME NEW p \in P PROVE g[p] = Built(LabelAt(N, p), g[p \o <<1>>], g[p \o <<2>>])
    OBVIOUS
  <2>1. p \in Paths /\ g[p] \in Layouts /\ Placed(p, g[p]) \subseteq N
    BY <1>2, <1>3
  <2> DEFINE u == g[p]
  <2> HIDE DEF g, N
  <2>2. Node(p, TopLabel(u)) \in N
    BY <2>1, PlacedTop
  <2>3. LabelAt(N, p) = TopLabel(u)
    BY <1>1, <2>2, LabelIs
  <2>4. CASE IsPaneTree(u)
    BY <2>1, <2>3, <2>4, BuiltTop
  <2>5. CASE IsSplitTree(u) /\ u.first \in Layouts /\ u.second \in Layouts
    <3>1. Placed(p, u) = {Node(p, SplitLabel(u.direction, u.ratio))} \cup Placed(p \o <<1>>, u.first) \cup Placed(p \o <<2>>, u.second)
      BY <2>1, <2>5, PlacedParts
    <3>2. Placed(p \o <<1>>, u.first) \subseteq N /\ Placed(p \o <<2>>, u.second) \subseteq N
      BY <2>1, <3>1
    <3>3. p \o <<1>> \in Paths /\ p \o <<2>> \in Paths
      BY <2>1, PathSteps
    <3>4. Node(p \o <<1>>, TopLabel(u.first)) \in N /\ Node(p \o <<2>>, TopLabel(u.second)) \in N
      BY <2>5, <3>2, <3>3, PlacedTop
    <3>5. p \o <<1>> \in P /\ p \o <<2>> \in P
      <4>1. \A q, l : Node(q, l).path = q
        BY DEF Node
      <4>2. QED
        BY <3>4, <4>1
    <3>6. g[p \o <<1>>] = u.first /\ g[p \o <<2>>] = u.second
      <4> HIDE DEF P, u
      <4> QED BY <1>4, <2>5, <3>2, <3>5
    <3>7. QED
      BY <2>1, <2>3, <2>5, <3>6, BuiltTop
  <2>6. QED
    BY <2>1, <2>4, <2>5, TreeCases
<1>6. Serializes(g, N)
  <2>1. g = [p \in P |-> g[p]]
    OBVIOUS
  <2> HIDE DEF g
  <2>2. g = [p \in P |-> Built(LabelAt(N, p), g[p \o <<1>>], g[p \o <<2>>])]
    BY <1>5, <2>1
  <2>3. QED
    BY <2>2 DEF Serializes
<1>7. QED
  BY <1>6

\* From where a tree stands, it gives back that tree.
LEMMA SerializesTrees ==
  ASSUME NEW N, OnePath(N), NEW g, Serializes(g, N)
  PROVE \A u \in Layouts : \A p \in Paths : Placed(p, u) \subseteq N => g[p] = u
<1> DEFINE S == {u \in Layouts : \A p \in Paths : Placed(p, u) \subseteq N => g[p] = u}
<1>0. ASSUME NEW u \in Layouts, NEW p \in Paths, Placed(p, u) \subseteq N
      PROVE g[p] = Built(TopLabel(u), g[p \o <<1>>], g[p \o <<2>>])
  <2>1. Node(p, TopLabel(u)) \in N
    BY <1>0, PlacedTop
  <2>2. LabelAt(N, p) = TopLabel(u)
    BY <2>1, LabelIs
  <2>3. p \in {x.path : x \in N}
    <3>1. Node(p, TopLabel(u)).path = p
      BY DEF Node
    <3>2. QED
      BY <2>1, <3>1
  <2>4. \A q \in {x.path : x \in N} : g[q] = Built(LabelAt(N, q), g[q \o <<1>>], g[q \o <<2>>])
    <3> DEFINE P == {x.path : x \in N}
    <3>1. g = [q \in P |-> Built(LabelAt(N, q), g[q \o <<1>>], g[q \o <<2>>])]
      BY DEF Serializes
    <3> HIDE DEF P
    <3>2. \A q \in P : g[q] = Built(LabelAt(N, q), g[q \o <<1>>], g[q \o <<2>>])
      BY <3>1, Zenon
    <3>3. QED
      BY <3>2 DEF P
  <2>5. QED
    BY <2>2, <2>3, <2>4
<1>1. ASSUME NEW u \in Layouts, IsPaneTree(u) PROVE u \in S
  <2> SUFFICES ASSUME NEW p \in Paths, Placed(p, u) \subseteq N PROVE g[p] = u
    OBVIOUS
  <2>1. QED
    BY <1>0, <1>1, BuiltTop
<1>2. ASSUME NEW u \in Layouts, IsSplitTree(u), u.first \in Layouts, u.second \in Layouts, u.first \in S, u.second \in S
      PROVE u \in S
  <2> SUFFICES ASSUME NEW p \in Paths, Placed(p, u) \subseteq N PROVE g[p] = u
    OBVIOUS
  <2>1. Placed(p, u) = {Node(p, SplitLabel(u.direction, u.ratio))} \cup Placed(p \o <<1>>, u.first) \cup Placed(p \o <<2>>, u.second)
    BY <1>2, PlacedParts
  <2>2. p \o <<1>> \in Paths /\ p \o <<2>> \in Paths
    BY PathSteps
  <2>3. g[p \o <<1>>] = u.first /\ g[p \o <<2>>] = u.second
    BY <1>2, <2>1, <2>2
  <2>4. QED
    BY <1>0, <1>2, <2>3, BuiltTop
<1> HIDE DEF S
<1>3. Layouts \subseteq S
  BY <1>1, <1>2, TreeInduction
<1>4. QED
  BY <1>3 DEF S

\* serializeTree undoes reconstructLayout.
LEMMA SerializeReconstructed ==
  ASSUME NEW t \in Layouts PROVE SerializeTree(ReconstructLayout(t)) = t
<1> DEFINE N == ReconstructLayout(t)
           at[p \in {x.path : x \in N}] ==
             LET l == LabelAt(N, p) IN
             IF l.type = "pane" THEN l ELSE Split(l.direction, l.ratio, at[p \o <<1>>], at[p \o <<2>>])
<1>1. PICK g : Serializes(g, N)
  BY SerializesExists
<1>2. g = [p \in {x.path : x \in N} |->
             LET l == LabelAt(N, p) IN
             IF l.type = "pane" THEN l ELSE Split(l.direction, l.ratio, g[p \o <<1>>], g[p \o <<2>>])]
  <2> HIDE DEF N
  <2> QED BY <1>1 DEF Serializes, Built
<1>3. at = [p \in {x.path : x \in N} |->
             LET l == LabelAt(N, p) IN
             IF l.type = "pane" THEN l ELSE Split(l.direction, l.ratio, at[p \o <<1>>], at[p \o <<2>>])]
  <2> HIDE DEF N
  <2> QED BY <1>2
<1>4. Serializes(at, N)
  <2> HIDE DEF at, N
  <2> QED BY <1>3 DEF Serializes, Built
<1>5. SerializeTree(N) = at[<<>>]
  BY DEF SerializeTree
<1>6. OnePath(N)
  BY ReconPaths DEF OnePath
<1>7. Placed(<<>>, t) \subseteq N /\ <<>> \in Paths
  BY PlacedAtRoot DEF Paths
<1> HIDE DEF at, N
<1>8. at[<<>>] = t
  BY <1>4, <1>6, <1>7, SerializesTrees
<1>9. QED
  BY <1>5, <1>8 DEF N

-----------------------------------------------------------------------------
(* The algebra of joints *)

\* The fields of a joint.
LEMMA Fields ==
  ASSUME NEW d, NEW r, NEW A, NEW B
  PROVE /\ Joint(d, r, A, B).direction = d /\ Joint(d, r, A, B).ratio = r
        /\ Joint(d, r, A, B).one = A /\ Joint(d, r, A, B).two = B
BY DEF Joint

\* The fields of what is left of a joint.
LEMMA InFields ==
  ASSUME NEW j, NEW K
  PROVE /\ JointIn(j, K).direction = j.direction /\ JointIn(j, K).ratio = j.ratio
        /\ JointIn(j, K).one = j.one \cap K /\ JointIn(j, K).two = j.two \cap K
BY Fields DEF JointIn

\* The fields of a joint with one more session.
LEMMA WithFields ==
  ASSUME NEW j, NEW s, NEW n
  PROVE /\ JointWith(j, s, n).direction = j.direction /\ JointWith(j, s, n).ratio = j.ratio
        /\ JointWith(j, s, n).one = With(j.one, s, n) /\ JointWith(j, s, n).two = With(j.two, s, n)
BY Fields DEF JointWith

\* Panes may be closed one set after the other.
LEMMA InIn ==
  ASSUME NEW j, NEW K, NEW J
  PROVE JointIn(JointIn(j, K), J) = JointIn(j, K \cap J) /\ (Meets(JointIn(j, K), J) <=> Meets(j, K \cap J))
<1>1. /\ JointIn(j, K).direction = j.direction /\ JointIn(j, K).ratio = j.ratio
      /\ JointIn(j, K).one = j.one \cap K /\ JointIn(j, K).two = j.two \cap K
  BY InFields
<1>2. (j.one \cap K) \cap J = j.one \cap (K \cap J) /\ (j.two \cap K) \cap J = j.two \cap (K \cap J)
  OBVIOUS
<1>3. JointIn(JointIn(j, K), J) = Joint(j.direction, j.ratio, (j.one \cap K) \cap J, (j.two \cap K) \cap J)
  BY <1>1 DEF JointIn
<1>4. JointIn(JointIn(j, K), J) = JointIn(j, K \cap J)
  BY <1>2, <1>3 DEF JointIn
<1>5. Meets(JointIn(j, K), J) <=> Meets(j, K \cap J)
  BY <1>1, <1>2 DEF Meets
<1>6. QED
  BY <1>4, <1>5

\* The same, of a set of joints.
LEMMA RestRest ==
  ASSUME NEW H, NEW K, NEW J PROVE Rest(Rest(H, K), J) = Rest(H, K \cap J)
<1>1. \A j : JointIn(JointIn(j, K), J) = JointIn(j, K \cap J) /\ (Meets(JointIn(j, K), J) <=> Meets(j, K \cap J))
  BY InIn
<1>2. \A j : Meets(j, K \cap J) => Meets(j, K)
  BY DEF Meets
<1>3. QED
  BY <1>1, <1>2 DEF Rest

\* Ratios do not matter for what is left of a joint.
LEMMA PlainIn ==
  ASSUME NEW j, NEW K
  PROVE JointPlain(JointIn(j, K)) = JointIn(JointPlain(j), K) /\ (Meets(JointPlain(j), K) <=> Meets(j, K))
<1>1. /\ JointIn(j, K).direction = j.direction /\ JointIn(j, K).ratio = j.ratio
      /\ JointIn(j, K).one = j.one \cap K /\ JointIn(j, K).two = j.two \cap K
  BY InFields
<1>2. JointPlain(j).one = j.one /\ JointPlain(j).two = j.two /\ JointPlain(j).direction = j.direction /\ JointPlain(j).ratio = Half
  BY Fields DEF JointPlain
<1>3. JointPlain(JointIn(j, K)) = Joint(j.direction, Half, j.one \cap K, j.two \cap K)
  BY <1>1 DEF JointPlain
<1>4. JointIn(JointPlain(j), K) = Joint(j.direction, Half, j.one \cap K, j.two \cap K)
  BY <1>2 DEF JointIn
<1>5. Meets(JointPlain(j), K) <=> Meets(j, K)
  BY <1>2 DEF Meets
<1>6. QED
  BY <1>3, <1>4, <1>5

\* The same, of a set of joints.
LEMMA PlainRest ==
  ASSUME NEW H, NEW K PROVE Plain(Rest(H, K)) = Rest(Plain(H), K)
<1>1. \A j : JointPlain(JointIn(j, K)) = JointIn(JointPlain(j), K) /\ (Meets(JointPlain(j), K) <=> Meets(j, K))
  BY PlainIn
<1>2. QED
  BY <1>1 DEF Rest, Plain

\* Ratios are left aside once.
LEMMA PlainPlain ==
  ASSUME NEW H PROVE Plain(Plain(H)) = Plain(H)
<1>1. \A j : JointPlain(JointPlain(j)) = JointPlain(j)
  <2> SUFFICES ASSUME NEW j PROVE JointPlain(JointPlain(j)) = JointPlain(j)
    OBVIOUS
  <2>1. JointPlain(j).one = j.one /\ JointPlain(j).two = j.two /\ JointPlain(j).direction = j.direction
    BY PlainFields
  <2>2. JointPlain(JointPlain(j)) = Joint(JointPlain(j).direction, Half, JointPlain(j).one, JointPlain(j).two)
    BY DEF JointPlain
  <2>3. JointPlain(JointPlain(j)) = Joint(j.direction, Half, j.one, j.two)
    BY <2>1, <2>2
  <2>4. QED
    BY <2>3 DEF JointPlain
<1>2. QED
  BY <1>1 DEF Plain

\* Ratios do not matter for a split.
LEMMA PlainGrow ==
  ASSUME NEW H, NEW s, NEW n, NEW d PROVE Plain(Grow(H, s, n, d)) = Grow(Plain(H), s, n, d)
<1>1. \A j : JointPlain(JointWith(j, s, n)) = JointWith(JointPlain(j), s, n)
  <2> SUFFICES ASSUME NEW j PROVE JointPlain(JointWith(j, s, n)) = JointWith(JointPlain(j), s, n)
    OBVIOUS
  <2>1. /\ JointWith(j, s, n).direction = j.direction
        /\ JointWith(j, s, n).one = With(j.one, s, n) /\ JointWith(j, s, n).two = With(j.two, s, n)
    BY WithFields
  <2>2. JointPlain(j).one = j.one /\ JointPlain(j).two = j.two /\ JointPlain(j).direction = j.direction /\ JointPlain(j).ratio = Half
    BY Fields DEF JointPlain
  <2>3. JointPlain(JointWith(j, s, n)) = Joint(j.direction, Half, With(j.one, s, n), With(j.two, s, n))
    BY <2>1 DEF JointPlain
  <2>4. JointWith(JointPlain(j), s, n) = Joint(j.direction, Half, With(j.one, s, n), With(j.two, s, n))
    BY <2>2 DEF JointWith
  <2>5. QED
    BY <2>3, <2>4
<1>2. JointPlain(Joint(d, Half, {s}, {n})) = Joint(d, Half, {s}, {n})
  BY Fields DEF JointPlain
<1>3. Plain(Grow(H, s, n, d)) = {JointPlain(i) : i \in {JointWith(j, s, n) : j \in H}} \cup {JointPlain(Joint(d, Half, {s}, {n}))}
  BY DEF Plain, Grow
<1>4. {JointPlain(i) : i \in {JointWith(j, s, n) : j \in H}} = {JointWith(i, s, n) : i \in Plain(H)}
  BY <1>1 DEF Plain
<1>5. QED
  BY <1>2, <1>3, <1>4 DEF Grow

\* A split is not seen in sessions that do not have the new one.
LEMMA GrowOutside ==
  ASSUME NEW H, NEW s, NEW n, NEW d, NEW K, n \notin K PROVE Rest(Grow(H, s, n, d), K) = Rest(H, K)
<1>1. \A j : JointIn(JointWith(j, s, n), K) = JointIn(j, K) /\ (Meets(JointWith(j, s, n), K) <=> Meets(j, K))
  <2> SUFFICES ASSUME NEW j PROVE JointIn(JointWith(j, s, n), K) = JointIn(j, K) /\ (Meets(JointWith(j, s, n), K) <=> Meets(j, K))
    OBVIOUS
  <2>1. /\ JointWith(j, s, n).direction = j.direction /\ JointWith(j, s, n).ratio = j.ratio
        /\ JointWith(j, s, n).one = With(j.one, s, n) /\ JointWith(j, s, n).two = With(j.two, s, n)
    BY WithFields
  <2>2. With(j.one, s, n) \cap K = j.one \cap K /\ With(j.two, s, n) \cap K = j.two \cap K
    BY DEF With
  <2>3. JointIn(JointWith(j, s, n), K) = Joint(j.direction, j.ratio, With(j.one, s, n) \cap K, With(j.two, s, n) \cap K)
    BY <2>1 DEF JointIn
  <2>4. JointIn(JointWith(j, s, n), K) = JointIn(j, K)
    BY <2>2, <2>3 DEF JointIn
  <2>5. Meets(JointWith(j, s, n), K) <=> Meets(j, K)
    BY <2>1, <2>2 DEF Meets
  <2>6. QED
    BY <2>4, <2>5
<1>2. ~Meets(Joint(d, Half, {s}, {n}), K)
  BY Fields DEF Meets
<1>3. Rest(Grow(H, s, n, d), K) = Rest({JointWith(j, s, n) : j \in H}, K) \cup Rest({Joint(d, Half, {s}, {n})}, K)
  <2> DEFINE W == {JointWith(j, s, n) : j \in H}
             E == {Joint(d, Half, {s}, {n})}
  <2>1. Grow(H, s, n, d) = W \cup E
    BY DEF Grow
  <2> HIDE DEF W, E
  <2>2. Rest(Grow(H, s, n, d), K) = Rest(W, K) \cup Rest(E, K)
    BY <2>1, RestUnion
  <2>3. QED
    BY <2>2 DEF W, E
<1>4. Rest({Joint(d, Half, {s}, {n})}, K) = {}
  BY <1>2, RestOne
<1>5. Rest({JointWith(j, s, n) : j \in H}, K) = Rest(H, K)
  BY <1>1 DEF Rest
<1>6. QED
  BY <1>3, <1>4, <1>5

\* A split among the sessions of K: first split, then closed, is the same as
\* first closed, then split.
LEMMA GrowInside ==
  ASSUME NEW H, NEW s, NEW n, NEW d, NEW K, s \in K, \A j \in H : n \notin j.one /\ n \notin j.two
  PROVE Rest(Grow(H, s, n, d), K \cup {n}) = Grow(Rest(H, K), s, n, d)
<1>1. \A j \in H : /\ JointIn(JointWith(j, s, n), K \cup {n}) = JointWith(JointIn(j, K), s, n)
                   /\ Meets(JointWith(j, s, n), K \cup {n}) <=> Meets(j, K)
  <2> SUFFICES ASSUME NEW j \in H
               PROVE /\ JointIn(JointWith(j, s, n), K \cup {n}) = JointWith(JointIn(j, K), s, n)
                     /\ Meets(JointWith(j, s, n), K \cup {n}) <=> Meets(j, K)
    OBVIOUS
  <2>1. /\ JointWith(j, s, n).direction = j.direction /\ JointWith(j, s, n).ratio = j.ratio
        /\ JointWith(j, s, n).one = With(j.one, s, n) /\ JointWith(j, s, n).two = With(j.two, s, n)
    BY WithFields
  <2>2. \A A : n \notin A => /\ With(A, s, n) \cap (K \cup {n}) = With(A \cap K, s, n)
                             /\ With(A \cap K, s, n) = {} <=> A \cap K = {}
    BY DEF With
  <2>3. /\ With(j.one, s, n) \cap (K \cup {n}) = With(j.one \cap K, s, n)
        /\ With(j.two, s, n) \cap (K \cup {n}) = With(j.two \cap K, s, n)
        /\ With(j.one \cap K, s, n) = {} <=> j.one \cap K = {}
        /\ With(j.two \cap K, s, n) = {} <=> j.two \cap K = {}
    BY <2>2
  <2>4. JointIn(JointWith(j, s, n), K \cup {n}) = Joint(j.direction, j.ratio, With(j.one \cap K, s, n), With(j.two \cap K, s, n))
    BY <2>1, <2>3 DEF JointIn
  <2>5. /\ JointIn(j, K).direction = j.direction /\ JointIn(j, K).ratio = j.ratio
        /\ JointIn(j, K).one = j.one \cap K /\ JointIn(j, K).two = j.two \cap K
    BY InFields
  <2>6. JointWith(JointIn(j, K), s, n) = Joint(j.direction, j.ratio, With(j.one \cap K, s, n), With(j.two \cap K, s, n))
    BY <2>5 DEF JointWith
  <2>7. Meets(JointWith(j, s, n), K \cup {n}) <=> Meets(j, K)
    BY <2>1, <2>3 DEF Meets
  <2>8. QED
    BY <2>4, <2>6, <2>7
<1>2. Meets(Joint(d, Half, {s}, {n}), K \cup {n}) /\ JointIn(Joint(d, Half, {s}, {n}), K \cup {n}) = Joint(d, Half, {s}, {n})
  <2>1. /\ Joint(d, Half, {s}, {n}).one = {s} /\ Joint(d, Half, {s}, {n}).two = {n}
        /\ Joint(d, Half, {s}, {n}).direction = d /\ Joint(d, Half, {s}, {n}).ratio = Half
    <3> DEFINE A == {s}
               B == {n}
    <3> HIDE DEF A, B
    <3>1. Joint(d, Half, A, B).one = A /\ Joint(d, Half, A, B).two = B /\ Joint(d, Half, A, B).direction = d /\ Joint(d, Half, A, B).ratio = Half
      BY Fields
    <3>2. QED
      BY <3>1 DEF A, B
  <2>2. {s} \cap (K \cup {n}) = {s} /\ {n} \cap (K \cup {n}) = {n}
    OBVIOUS
  <2>3. QED
    BY <2>1, <2>2 DEF Meets, JointIn
<1>3. Rest(Grow(H, s, n, d), K \cup {n}) = Rest({JointWith(j, s, n) : j \in H}, K \cup {n}) \cup Rest({Joint(d, Half, {s}, {n})}, K \cup {n})
  <2> DEFINE W == {JointWith(j, s, n) : j \in H}
             E == {Joint(d, Half, {s}, {n})}
  <2>1. Grow(H, s, n, d) = W \cup E
    BY DEF Grow
  <2> HIDE DEF W, E
  <2>2. Rest(Grow(H, s, n, d), K \cup {n}) = Rest(W, K \cup {n}) \cup Rest(E, K \cup {n})
    BY <2>1, RestUnion
  <2>3. QED
    BY <2>2 DEF W, E
<1>4. Rest({Joint(d, Half, {s}, {n})}, K \cup {n}) = {Joint(d, Half, {s}, {n})}
  BY <1>2, RestOne
<1>5. Rest({JointWith(j, s, n) : j \in H}, K \cup {n}) = {JointWith(i, s, n) : i \in Rest(H, K)}
  BY <1>1 DEF Rest
<1>6. QED
  BY <1>3, <1>4, <1>5 DEF Grow

-----------------------------------------------------------------------------
(* Joints with the ratios of others *)

\* A joint with another ratio.
Rerated(g, r) == Joint(g.direction, r, g.one, g.two)

\* j is what the sessions of U have of g, with a ratio of its own.
Like(g, j, U) == Meets(g, U) /\ JointPlain(j) = JointPlain(JointIn(g, U))

\* The joints G, with the ratios of J for what they have in U.
Graft(G, J, U) == {g \in G : ~Meets(g, U)} \cup {Rerated(x[1], x[2].ratio) : x \in {y \in G \X J : Like(y[1], y[2], U)}}

\* The joints of a graft, one by one.
LEMMA GraftMembers ==
  ASSUME NEW G, NEW J, NEW U, NEW h
  PROVE h \in Graft(G, J, U) <=> \/ h \in G /\ ~Meets(h, U)
                                 \/ \E g \in G : \E j \in J : Like(g, j, U) /\ h = Rerated(g, j.ratio)
<1> DEFINE A == {g \in G : ~Meets(g, U)}
           B == {Rerated(x[1], x[2].ratio) : x \in {y \in G \X J : Like(y[1], y[2], U)}}
<1>1. h \in A <=> h \in G /\ ~Meets(h, U)
  OBVIOUS
<1>2. ASSUME NEW x \in {y \in G \X J : Like(y[1], y[2], U)}, h = Rerated(x[1], x[2].ratio)
      PROVE \E g \in G : \E j \in J : Like(g, j, U) /\ h = Rerated(g, j.ratio)
  <2>1. x[1] \in G /\ x[2] \in J
    OBVIOUS
  <2>2. QED
    BY <1>2, <2>1
<1>3. ASSUME NEW g \in G, NEW j \in J, Like(g, j, U), h = Rerated(g, j.ratio) PROVE h \in B
  <2> DEFINE x == <<g, j>>
  <2>1. x[1] = g /\ x[2] = j /\ x \in G \X J
    OBVIOUS
  <2>2. x \in {y \in G \X J : Like(y[1], y[2], U)} /\ h = Rerated(x[1], x[2].ratio)
    BY <1>3, <2>1
  <2> HIDE DEF x
  <2>3. QED
    BY <2>2
<1>4. h \in Graft(G, J, U) <=> h \in A \/ h \in B
  BY DEF Graft
<1>5. h \in B => \E g \in G : \E j \in J : Like(g, j, U) /\ h = Rerated(g, j.ratio)
  BY <1>2
<1> HIDE DEF A, B
<1>6. QED
  BY <1>1, <1>3, <1>4, <1>5

\* The other fields stay.
LEMMA ReratedFields ==
  ASSUME NEW g, NEW r
  PROVE /\ Rerated(g, r).direction = g.direction /\ Rerated(g, r).ratio = r
        /\ Rerated(g, r).one = g.one /\ Rerated(g, r).two = g.two
        /\ JointPlain(Rerated(g, r)) = JointPlain(g)
        /\ \A K : Meets(Rerated(g, r), K) <=> Meets(g, K)
        /\ \A K : JointIn(Rerated(g, r), K) = Rerated(JointIn(g, K), r)
        /\ \A s, n : JointWith(Rerated(g, r), s, n) = Rerated(JointWith(g, s, n), r)
<1>1. /\ Rerated(g, r).direction = g.direction /\ Rerated(g, r).ratio = r
      /\ Rerated(g, r).one = g.one /\ Rerated(g, r).two = g.two
  BY Fields DEF Rerated
<1>2. JointPlain(Rerated(g, r)) = JointPlain(g) /\ \A K : Meets(Rerated(g, r), K) <=> Meets(g, K)
  BY <1>1 DEF JointPlain, Meets
<1>3. ASSUME NEW K PROVE JointIn(Rerated(g, r), K) = Rerated(JointIn(g, K), r)
  <2>1. JointIn(Rerated(g, r), K) = Joint(g.direction, r, g.one \cap K, g.two \cap K)
    BY <1>1 DEF JointIn
  <2>2. JointIn(g, K).direction = g.direction /\ JointIn(g, K).one = g.one \cap K /\ JointIn(g, K).two = g.two \cap K
    BY InFields
  <2>3. Rerated(JointIn(g, K), r) = Joint(g.direction, r, g.one \cap K, g.two \cap K)
    BY <2>2 DEF Rerated
  <2>4. QED
    BY <2>1, <2>3
<1>4. ASSUME NEW s, NEW n PROVE JointWith(Rerated(g, r), s, n) = Rerated(JointWith(g, s, n), r)
  BY <1>1, WithFields DEF JointWith, Rerated
<1>5. QED
  BY <1>1, <1>2, <1>3, <1>4

\* A graft consists of joints of the same sessions.
LEMMA GraftType ==
  ASSUME NEW G \in SUBSET AllJoints, NEW J \in SUBSET AllJoints, NEW U
  PROVE /\ Graft(G, J, U) \in SUBSET AllJoints
        /\ \A S : (\A g \in G : g.one \subseteq S /\ g.two \subseteq S) => \A h \in Graft(G, J, U) : h.one \subseteq S /\ h.two \subseteq S
<1>1. ASSUME NEW g \in G, NEW j \in J PROVE Rerated(g, j.ratio) \in AllJoints
  BY DEF Rerated, Joint, AllJoints
<1>2. \A h \in Graft(G, J, U) : h \in G \/ \E g \in G : \E j \in J : h = Rerated(g, j.ratio)
  BY GraftMembers
<1>3. \A h \in Graft(G, J, U) : h \in AllJoints
  BY <1>1, <1>2
<1>4. ASSUME NEW S, \A g \in G : g.one \subseteq S /\ g.two \subseteq S, NEW h \in Graft(G, J, U) PROVE h.one \subseteq S /\ h.two \subseteq S
  <2>1. \A g \in G : \A j \in J : Rerated(g, j.ratio).one = g.one /\ Rerated(g, j.ratio).two = g.two
    BY ReratedFields
  <2>2. QED
    BY <1>2, <1>4, <2>1
<1>5. QED
  BY <1>3, <1>4

\* A graft changes ratios only.
LEMMA GraftPlain ==
  ASSUME NEW G, NEW J, NEW U, Plain(Rest(G, U)) = Plain(J) PROVE Plain(Graft(G, J, U)) = Plain(G)
<1>1. \A h \in Graft(G, J, U) : \E g \in G : JointPlain(h) = JointPlain(g)
  <2> SUFFICES ASSUME NEW h \in Graft(G, J, U) PROVE \E g \in G : JointPlain(h) = JointPlain(g)
    OBVIOUS
  <2>1. h \in G \/ \E g \in G : \E j \in J : h = Rerated(g, j.ratio)
    BY GraftMembers
  <2>2. \A g, r : JointPlain(Rerated(g, r)) = JointPlain(g)
    BY ReratedFields
  <2>3. QED
    BY <2>1, <2>2
<1>2. \A g \in G : \E h \in Graft(G, J, U) : JointPlain(h) = JointPlain(g)
  <2> SUFFICES ASSUME NEW g \in G PROVE \E h \in Graft(G, J, U) : JointPlain(h) = JointPlain(g)
    OBVIOUS
  <2>1. CASE ~Meets(g, U)
    BY <2>1, GraftMembers
  <2>2. CASE Meets(g, U)
    <3>1. JointIn(g, U) \in Rest(G, U)
      BY <2>2 DEF Rest
    <3>2. JointPlain(JointIn(g, U)) \in Plain(J)
      BY <3>1 DEF Plain
    <3>3. PICK j \in J : JointPlain(j) = JointPlain(JointIn(g, U))
      BY <3>2 DEF Plain
    <3>4. Rerated(g, j.ratio) \in Graft(G, J, U)
      <4>1. Like(g, j, U)
        BY <2>2, <3>3 DEF Like
      <4>2. QED
        BY <4>1, GraftMembers
    <3>5. JointPlain(Rerated(g, j.ratio)) = JointPlain(g)
      BY ReratedFields
    <3>6. QED
      BY <3>4, <3>5
  <2>3. QED
    BY <2>1, <2>2
<1>3. QED
  BY <1>1, <1>2 DEF Plain

\* Such a joint is what is left of the one with its ratio.
LEMMA LikeRerated ==
  ASSUME NEW g, NEW j \in AllJoints, NEW U, Like(g, j, U) PROVE JointIn(Rerated(g, j.ratio), U) = j
<1>1. /\ JointIn(g, U).direction = g.direction /\ JointIn(g, U).one = g.one \cap U /\ JointIn(g, U).two = g.two \cap U
  BY InFields
<1>2. /\ JointPlain(j).direction = JointPlain(JointIn(g, U)).direction
      /\ JointPlain(j).one = JointPlain(JointIn(g, U)).one /\ JointPlain(j).two = JointPlain(JointIn(g, U)).two
  BY DEF Like
<1>3. j.direction = g.direction /\ j.one = g.one \cap U /\ j.two = g.two \cap U
  <2>1. \A k : JointPlain(k).one = k.one /\ JointPlain(k).two = k.two /\ JointPlain(k).direction = k.direction
    BY PlainFields
  <2>2. QED
    BY <1>1, <1>2, <2>1
<1>4. j = Joint(j.direction, j.ratio, j.one, j.two)
  BY JointFields
<1>5. JointIn(Rerated(g, j.ratio), U) = Joint(g.direction, j.ratio, g.one \cap U, g.two \cap U)
  BY ReratedFields DEF JointIn
<1>6. QED
  BY <1>3, <1>4, <1>5

\* What a graft leaves in U is what was grafted.
LEMMA GraftRest ==
  ASSUME NEW G, NEW J \in SUBSET AllJoints, NEW U, Plain(Rest(G, U)) = Plain(J) PROVE Rest(Graft(G, J, U), U) = J
<1>1. ASSUME NEW h \in Graft(G, J, U), Meets(h, U) PROVE JointIn(h, U) \in J
  <2>1. PICK g \in G : \E j \in J : Like(g, j, U) /\ h = Rerated(g, j.ratio)
    BY <1>1, GraftMembers
  <2>2. PICK j \in J : Like(g, j, U) /\ h = Rerated(g, j.ratio)
    BY <2>1
  <2>3. JointIn(h, U) = j
    BY <2>2, LikeRerated
  <2>4. QED
    BY <2>3
<1>2. ASSUME NEW j \in J PROVE \E h \in Graft(G, J, U) : Meets(h, U) /\ JointIn(h, U) = j
  <2>1. JointPlain(j) \in Plain(Rest(G, U))
    BY DEF Plain
  <2>2. PICK i \in Rest(G, U) : JointPlain(j) = JointPlain(i)
    BY <2>1 DEF Plain
  <2>3. PICK g \in G : Meets(g, U) /\ i = JointIn(g, U)
    BY DEF Rest
  <2>4. Like(g, j, U)
    BY <2>2, <2>3 DEF Like
  <2>5. Rerated(g, j.ratio) \in Graft(G, J, U)
    BY <2>4, GraftMembers
  <2>6. JointIn(Rerated(g, j.ratio), U) = j
    BY <2>4, LikeRerated
  <2>7. Meets(Rerated(g, j.ratio), U)
    BY <2>3, ReratedFields
  <2>8. QED
    BY <2>5, <2>6, <2>7
<1>3. QED
  BY <1>1, <1>2 DEF Rest

\* Grafting where all of U is kept.
LEMMA GraftKept ==
  ASSUME NEW G, NEW J, NEW U, NEW K, U \subseteq K PROVE Rest(Graft(G, J, U), K) = Graft(Rest(G, K), J, U)
<1>1. K \cap U = U
  OBVIOUS
<1>2. \A g : /\ JointIn(JointIn(g, K), U) = JointIn(g, U) /\ (Meets(JointIn(g, K), U) <=> Meets(g, U))
             /\ Meets(g, U) => Meets(g, K)
  <2>1. \A g : JointIn(JointIn(g, K), U) = JointIn(g, K \cap U) /\ (Meets(JointIn(g, K), U) <=> Meets(g, K \cap U))
    BY InIn
  <2>2. \A g : Meets(g, U) => Meets(g, K)
    BY DEF Meets
  <2>3. QED
    BY <1>1, <2>1, <2>2
<1>3. \A g, j : Like(JointIn(g, K), j, U) <=> Like(g, j, U)
  BY <1>2 DEF Like
<1>4. \A g, r : JointIn(Rerated(g, r), K) = Rerated(JointIn(g, K), r) /\ (Meets(Rerated(g, r), K) <=> Meets(g, K))
  BY ReratedFields
<1>5. ASSUME NEW h \in Graft(G, J, U), Meets(h, K) PROVE JointIn(h, K) \in Graft(Rest(G, K), J, U)
  <2>1. CASE h \in G /\ ~Meets(h, U)
    <3>1. JointIn(h, K) \in Rest(G, K) /\ ~Meets(JointIn(h, K), U)
      BY <1>2, <1>5, <2>1 DEF Rest
    <3>2. QED
      BY <3>1, GraftMembers
  <2>2. CASE \E g \in G : \E j \in J : Like(g, j, U) /\ h = Rerated(g, j.ratio)
    <3>1. PICK g \in G : \E j \in J : Like(g, j, U) /\ h = Rerated(g, j.ratio)
      BY <2>2
    <3>2. PICK j \in J : Like(g, j, U) /\ h = Rerated(g, j.ratio)
      BY <3>1
    <3>3. JointIn(g, K) \in Rest(G, K)
      BY <1>2, <3>2 DEF Rest, Like
    <3>4. Like(JointIn(g, K), j, U) /\ JointIn(h, K) = Rerated(JointIn(g, K), j.ratio)
      BY <1>3, <1>4, <3>2
    <3>5. QED
      BY <3>3, <3>4, GraftMembers
  <2>3. QED
    BY <2>1, <2>2, GraftMembers
<1>6. ASSUME NEW i \in Graft(Rest(G, K), J, U) PROVE \E h \in Graft(G, J, U) : Meets(h, K) /\ JointIn(h, K) = i
  <2>1. CASE i \in Rest(G, K) /\ ~Meets(i, U)
    <3>1. PICK g \in G : Meets(g, K) /\ i = JointIn(g, K)
      BY <2>1 DEF Rest
    <3>2. g \in Graft(G, J, U)
      BY <1>2, <2>1, <3>1, GraftMembers
    <3>3. QED
      BY <3>1, <3>2
  <2>2. CASE \E f \in Rest(G, K) : \E j \in J : Like(f, j, U) /\ i = Rerated(f, j.ratio)
    <3>1. PICK f \in Rest(G, K) : \E j \in J : Like(f, j, U) /\ i = Rerated(f, j.ratio)
      BY <2>2
    <3>2. PICK j \in J : Like(f, j, U) /\ i = Rerated(f, j.ratio)
      BY <3>1
    <3>3. PICK g \in G : Meets(g, K) /\ f = JointIn(g, K)
      BY DEF Rest
    <3>4. Like(g, j, U)
      BY <1>3, <3>2, <3>3
    <3>5. Rerated(g, j.ratio) \in Graft(G, J, U)
      BY <3>4, GraftMembers
    <3>6. Meets(Rerated(g, j.ratio), K) /\ JointIn(Rerated(g, j.ratio), K) = i
      BY <1>4, <3>2, <3>3
    <3>7. QED
      BY <3>5, <3>6
  <2>3. QED
    BY <2>1, <2>2, GraftMembers
<1>7. QED
  BY <1>5, <1>6 DEF Rest

\* Grafting what a split later than all of U has made.
LEMMA GraftGrow ==
  ASSUME NEW G, NEW J, NEW U, NEW s, NEW n, NEW d, n \notin U
  PROVE Graft(Grow(G, s, n, d), J, U) = Grow(Graft(G, J, U), s, n, d)
<1> DEFINE new == Joint(d, Half, {s}, {n})
<1>1. \A g : JointIn(JointWith(g, s, n), U) = JointIn(g, U) /\ (Meets(JointWith(g, s, n), U) <=> Meets(g, U))
  <2> SUFFICES ASSUME NEW g PROVE JointIn(JointWith(g, s, n), U) = JointIn(g, U) /\ (Meets(JointWith(g, s, n), U) <=> Meets(g, U))
    OBVIOUS
  <2>1. /\ JointWith(g, s, n).direction = g.direction /\ JointWith(g, s, n).ratio = g.ratio
        /\ JointWith(g, s, n).one = With(g.one, s, n) /\ JointWith(g, s, n).two = With(g.two, s, n)
    BY WithFields
  <2>2. With(g.one, s, n) \cap U = g.one \cap U /\ With(g.two, s, n) \cap U = g.two \cap U
    BY DEF With
  <2>3. QED
    BY <2>1, <2>2 DEF JointIn, Meets
<1>2. \A g, j : Like(JointWith(g, s, n), j, U) <=> Like(g, j, U)
  BY <1>1 DEF Like
<1>3. \A g, r : JointWith(Rerated(g, r), s, n) = Rerated(JointWith(g, s, n), r)
  BY ReratedFields
<1>4. ~Meets(new, U) /\ \A j : ~Like(new, j, U)
  <2>1. new.two = {n}
    BY Fields
  <2>2. QED
    BY <2>1 DEF Meets, Like
<1>5. \A M : Grow(M, s, n, d) = {JointWith(g, s, n) : g \in M} \cup {new}
  BY DEF Grow
<1> HIDE DEF new
<1>6. ASSUME NEW h \in Graft(Grow(G, s, n, d), J, U) PROVE h \in Grow(Graft(G, J, U), s, n, d)
  <2>1. CASE h \in Grow(G, s, n, d) /\ ~Meets(h, U)
    <3>1. CASE h = new
      BY <1>5, <3>1
    <3>2. CASE \E g \in G : h = JointWith(g, s, n)
      <4>1. PICK g \in G : h = JointWith(g, s, n)
        BY <3>2
      <4>2. g \in Graft(G, J, U)
        BY <1>1, <2>1, <4>1, GraftMembers
      <4>3. QED
        BY <1>5, <4>1, <4>2
    <3>3. QED
      BY <1>5, <2>1, <3>1, <3>2
  <2>2. CASE \E f \in Grow(G, s, n, d) : \E j \in J : Like(f, j, U) /\ h = Rerated(f, j.ratio)
    <3>1. PICK f \in Grow(G, s, n, d) : \E j \in J : Like(f, j, U) /\ h = Rerated(f, j.ratio)
      BY <2>2
    <3>2. PICK j \in J : Like(f, j, U) /\ h = Rerated(f, j.ratio)
      BY <3>1
    <3>3. f # new
      BY <1>4, <3>2
    <3>4. PICK g \in G : f = JointWith(g, s, n)
      BY <1>5, <3>3
    <3>5. Rerated(g, j.ratio) \in Graft(G, J, U)
      BY <1>2, <3>2, <3>4, GraftMembers
    <3>6. h = JointWith(Rerated(g, j.ratio), s, n)
      BY <1>3, <3>2, <3>4
    <3>7. QED
      BY <1>5, <3>5, <3>6
  <2>3. QED
    BY <2>1, <2>2, GraftMembers
<1>7. ASSUME NEW h \in Grow(Graft(G, J, U), s, n, d) PROVE h \in Graft(Grow(G, s, n, d), J, U)
  <2>1. CASE h = new
    BY <1>4, <1>5, <2>1, GraftMembers
  <2>2. CASE \E f \in Graft(G, J, U) : h = JointWith(f, s, n)
    <3>1. PICK f \in Graft(G, J, U) : h = JointWith(f, s, n)
      BY <2>2
    <3>2. CASE f \in G /\ ~Meets(f, U)
      <4>1. h \in Grow(G, s, n, d) /\ ~Meets(h, U)
        BY <1>1, <1>5, <3>1, <3>2
      <4>2. QED
        BY <4>1, GraftMembers
    <3>3. CASE \E g \in G : \E j \in J : Like(g, j, U) /\ f = Rerated(g, j.ratio)
      <4>1. PICK g \in G : \E j \in J : Like(g, j, U) /\ f = Rerated(g, j.ratio)
        BY <3>3
      <4>2. PICK j \in J : Like(g, j, U) /\ f = Rerated(g, j.ratio)
        BY <4>1
      <4>3. JointWith(g, s, n) \in Grow(G, s, n, d)
        BY <1>5
      <4>4. Like(JointWith(g, s, n), j, U) /\ h = Rerated(JointWith(g, s, n), j.ratio)
        BY <1>2, <1>3, <3>1, <4>2
      <4>5. QED
        BY <4>3, <4>4, GraftMembers
    <3>4. QED
      BY <3>2, <3>3, GraftMembers
  <2>3. QED
    BY <1>5, <2>1, <2>2
<1>8. QED
  BY <1>6, <1>7

\* The two messages that tell of a change.
Created(m) == m.type = "session_created"
Closed(m) == m.type = "pane_closed"

\* The split that made m.session is the one m tells of.
Born(G, m) ==
  Rest(G, 1 .. m.session) = Grow(Rest(G, 1 .. m.session - 1), m.target, m.session, m.direction)

\* Joints as they would be if no pane had ever been closed and no handle dragged.
Grown(H, n) == H \in SUBSET AllJoints /\ Plain(H) = H /\ \A j \in H : j.one \subseteq 1 .. n /\ j.two \subseteq 1 .. n

\* What is known to grow: joints, sessions made, and sessions that have a pane.
Evolves(H, n, L, H2, n2, L2) ==
  /\ n \in Nat /\ n2 \in Nat /\ n <= n2
  /\ \A K \in SUBSET (1 .. n) : Rest(H2, K) = Rest(H, K)
  /\ L2 \cap (1 .. n) \subseteq L

\* What is left of joints has its sessions in what is left.
LEMMA RestSides ==
  ASSUME NEW G, NEW K PROVE \A j \in Rest(G, K) : j.one \subseteq K /\ j.two \subseteq K
<1>1. \A j : JointIn(j, K).one = j.one \cap K /\ JointIn(j, K).two = j.two \cap K
  BY InFields
<1>2. QED
  BY <1>1 DEF Rest

\* A set of sessions without n, and with n.
LEMMA Below1 ==
  ASSUME NEW n \in Nat, n # 0 PROVE 1 .. n = (1 .. n - 1) \cup {n} /\ n \notin 1 .. n - 1
OBVIOUS

\* The split of m, in what is left for sessions that came before.
LEMMA BornGrows ==
  ASSUME NEW G, NEW m, m.session \in Nat, m.session # 0, Born(G, m), NEW K \in SUBSET (1 .. m.session - 1), m.target \in K
  PROVE Rest(G, K \cup {m.session}) = Grow(Rest(G, K), m.target, m.session, m.direction)
<1> DEFINE n == m.session
           X == Rest(G, 1 .. n - 1)
           s == m.target
           d == m.direction
<1>1. n \in Nat /\ n # 0 /\ s \in K /\ K \subseteq 1 .. n - 1
  OBVIOUS
<1>2. Rest(G, 1 .. n) = Grow(X, s, n, d)
  BY DEF Born
<1>3. \A j \in X : n \notin j.one /\ n \notin j.two
  <2>1. \A j \in X : j.one \subseteq 1 .. n - 1 /\ j.two \subseteq 1 .. n - 1
    BY RestSides
  <2>2. n \notin 1 .. n - 1
    BY <1>1
  <2>3. QED
    BY <2>1, <2>2
<1>4. (1 .. n) \cap (K \cup {n}) = K \cup {n} /\ (1 .. n - 1) \cap K = K
  <2>1. n \in 1 .. n /\ 1 .. n - 1 \subseteq 1 .. n
    BY <1>1
  <2>2. QED
    BY <1>1, <2>1
<1>5. Rest(X, K) = Rest(G, K)
  <2>1. Rest(X, K) = Rest(G, (1 .. n - 1) \cap K)
    BY RestRest
  <2>2. QED
    BY <2>1, <1>4
<1>6. Rest(Rest(G, 1 .. n), K \cup {n}) = Rest(G, K \cup {n})
  <2>1. Rest(Rest(G, 1 .. n), K \cup {n}) = Rest(G, (1 .. n) \cap (K \cup {n}))
    BY RestRest
  <2>2. QED
    BY <2>1, <1>4
<1> HIDE DEF n, X, s, d
<1>7. Rest(Grow(X, s, n, d), K \cup {n}) = Grow(Rest(X, K), s, n, d)
  BY <1>1, <1>3, GrowInside
<1>8. Rest(G, K \cup {n}) = Grow(Rest(G, K), s, n, d)
  BY <1>2, <1>5, <1>6, <1>7
<1>9. QED
  BY <1>8 DEF n, s, d

\* Joints that have not changed for the sessions up to n tell the same of their splits.
LEMMA BornEvolves ==
  ASSUME NEW H, NEW n, NEW L, NEW H2, NEW n2, NEW L2, Evolves(H, n, L, H2, n2, L2), NEW m, m.session \in 1 .. n
  PROVE Born(H2, m) <=> Born(H, m)
<1>1. 1 .. m.session \in SUBSET (1 .. n) /\ 1 .. m.session - 1 \in SUBSET (1 .. n)
  BY DEF Evolves
<1>2. QED
  BY <1>1 DEF Evolves, Born

\* A new split adds to the joints and changes none for the sessions so far.
LEMMA GrowEvolves ==
  ASSUME NEW n \in Nat, n + 1 <= MaxSessions, NEW H, Grown(H, n), NEW s \in 1 .. n, NEW d \in Directions
  PROVE /\ Grown(Grow(H, s, n + 1, d), n + 1)
        /\ \A K \in SUBSET (1 .. n) : Rest(Grow(H, s, n + 1, d), K) = Rest(H, K)
        /\ \A K \in SUBSET (1 .. n) : s \in K => Rest(Grow(H, s, n + 1, d), K \cup {n + 1}) = Grow(Rest(H, K), s, n + 1, d)
        /\ \A m : m.session = n + 1 /\ m.target = s /\ m.direction = d => Born(Grow(H, s, n + 1, d), m)
<1> DEFINE k == n + 1
           J == Grow(H, s, k, d)
<1>1. k \in Nat /\ k # 0 /\ k \notin 1 .. n /\ 1 .. n \subseteq 1 .. k /\ k \in 1 .. k /\ s \in 1 .. k /\ k - 1 = n
      /\ 1 .. k \subseteq Sessions /\ k \in Sessions /\ s \in Sessions
  BY MaxSessionsNat DEF Sessions
<1>2. \A j \in H : k \notin j.one /\ k \notin j.two
  BY <1>1 DEF Grown
<1> HIDE DEF k
<1>3. \A K \in SUBSET (1 .. n) : Rest(J, K) = Rest(H, K)
  <2> SUFFICES ASSUME NEW K \in SUBSET (1 .. n) PROVE Rest(J, K) = Rest(H, K)
    OBVIOUS
  <2>1. k \notin K
    BY <1>1
  <2>2. QED
    BY <2>1, GrowOutside
<1>4. \A K \in SUBSET (1 .. n) : s \in K => Rest(J, K \cup {k}) = Grow(Rest(H, K), s, k, d)
  BY <1>2, GrowInside
<1>5. \A h \in J : h = Joint(d, Half, {s}, {k}) \/ \E j \in H : h = JointWith(j, s, k)
  BY DEF Grow
<1>6. \A h \in J : h \in AllJoints /\ h.one \subseteq 1 .. k /\ h.two \subseteq 1 .. k
  <2> SUFFICES ASSUME NEW h \in J PROVE h \in AllJoints /\ h.one \subseteq 1 .. k /\ h.two \subseteq 1 .. k
    OBVIOUS
  <2>1. CASE h = Joint(d, Half, {s}, {k})
    <3>1. {s} \subseteq 1 .. k /\ {k} \subseteq 1 .. k /\ {s} \in SUBSET Sessions /\ {k} \in SUBSET Sessions /\ Half \in Ratios \cup {Half}
      BY <1>1
    <3>2. QED
      BY <2>1, <3>1 DEF Joint, AllJoints
  <2>2. CASE \E j \in H : h = JointWith(j, s, k)
    <3>1. PICK j \in H : h = JointWith(j, s, k)
      BY <2>2
    <3>2. j \in AllJoints /\ j.one \subseteq 1 .. n /\ j.two \subseteq 1 .. n
      BY DEF Grown
    <3>3. With(j.one, s, k) \subseteq 1 .. k /\ With(j.two, s, k) \subseteq 1 .. k
      BY <3>2, <1>1 DEF With
    <3>4. With(j.one, s, k) \in SUBSET Sessions /\ With(j.two, s, k) \in SUBSET Sessions
      BY <3>3, <1>1
    <3>5. QED
      BY <3>1, <3>2, <3>3, <3>4 DEF JointWith, Joint, AllJoints
  <2>3. QED
    BY <1>5, <2>1, <2>2
<1>7. Plain(J) = J
  BY PlainGrow DEF Grown
<1>8. Grown(J, k)
  BY <1>6, <1>7 DEF Grown
<1>9. ASSUME NEW m, m.session = k, m.target = s, m.direction = d PROVE Born(J, m)
  <2>1. Rest(J, (1 .. n) \cup {k}) = Grow(Rest(H, 1 .. n), s, k, d) /\ Rest(J, 1 .. n) = Rest(H, 1 .. n)
    BY <1>3, <1>4
  <2>2. 1 .. k = (1 .. n) \cup {k}
    BY <1>1, Below1
  <2>3. QED
    BY <1>1, <1>9, <2>1, <2>2 DEF Born
<1> HIDE DEF J
<1>10. /\ Grown(J, k) /\ \A K \in SUBSET (1 .. n) : Rest(J, K) = Rest(H, K)
       /\ \A K \in SUBSET (1 .. n) : s \in K => Rest(J, K \cup {k}) = Grow(Rest(H, K), s, k, d)
       /\ \A m : m.session = k /\ m.target = s /\ m.direction = d => Born(J, m)
  BY <1>3, <1>4, <1>8, <1>9
<1>11. QED
  BY <1>10 DEF J, k

\* Joints put beside the others: they change none, and are alone in their own sessions.
Beside(H, J, M, n, k) ==
  /\ Grown(H \cup Plain(J), k)
  /\ \A K \in SUBSET (1 .. n) : Rest(H \cup Plain(J), K) = Rest(H, K)
  /\ Rest(H \cup Plain(J), M) = Rest(Plain(J), M)

\* Joints of new sessions, put beside, change none.
LEMMA BesideEvolves ==
  ASSUME NEW n \in Nat, NEW k \in Nat, n <= k, NEW H, Grown(H, n), NEW J \in SUBSET AllJoints, NEW M,
         M \subseteq 1 .. k, M \cap (1 .. n) = {},
         \A j \in J : j.one \subseteq M /\ j.two \subseteq M
  PROVE Beside(H, J, M, n, k)
<1> DEFINE P == Plain(J)
<1>1. 1 .. n \subseteq 1 .. k
  OBVIOUS
<1>2. Plain(H \cup Plain(J)) = H \cup Plain(J)
  BY PlainUnion, PlainPlain DEF Grown
<1>3. \A h \in Plain(J) : h \in AllJoints /\ h.one \subseteq M /\ h.two \subseteq M
  <2> SUFFICES ASSUME NEW j \in J PROVE JointPlain(j) \in AllJoints /\ JointPlain(j).one \subseteq M /\ JointPlain(j).two \subseteq M
    BY DEF Plain
  <2>1. JointPlain(j).one = j.one /\ JointPlain(j).two = j.two
    BY PlainFields
  <2>2. JointPlain(j) \in AllJoints
    BY DEF JointPlain, Joint, AllJoints
  <2>3. QED
    BY <2>1, <2>2
<1>4. Grown(H \cup Plain(J), k)
  BY <1>1, <1>2, <1>3 DEF Grown
<1>p. \A h \in P : h \in AllJoints /\ h.one \subseteq M /\ h.two \subseteq M
  BY <1>3
<1> HIDE DEF P
<1>5. ASSUME NEW K \in SUBSET (1 .. n) PROVE Rest(H \cup P, K) = Rest(H, K)
  <2>1. \A h \in P : ~Meets(h, K)
    BY <1>p DEF Meets
  <2>2. Rest(P, K) = {}
    BY <2>1 DEF Rest
  <2>3. Rest(H \cup P, K) = Rest(H, K) \cup Rest(P, K)
    BY RestUnion
  <2>4. QED
    BY <2>2, <2>3
<1>6. Rest(H \cup P, M) = Rest(P, M)
  <2>1. \A h \in H : ~Meets(h, M)
    BY DEF Meets, Grown
  <2>2. Rest(H, M) = {}
    BY <2>1 DEF Rest
  <2>3. Rest(H \cup P, M) = Rest(H, M) \cup Rest(P, M)
    BY RestUnion
  <2>4. QED
    BY <2>2, <2>3
<1>7. QED
  BY <1>4, <1>5, <1>6 DEF P, Beside

\* A graft and what is left of it in K.
GraftRests(G, J, U, K) == Rest(Graft(G, J, U), K) = Graft(Rest(G, K), J, U)

\* A graft may be made before or after panes are closed.
LEMMA GraftRested ==
  ASSUME NEW G, NEW J, NEW U, NEW K, U \subseteq K PROVE GraftRests(G, J, U, K)
<1>1. Rest(Graft(G, J, U), K) = Graft(Rest(G, K), J, U)
  BY GraftKept
<1>2. QED
  BY <1>1 DEF GraftRests

\* A later split is told of by the grafted joints too.
LEMMA BornGrafted ==
  ASSUME NEW G, NEW J, NEW U, NEW m, m.session \in Nat, m.session # 0, U \subseteq 1 .. m.session - 1, Born(G, m)
  PROVE Born(Graft(G, J, U), m)
<1> DEFINE n == m.session
           s == m.target
           d == m.direction
           X == Rest(G, 1 .. n - 1)
<1>1. U \subseteq 1 .. n /\ U \subseteq 1 .. n - 1 /\ n \notin U
  OBVIOUS
<1>2. Rest(G, 1 .. n) = Grow(X, s, n, d)
  BY DEF Born
<1>g. GraftRests(G, J, U, 1 .. n) /\ GraftRests(G, J, U, 1 .. n - 1)
  BY <1>1, GraftRested
<1>3. Rest(Graft(G, J, U), 1 .. n) = Graft(Rest(G, 1 .. n), J, U)
  BY <1>g DEF GraftRests
<1>4. Rest(Graft(G, J, U), 1 .. n - 1) = Graft(X, J, U)
  BY <1>g DEF GraftRests
<1> HIDE DEF n, s, d, X
<1>5. Graft(Grow(X, s, n, d), J, U) = Grow(Graft(X, J, U), s, n, d)
  BY <1>1, GraftGrow
<1>6. Rest(Graft(G, J, U), 1 .. n) = Grow(Rest(Graft(G, J, U), 1 .. n - 1), s, n, d)
  BY <1>2, <1>3, <1>4, <1>5
<1>7. QED
  BY <1>6 DEF Born, n, s, d
=============================================================================
