----------------------------- MODULE LayoutTree -----------------------------
(***************************************************************************)
(* A tab's layout, twice: the tree of tabs.go with its recursive           *)
(* functions, and the page's tree of elements (app.js), which is edited in *)
(* place through parents.  The latter is the set of its nodes, each with   *)
(* its position: the path of 1s (first) and 2s (second) from the root.     *)
(***************************************************************************)
EXTENDS Integers, Sequences, FiniteSets, SequencesExt

CONSTANTS
  Directions,  \* "vertical", "horizontal"
  Ratios,      \* where a handle can be dragged to
  MaxSessions  \* bound: sessions made

ASSUME TreeAssumption == Directions # {} /\ MaxSessions \in Nat \ {0}

Sessions == 1 .. MaxSessions

\* The ratio of a new split.
Half == 50

Pane(s) == [type |-> "pane", session |-> s]
Split(d, r, a, b) == [type |-> "split", direction |-> d, ratio |-> r, first |-> a, second |-> b]

\* The trees with splits in at most n levels.
Level[n \in Nat] ==
  LET parts == IF n = 0 THEN {} ELSE Level[n - 1] IN
  [type : {"pane"}, session : Sessions]
    \cup [type : {"split"}, direction : Directions, ratio : Ratios \cup {Half}, first : parts, second : parts]

\* bound: enough for a pane of every session
Layouts == Level[MaxSessions]

-----------------------------------------------------------------------------
(* The server's tree. *)

SessionIDs(t) ==
  LET ids[u \in Layouts] == IF u.type = "pane" THEN <<u.session>> ELSE ids[u.first] \o ids[u.second]
  IN ids[t]

HasSession(t, s) == s \in ToSet(SessionIDs(t))

Count(seq, x) == Cardinality({i \in DOMAIN seq : seq[i] = x})

\* Mutant: sessions may have several panes.
LayoutMatchesSessionSet_Set(t, expected) == ToSet(SessionIDs(t)) = ToSet(expected)

\* Mutant: only the number of sessions counts.
LayoutMatchesSessionSet_Number(t, expected) == Cardinality(ToSet(SessionIDs(t))) = Len(expected)

\* Exactly the expected sessions, each in one pane.
LayoutMatchesSessionSet(t, expected) ==
  LET ids == SessionIDs(t) IN
  /\ Cardinality(ToSet(ids)) = Len(expected)
  /\ \A s \in ToSet(expected) : Count(ids, s) = 1

\* The first pane of s becomes a split of it and a pane of the new session n.
SplitLayoutNode(t, s, n, d) ==
  LET split[u \in Layouts] ==
        CASE u = Pane(s) -> Split(d, Half, u, Pane(n))
          [] u.type = "pane" /\ u # Pane(s) -> u
          [] u.type = "split" ->
               IF HasSession(u.first, s) THEN [u EXCEPT !.first = split[@]] ELSE [u EXCEPT !.second = split[@]]
  IN split[t]

\* The sibling of the pane takes the place of their split; a root pane stays.
ClosePaneInLayout(t, s) ==
  LET close[u \in Layouts] ==
        CASE u.type = "pane" -> u
          [] u.type = "split" /\ u.first = Pane(s) -> u.second
          [] u.type = "split" /\ u.first # Pane(s) /\ u.second = Pane(s) -> u.first
          [] OTHER ->
               IF HasSession(u.first, s) THEN [u EXCEPT !.first = close[@]] ELSE [u EXCEPT !.second = close[@]]
  IN close[t]

\* A copy with every session replaced.
ReplaceAllSessions(t, mapping) ==
  LET copy[u \in Layouts] ==
        IF u.type = "pane" THEN Pane(mapping[u.session])
        ELSE [u EXCEPT !.first = copy[@], !.second = copy[@]]
  IN copy[t]

-----------------------------------------------------------------------------
(* The page's tree. *)

Node(p, l) == [path |-> p, label |-> l]
IsPane(x) == x.label.type = "pane"

\* A page that shows nothing.
Blank == {}

ReconstructLayout(t) ==
  LET nodes[u \in Layouts] ==
        IF u.type = "pane" THEN {Node(<<>>, u)}
        ELSE {Node(<<>>, [type |-> "split", direction |-> u.direction, ratio |-> u.ratio])}
               \cup {Node(<<1>> \o x.path, x.label) : x \in nodes[u.first]}
               \cup {Node(<<2>> \o x.path, x.label) : x \in nodes[u.second]}
  IN nodes[t]

LabelAt(nodes, p) == (CHOOSE x \in nodes : x.path = p).label

\* From the root; at[p] is the part of the tree at p.
SerializeTree(nodes) ==
  LET at[p \in {x.path : x \in nodes}] ==
        LET l == LabelAt(nodes, p) IN
        IF l.type = "pane" THEN l ELSE Split(l.direction, l.ratio, at[p \o <<1>>], at[p \o <<2>>])
  IN at[<<>>]

Panes(nodes) == {x \in nodes : IsPane(x)}
PanesOf(nodes, s) == {x \in nodes : x.label = Pane(s)}

\* The order of walkLeaves.
Before(p, q) == \E i \in DOMAIN p \cap DOMAIN q : p[i] < q[i] /\ \A j \in 1 .. i - 1 : p[j] = q[j]

FindPaneBySessionID(nodes, s) ==
  CHOOSE x \in PanesOf(nodes, s) : \A y \in PanesOf(nodes, s) : x = y \/ Before(y.path, x.path)

\* The pane of target is wrapped in a split together with a new pane.
ApplySplit(nodes, target, new, d) ==
  IF PanesOf(nodes, target) = {} THEN nodes
  ELSE LET p == FindPaneBySessionID(nodes, target).path IN
       (nodes \ {Node(p, Pane(target))})
         \cup {Node(p, [type |-> "split", direction |-> d, ratio |-> Half]),
               Node(p \o <<1>>, Pane(target)), Node(p \o <<2>>, Pane(new))}

\* The sibling moves up into the place of the pane's parent; the last pane
\* gives way to the server's layout.
ApplyClosePane(nodes, s, layout) ==
  IF PanesOf(nodes, s) = {} THEN nodes
  ELSE LET p == FindPaneBySessionID(nodes, s).path IN
       IF p = <<>> THEN ReconstructLayout(layout)
       ELSE LET parent == Front(p)
                sibling == parent \o <<3 - Last(p)>>
                Lifted(q) == parent \o SubSeq(q, Len(sibling) + 1, Len(q)) IN
            {x \in nodes : ~IsPrefix(parent, x.path)}
              \cup {Node(Lifted(x.path), x.label) : x \in {y \in nodes : IsPrefix(sibling, y.path)}}

SetRatio(nodes, p, r) == {IF x.path = p THEN [x EXCEPT !.label.ratio = r] ELSE x : x \in nodes}

Splits(nodes) == {x.path : x \in nodes \ Panes(nodes)}

\* Which panes there are and where, leaving the ratios aside.
Shape(nodes) ==
  {IF IsPane(x) THEN x ELSE Node(x.path, [type |-> "split", direction |-> x.label.direction]) : x \in nodes}
=============================================================================
