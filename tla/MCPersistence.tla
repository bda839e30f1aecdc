--------------------------- MODULE MCPersistence ----------------------------
\* Instances of Persistence: one tab, for tabs meet only in state.json, which holds
\* all of them, and what happens to one does not depend on another.  With one name
\* its session only comes and goes; with two its layout changes.
EXTENDS Persistence, Naturals

CONSTANTS t, a, b
OneTab == {t}
OneName == {a}
TwoNames == {a, b}

\* Bounds: names are taken in their order.  With one session, two of the three
\* goroutines save at a time; with two, one, and nothing is past the clean-up
\* window.
Saves == Cardinality({w \in Savers : stage[w] # "idle"})
Unaged ==
  /\ \A f \in {sessions, tabs, file.state.sessions, file.state.tabs} :
       \A x \in DOMAIN f : f[x] # "old"
  /\ aged = {}
Bounds ==
  \/ used \subseteq {<<t, a>>} /\ Saves <= 2
  \/ <<t, a>> \in used /\ Saves <= 1 /\ Unaged
=============================================================================
