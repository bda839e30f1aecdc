---------------------------- MODULE MCLayoutSync ----------------------------
(* Two connections: of a page that reconnects, or of two pages with one tab. *)
EXTENDS LayoutSync

CONSTANTS page1, page2, c1, c2

Symmetry == Permutations({c1, c2}) \cup Permutations({page1, page2})
=============================================================================
