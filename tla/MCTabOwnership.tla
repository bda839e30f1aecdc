--------------------------- MODULE MCTabOwnership ---------------------------
(* Two pages: the first loses its connection and comes back, the second
   opens the same tab. *)
EXTENDS TabOwnership, TLC

CONSTANTS page1, page2, c1, c2, c3, pane1, pane2

MCPageOf == (c1 :> page1) @@ (c2 :> page1) @@ (c3 :> page2) @@ (pane1 :> page1) @@ (pane2 :> page2)

\* The connections of the first page are interchangeable.
Symmetry == Permutations({c1, c2})
=============================================================================
