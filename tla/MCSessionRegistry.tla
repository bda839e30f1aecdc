-------------------------- MODULE MCSessionRegistry -------------------------
(* Two handlers at work on one tab. *)
EXTENDS SessionRegistry, TLC

CONSTANTS w1, w2, tab1

\* The workers are interchangeable.
Symmetry == Permutations({w1, w2})
=============================================================================
