-------------------------- MODULE MCSessionStream ---------------------------
(* SessionStream for TLC: the connections are interchangeable. *)
EXTENDS SessionStream, TLC

Symmetry == Permutations(Clients)
=============================================================================
