---------------------------- MODULE MCBleCentral ----------------------------
(* Small instances of BleCentral; the nodes are interchangeable. *)
EXTENDS BleCentral, TLC

Symmetry == Permutations(Node)
=============================================================================
