-------------------------- MODULE MCCmdDispatcher ---------------------------
(* Small instances of CmdDispatcher; the nodes are interchangeable. *)
EXTENDS CmdDispatcher, TLC

Symmetry == Permutations(Node)
=============================================================================
