---------------------------- MODULE MCTraversal ----------------------------
(* Model-checking instance of Traversal: one relationship class, one node  *)
(* class, two interchangeable start nodes, depths from -1 (rejected) to 1. *)
EXTENDS Traversal, TLC

CONSTANTS R1, NT1, n1, n2

MCRelTypes == {R1}
MCNodeTypes == {NT1}
MCNodes == {n1, n2}
MCDepthInputs == -1..1
MCMaxTraversals == 4
MCMaxStartNodes == 1

MCSymmetry == Permutations(MCNodes)
=============================================================================
