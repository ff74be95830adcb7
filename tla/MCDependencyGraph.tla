-------------------------- MODULE MCDependencyGraph --------------------------
(* Model-checking instance of DependencyGraph. *)
EXTENDS DependencyGraph, TLC

Symmetry == Permutations(FunctionNode)

Spec == GraphSpec
==============================================================================
