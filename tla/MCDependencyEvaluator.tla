------------------------ MODULE MCDependencyEvaluator ------------------------
(* Every acyclic graph over four items, with each dependency list in every *)
(* order (evaluate stops looking at the first failed dependency, so the    *)
(* order matters).                                                         *)
EXTENDS DependencyEvaluator, SmallGraphs
=============================================================================
