------------------------- MODULE MCDependencyRunner -------------------------
(* All shapes of graphs over three items and two workers.                  *)
EXTENDS DependencyRunner, SmallGraphs

AllOptions ==
  [stop_on_first_error : BOOLEAN, disable_failure_propagation : BOOLEAN]
=============================================================================
