---------------------------- MODULE BuildSchedule ----------------------------
(***************************************************************************)
(* What a parallel build promises, without saying how it is organised      *)
(* (DependencyRunner.hh): at most num_workers items are processed at a     *)
(* time, each at most once, only after its dependencies succeeded; an item *)
(* one of whose dependencies did not succeed is skipped; the build returns *)
(* when nothing is being processed and either everything is decided or it  *)
(* was to stop at the first error and there was one.                       *)
(* Without failure propagation nothing is skipped, and an item may start   *)
(* when all its dependencies have ended or one of them has failed.         *)
(***************************************************************************)
EXTENDS GraphContract

CONSTANTS Items, Graphs, num_workers

VARIABLES
  graph,
  stop_on_first_error, propagate_failure,   \* the arguments
  executing,   \* the items being processed
  outcome,     \* "none", "succeeded", "failed" or "skipped", by item
  returned

vars == <<graph, stop_on_first_error, propagate_failure, executing, outcome, returned>>

Init ==
  /\ graph \in Graphs
  /\ stop_on_first_error \in BOOLEAN
  /\ propagate_failure \in BOOLEAN
  /\ executing = {}
  /\ outcome = [i \in Items |-> "none"]
  /\ returned = FALSE

Deps(i) == Elems(graph.deps[i])

MayStart(i) ==
  \/ \A d \in Deps(i) : outcome[d] = "succeeded"
  \/ /\ ~propagate_failure
     /\ \/ \A d \in Deps(i) : outcome[d] # "none"
        \/ \E d \in Deps(i) : outcome[d] = "failed"

Start(i) ==
  /\ ~returned
  /\ i \notin executing
  /\ outcome[i] = "none"
  /\ MayStart(i)
  /\ Cardinality(executing) < num_workers
  /\ executing' = executing \cup {i}
  /\ UNCHANGED <<graph, stop_on_first_error, propagate_failure, outcome,
                 returned>>

Finish(i, result) ==
  /\ i \in executing
  /\ executing' = executing \ {i}
  /\ outcome' = [outcome EXCEPT ![i] = result]
  /\ UNCHANGED <<graph, stop_on_first_error, propagate_failure, returned>>

Skip(i) ==
  /\ ~returned
  /\ propagate_failure
  /\ i \notin executing
  /\ outcome[i] = "none"
  /\ \E d \in Deps(i) : outcome[d] \in {"failed", "skipped"}
  /\ outcome' = [outcome EXCEPT ![i] = "skipped"]
  /\ UNCHANGED <<graph, stop_on_first_error, propagate_failure, executing,
                 returned>>

Return ==
  /\ executing = {}
  /\ \/ \A i \in Items : outcome[i] # "none"
     \/ stop_on_first_error /\ \E i \in Items : outcome[i] = "failed"
  /\ returned' = TRUE
  /\ UNCHANGED <<graph, stop_on_first_error, propagate_failure, executing,
                 outcome>>

Next ==
  \/ \E i \in Items : Start(i)
  \/ \E i \in Items, result \in {"succeeded", "failed"} : Finish(i, result)
  \/ \E i \in Items : Skip(i)
  \/ Return

Spec == Init /\ [][Next]_vars
=============================================================================
