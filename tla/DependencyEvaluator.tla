------------------------- MODULE DependencyEvaluator -------------------------
(***************************************************************************)
(* DependencyEvaluator.cc: the state of every item of a checked graph.     *)
(* Its client starts a ready item and reports how it ended; the evaluator  *)
(* then re-evaluates the reverse dependencies, recursively.                *)
(*                                                                         *)
(* The recursion of evaluate and evaluateReverseDependencies is the list   *)
(* `pending`: the items whose evaluation the active calls still owe, in    *)
(* the order in which the calls reach them.  No other operation runs       *)
(* while it is not empty.  The change callback is called exactly when an   *)
(* element of `states` changes, so it has no state of its own here.        *)
(***************************************************************************)
EXTENDS GraphContract

CONSTANTS
  Items,    \* the items of the graph, named as in DependencyGraph
  Graphs    \* the graphs the evaluator may be given

ASSUME ItemsAssumption == Items \subseteq Nat /\ IsFiniteSet(Items)
\* The constructor asserts graph.check().
ASSUME GraphsAssumption == \A g \in Graphs : CheckedGraph(g, Items)

VARIABLES graph, states, propagate_failure, num_running, pending

vars == <<graph, states, propagate_failure, num_running, pending>>

ItemState ==
  {"waiting", "ready", "running", "completed", "failed", "depfailed"}

getDirectDependencies(item) == graph.deps[item]
getReverseDependencies(item) == graph.rdeps[item]

Init ==
  /\ graph \in Graphs
  /\ states = [i \in Items |->
                 IF getDirectDependencies(i) = <<>> THEN "ready" ELSE "waiting"]
  /\ propagate_failure = TRUE
  /\ num_running = 0
  /\ pending = <<>>

\* "Must be called before changing any item states" (DependencyEvaluator.hh:57)
disableFailurePropagation ==
  /\ \A i \in Items : states[i] \in {"waiting", "ready"}
  /\ propagate_failure' = FALSE
  /\ UNCHANGED <<graph, states, num_running, pending>>

setRunning(item) ==
  /\ pending = <<>>
  /\ states[item] = "ready"
  /\ states' = [states EXCEPT ![item] = "running"]
  /\ num_running' = num_running + 1
  /\ UNCHANGED <<graph, propagate_failure, pending>>

\* Mutant: only a success re-evaluates the reverse dependencies.
setFinished_silent(item, state) ==
  /\ pending = <<>>
  /\ states[item] = "running"
  /\ states' = [states EXCEPT ![item] = state]
  /\ num_running' = num_running - 1
  /\ pending' = IF state = "completed" THEN getReverseDependencies(item) ELSE <<>>
  /\ UNCHANGED <<graph, propagate_failure>>

\* What setCompleted and setFailed share.
setFinished(item, state) ==
  /\ pending = <<>>
  /\ states[item] = "running"
  /\ states' = [states EXCEPT ![item] = state]
  /\ num_running' = num_running - 1
  /\ pending' = getReverseDependencies(item)
  /\ UNCHANGED <<graph, propagate_failure>>

setCompleted(item) == setFinished(item, "completed")
setFailed(item) == setFinished(item, "failed")

Unsuccessful(item) == states[item] \in {"failed", "depfailed"}

\* The places of the dependency list the loop of evaluate looks at: it
\* breaks at the first dependency that failed.
LookedAt(item) ==
  {n \in DOMAIN getDirectDependencies(item) :
     \A m \in 1..(n - 1) : ~Unsuccessful(getDirectDependencies(item)[m])}

DependencyFailed(item) ==
  /\ propagate_failure
  /\ \E n \in LookedAt(item) : Unsuccessful(getDirectDependencies(item)[n])

\* Mutant: one completed dependency unblocks the item.
Blocked_byAll(item) ==
  \A n \in LookedAt(item) :
    LET dep == getDirectDependencies(item)[n]
    IN ~Unsuccessful(dep) /\ states[dep] # "completed"

Blocked(item) ==
  \E n \in LookedAt(item) :
    LET dep == getDirectDependencies(item)[n]
    IN ~Unsuccessful(dep) /\ states[dep] # "completed"

\* Mutant: a failure is not passed on to indirect dependents.
evaluateItem_shallow(item) ==
  LET open == states[item] \in {"waiting", "ready"}
  IN /\ states' =
          IF open /\ DependencyFailed(item)
          THEN [states EXCEPT ![item] = "depfailed"]
          ELSE IF open /\ ~Blocked(item)
               THEN [states EXCEPT ![item] = "ready"]
               ELSE states
     /\ pending' = Tail(pending)

\* Mutant: a running item is re-evaluated like a waiting one.
evaluateItem_running(item) ==
  LET open == states[item] \in {"waiting", "ready", "running"}
  IN IF open /\ DependencyFailed(item)
     THEN /\ states' = [states EXCEPT ![item] = "depfailed"]
          /\ pending' = getReverseDependencies(item) \o Tail(pending)
     ELSE /\ states' = IF open /\ ~Blocked(item)
                       THEN [states EXCEPT ![item] = "ready"] ELSE states
          /\ pending' = Tail(pending)

\* evaluate(): an item that is waiting or ready gets the state its
\* dependencies call for; a failure goes on to its reverse dependencies.
evaluateItem(item) ==
  LET rest == Tail(pending)
      open == states[item] \in {"waiting", "ready"}
  IN \/ /\ open
        /\ DependencyFailed(item)
        /\ states' = [states EXCEPT ![item] = "depfailed"]
        /\ pending' = getReverseDependencies(item) \o rest
     \/ /\ open
        /\ ~DependencyFailed(item)
        /\ ~Blocked(item)
        /\ states' = [states EXCEPT ![item] = "ready"]
        /\ pending' = rest
     \/ /\ ~open \/ (~DependencyFailed(item) /\ Blocked(item))
        /\ states' = states
        /\ pending' = rest

evaluate ==
  /\ pending # <<>>
  /\ evaluateItem(Head(pending))
  /\ UNCHANGED <<graph, propagate_failure, num_running>>

\* The first ready item in dependency order.
nextReadyItem(item) ==
  \E n \in DOMAIN graph.in_order :
    /\ graph.in_order[n] = item
    /\ states[item] = "ready"
    /\ \A m \in 1..(n - 1) : states[graph.in_order[m]] # "ready"

Finished == {"completed", "failed"}
Terminal == Finished \cup {"depfailed"}

\* Nothing is left to do; a client that waits for more would wait for ever.
AllTerminal ==
  /\ pending = <<>>
  /\ \A i \in Items : states[i] \in Terminal
  /\ UNCHANGED vars

Next ==
  \/ disableFailurePropagation
  \/ \E item \in Items : setRunning(item)
  \/ \E item \in Items : setCompleted(item)
  \/ \E item \in Items : setFailed(item)
  \/ evaluate
  \/ AllTerminal

Spec == Init /\ [][Next]_vars

-----------------------------------------------------------------------------
(* Properties *)

TypeOK ==
  /\ CheckedGraph(graph, Items)
  /\ states \in [Items -> ItemState]
  /\ propagate_failure \in BOOLEAN
  /\ num_running \in Nat
  /\ pending \in Seq(Items)

Deps(item) == Elems(getDirectDependencies(item))

\* "An item's state is ready when all of its dependencies have state
\* completed" (DependencyEvaluator.hh:8-9), and no item is run before:
\* whatever has got past waiting, without having been skipped, has only
\* completed dependencies, at every point of a re-evaluation.
RunAfterDependencies ==
  propagate_failure =>
    \A i \in Items :
      states[i] \in {"ready", "running", "completed", "failed"} =>
        \A d \in Deps(i) : states[d] = "completed"

\* Once a re-evaluation is over, the states are those the header defines,
\* for every item and not only for the ones that were re-evaluated: waiting
\* exactly when a dependency is unfinished and none failed, depfailed
\* exactly when a dependency is failed or depfailed.
StatesAsDocumented ==
  (propagate_failure /\ pending = <<>>) =>
    \A i \in Items :
      /\ states[i] = "depfailed" <=> \E d \in Deps(i) : Unsuccessful(d)
      /\ states[i] = "waiting" <=>
           /\ \A d \in Deps(i) : ~Unsuccessful(d)
           /\ \E d \in Deps(i) : states[d] # "completed"

\* num_running is kept as a counter beside the states ("we can keep
\* num_running as a count rather than counting", DependencyEvaluator.cc:126);
\* the two agree.
NumRunningExact ==
  num_running = Cardinality({i \in Items : states[i] = "running"})

\* Whenever no item is ready or running, every item has reached a final
\* state, with and without failure propagation.  This is what lets
\* DependencyRunner stop as soon as it has nothing to run.
NothingStranded ==
  (pending = <<>> /\ \A i \in Items : states[i] \notin {"ready", "running"}) =>
    \A i \in Items : states[i] \in Terminal

\* A final state is final and an item that is ready is never taken back:
\* a re-evaluation caused by one dependency does not undo what another did,
\* and an item is run once at most.
StatesAdvance ==
  [][\A i \in Items :
       /\ states[i] \in Terminal => states'[i] = states[i]
       /\ states[i] = "ready" => states'[i] \in {"ready", "running"}
       /\ states[i] = "running" => states'[i] \in {"running"} \cup Finished]_vars
=============================================================================
