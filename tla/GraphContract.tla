---------------------------- MODULE GraphContract ----------------------------
(***************************************************************************)
(* What DependencyGraph promises to its clients once check() has returned  *)
(* true (DependencyGraph.hh).  The clients (DependencyEvaluator and what   *)
(* is built on it) see a graph as a record of the tables its accessors     *)
(* return:                                                                 *)
(*   deps      getDirectDependencies: a list for every item                *)
(*   rdeps     getReverseDependencies: a list for every item               *)
(*   in_order  getSortedGraph: all the items in dependency order           *)
(* DependencyGraph is shown to deliver it; the clients assume it.          *)
(***************************************************************************)
EXTENDS Integers, Sequences, FiniteSets

\* The items that occur in a list.
Elems(list) == {list[n] : n \in DOMAIN list}

\* Every item stands at exactly one place of the order.
Enumerates(order, items) ==
  /\ order \in Seq(items)
  /\ \A i \in items : \E n \in DOMAIN order : order[n] = i
  /\ \A m, n \in DOMAIN order : order[m] = order[n] => m = n

\* Whatever stands at a place has its dependencies at earlier places.
DependenciesFirst(order, deps) ==
  \A n \in DOMAIN order : \A d \in Elems(deps[order[n]]) :
    \E m \in DOMAIN order : m < n /\ order[m] = d

\* rdeps holds the edges of deps, reversed.
Reverses(rdeps, deps, items) ==
  \A i, j \in items : j \in Elems(rdeps[i]) <=> i \in Elems(deps[j])

\* The contract of a checked, error-free graph over a set of items.
CheckedGraph(g, items) ==
  /\ g.deps \in [items -> Seq(items)]
  /\ g.rdeps \in [items -> Seq(items)]
  /\ Enumerates(g.in_order, items)
  /\ DependenciesFirst(g.in_order, g.deps)
  /\ Reverses(g.rdeps, g.deps, items)
=============================================================================
