---------------------------- MODULE SmallGraphs ----------------------------
(* The checked graphs over 3 or 4 items that the model-checked instances   *)
(* use, with each dependency list in every order.                          *)
EXTENDS GraphContract, SequencesExt

CONSTANT Size   \* number of items, 3 or 4

MCItems == 1..Size

\* Dependency lists over the first items, without repetitions.
ListsOver(k) ==
  UNION {{s \in [1..n -> 1..k] : IsInjective(s)} : n \in 0..k}

Orders == {o \in [1..Size -> MCItems] : IsInjective(o)}

\* The converse table, filled item by item in lexical order.
Converse(deps) ==
  [i \in MCItems |->
     SetToSortSeq({j \in MCItems : i \in Elems(deps[j])}, <)]

\* Graphs in which the order of the names is a dependency order ...
NaturallyOrdered ==
  IF Size = 3 THEN ListsOver(0) \X ListsOver(1) \X ListsOver(2)
  ELSE ListsOver(0) \X ListsOver(1) \X ListsOver(2) \X ListsOver(3)

\* ... and the same graphs with the items renamed.
Renamed(deps, o) ==
  [i \in MCItems |->
     LET list == deps[CHOOSE k \in MCItems : o[k] = i]
     IN [n \in DOMAIN list |-> o[list[n]]]]

AcyclicDeps == {Renamed(deps, o) : deps \in NaturallyOrdered, o \in Orders}

\* All of them, under all names.
MCGraphs ==
  {[deps |-> deps, rdeps |-> Converse(deps),
    in_order |-> CHOOSE o \in Orders : DependenciesFirst(o, deps)] :
     deps \in AcyclicDeps}

\* One of each shape: the names only decide the order in which reverse
\* dependencies are evaluated.
Shapes ==
  {[deps |-> deps, rdeps |-> Converse(deps), in_order |-> [n \in MCItems |-> n]] :
     deps \in NaturallyOrdered}
=============================================================================
