--------------------------- MODULE DependencyGraph ---------------------------
(***************************************************************************)
(* DependencyGraph.cc: a client adds items and dependencies, then calls    *)
(* check(), which sorts the graph topologically from every item, collects  *)
(* unknown items and cycles, and builds the table of reverse dependencies. *)
(* getIndependentSets() then splits an error-free graph into its connected *)
(* parts.                                                                  *)
(*                                                                         *)
(* Item names are positive naturals that stand for the strings in lexical  *)
(* order; Root (0) is the empty string, which sorts before every name.     *)
(* The recursion of traverseInternal is an explicit stack: `path` holds    *)
(* one frame per active call, with the item of the call and the index of   *)
(* the next neighbor, so the set `visiting` of the code is the set of the  *)
(* items on the path.  unknowns_seen and cycles_seen are the errors        *)
(* already recorded.                                                       *)
(***************************************************************************)
EXTENDS GraphContract

CONSTANTS
  Names,     \* the names a client may use for items and dependencies
  MaxEdges   \* bound on the addDependency calls, by the number of names in use

ASSUME NamesAssumption == Names \subseteq Nat \ {0}
ASSUME MaxEdgesAssumption == MaxEdges \in [1..Cardinality(Names) -> Nat]

VARIABLES
  graph_state,           \* "gs_INIT", "gs_ERROR" or "gs_READY"
  dependencies,          \* the lists of direct dependencies, by item
  reverse_dependencies,  \* the lists of reverse dependencies
  sorted_dependencies,   \* the expanded dependencies, by item
  in_order,              \* the sort of the whole graph
  unknowns,              \* unknown dependencies, by known item
  cycles,                \* the list of cycles
  independent_sets,      \* result of getIndependentSets
  pc,                    \* what the client or the running call does next
  todo,                  \* keys a loop over a map has still to reach
  path,                  \* stack of traverseInternal calls
  visited, result,       \* local to one traverse()
  nodes, set_numbers, next_set  \* local to getIndependentSets

client == <<graph_state, dependencies, reverse_dependencies>>
outputs == <<sorted_dependencies, in_order>>
errors == <<unknowns, cycles>>
traversal == <<path, visited, result>>
partition == <<independent_sets, nodes, set_numbers, next_set>>
vars == <<client, outputs, errors, traversal, partition, pc, todo>>

Root == 0
Items == DOMAIN dependencies \ {Root}

\* map[key] = value, in a map that may or may not have the key
Put(map, key, value) ==
  [k \in DOMAIN map \cup {key} |-> IF k = key THEN value ELSE map[k]]

\* map[key], which operator[] creates as an empty list
ListAt(map, key) == IF key \in DOMAIN map THEN map[key] ELSE <<>>

EmptyMap == [k \in {} |-> <<>>]

\* The next key an iterator over a std::map reaches.
IsNext(key) == key \in todo /\ \A k \in todo : key <= k

Init ==
  /\ graph_state = "gs_INIT"
  /\ dependencies = EmptyMap
  /\ reverse_dependencies = EmptyMap
  /\ sorted_dependencies = EmptyMap
  /\ in_order = <<>>
  /\ unknowns = EmptyMap
  /\ cycles = <<>>
  /\ independent_sets = <<>>
  /\ pc = "build"
  /\ todo = {}
  /\ path = <<>>
  /\ visited = {}
  /\ result = <<>>
  /\ nodes = <<>>
  /\ set_numbers = EmptyMap
  /\ next_set = 0

-----------------------------------------------------------------------------
(* Building the graph *)

\* The calls of addDependency so far, and the names known from all calls.
Edges == UNION {{i} \X DOMAIN dependencies[i] : i \in DOMAIN dependencies}
InUse ==
  DOMAIN dependencies \cup UNION {Elems(dependencies[i]) : i \in DOMAIN dependencies}

addItem(item) ==
  /\ pc = "build"
  /\ item \notin DOMAIN dependencies
  /\ Cardinality(Edges) <= MaxEdges[Cardinality(InUse \cup {item})]
  /\ graph_state' = "gs_INIT"
  /\ dependencies' = Put(dependencies, item, <<>>)
  /\ reverse_dependencies' = Put(reverse_dependencies, item, <<>>)
  /\ UNCHANGED <<outputs, errors, traversal, partition, pc, todo>>

addDependency(item, dep) ==
  /\ pc = "build"
  /\ item \in DOMAIN dependencies
  /\ Cardinality(Edges) < MaxEdges[Cardinality(InUse \cup {dep})]
  /\ graph_state' = "gs_INIT"
  /\ dependencies' = [dependencies EXCEPT ![item] = Append(@, dep)]
  /\ UNCHANGED <<reverse_dependencies, outputs, errors, traversal, partition,
                 pc, todo>>

-----------------------------------------------------------------------------
(* check(): first the item Root, which depends on every other item.        *)

checkBegin ==
  /\ pc = "build"
  /\ graph_state = "gs_INIT"
  /\ dependencies' = Put(dependencies, Root, <<>>)
  /\ todo' = DOMAIN dependencies
  /\ pc' = "collect"
  /\ UNCHANGED <<graph_state, reverse_dependencies, outputs, errors,
                 traversal, partition>>

collect(item) ==
  /\ pc = "collect"
  /\ IsNext(item)
  /\ dependencies' = [dependencies EXCEPT ![Root] = Append(@, item)]
  /\ todo' = todo \ {item}
  /\ UNCHANGED <<graph_state, reverse_dependencies, outputs, errors,
                 traversal, partition, pc>>

collected ==
  /\ pc = "collect"
  /\ todo = {}
  /\ todo' = DOMAIN dependencies
  /\ pc' = "sort"
  /\ UNCHANGED <<client, outputs, errors, traversal, partition>>

-----------------------------------------------------------------------------
(* topologicalSort(): one traverse() per item, in lexical order.           *)

Frame(item) == [item |-> item, next |-> 1]
Top == path[Len(path)]
visiting == {path[n].item : n \in DOMAIN path}

\* Mutant: visited is shared by the traversals.
traverse_shared(item) ==
  /\ pc = "sort"
  /\ IsNext(item)
  /\ path = <<>>
  /\ path' = <<Frame(item)>>
  /\ result' = <<>>
  /\ UNCHANGED <<client, outputs, errors, visited, partition, pc, todo>>

\* topologicalSort calls traverse, which calls traverseInternal.
traverse(item) ==
  /\ pc = "sort"
  /\ IsNext(item)
  /\ path = <<>>
  /\ path' = <<Frame(item)>>
  /\ visited' = {}
  /\ result' = <<>>
  /\ UNCHANGED <<client, outputs, errors, partition, pc, todo>>

\* The call at the top of the stack turns to its next neighbor.
AtNeighbor(neighbor) ==
  /\ pc = "sort"
  /\ path # <<>>
  /\ Top.next \in DOMAIN dependencies[Top.item]
  /\ neighbor = dependencies[Top.item][Top.next]

\* The stack after the top call is back from, or calls, a neighbor.
Advanced == [path EXCEPT ![Len(path)].next = @ + 1]

\* Mutant: the unknown item is not recorded.
unknownNeighbor_forgotten(neighbor) ==
  /\ AtNeighbor(neighbor)
  /\ neighbor \notin DOMAIN dependencies
  /\ path' = Advanced
  /\ UNCHANGED <<client, outputs, errors, visited, result, partition, pc, todo>>

unknownNeighbor(neighbor) ==
  /\ AtNeighbor(neighbor)
  /\ neighbor \notin DOMAIN dependencies
  /\ LET seen == ListAt(unknowns, Top.item)
     IN unknowns' = IF neighbor \in Elems(seen) THEN unknowns
                    ELSE Put(unknowns, Top.item, Append(seen, neighbor))
  /\ path' = Advanced
  /\ UNCHANGED <<client, outputs, cycles, visited, result, partition, pc, todo>>

visitedNeighbor(neighbor) ==
  /\ AtNeighbor(neighbor)
  /\ neighbor \in visited
  /\ path' = Advanced
  /\ UNCHANGED <<client, outputs, errors, visited, result, partition, pc, todo>>

\* The items of the path from a given item on.
PathFrom(item) ==
  LET first == CHOOSE n \in DOMAIN path : path[n].item = item
  IN [k \in 1..(Len(path) - first + 1) |-> path[first + k - 1].item]

\* Mutant: the cycle as it was found.
Canonical_unrotated(cycle) == cycle

\* The cycle rotated so that the item that sorts first comes first.
Canonical(cycle) ==
  LET min == CHOOSE n \in DOMAIN cycle :
               \A m \in DOMAIN cycle : cycle[n] <= cycle[m]
  IN [k \in DOMAIN cycle |-> cycle[((k + min - 2) % Len(cycle)) + 1]]

\* Mutant: only one cycle is kept.
cycleNeighbor_single(neighbor) ==
  /\ AtNeighbor(neighbor)
  /\ neighbor \notin visited
  /\ neighbor \in visiting
  /\ cycles' = IF cycles # <<>> THEN cycles
               ELSE <<Canonical(PathFrom(neighbor))>>
  /\ path' = Advanced
  /\ UNCHANGED <<client, outputs, unknowns, visited, result, partition, pc,
                 todo>>

cycleNeighbor(neighbor) ==
  /\ AtNeighbor(neighbor)
  /\ neighbor \notin visited
  /\ neighbor \in visiting
  /\ LET cycle == Canonical(PathFrom(neighbor))
     IN cycles' = IF cycle \in Elems(cycles) THEN cycles
                  ELSE Append(cycles, cycle)
  /\ path' = Advanced
  /\ UNCHANGED <<client, outputs, unknowns, visited, result, partition, pc,
                 todo>>

enterNeighbor(neighbor) ==
  /\ AtNeighbor(neighbor)
  /\ neighbor \in DOMAIN dependencies
  /\ neighbor \notin visited \cup visiting
  /\ path' = Append(Advanced, Frame(neighbor))
  /\ UNCHANGED <<client, outputs, errors, visited, result, partition, pc, todo>>

\* The top call has no neighbor left and returns.  The outermost call
\* returns to topologicalSort, which keeps the result for its item.
leaveItem ==
  /\ pc = "sort"
  /\ path # <<>>
  /\ Top.next \notin DOMAIN dependencies[Top.item]
  /\ path' = SubSeq(path, 1, Len(path) - 1)
  /\ visited' = visited \cup {Top.item}
  /\ result' = Append(result, Top.item)
  /\ IF Len(path) = 1
     THEN /\ sorted_dependencies' =
               Put(sorted_dependencies, Top.item, Append(result, Top.item))
          /\ todo' = todo \ {Top.item}
     ELSE UNCHANGED <<sorted_dependencies, todo>>
  /\ UNCHANGED <<client, in_order, errors, partition, pc>>

\* in_order is the sort from Root without Root itself, and Root goes away.
sorted ==
  /\ pc = "sort"
  /\ path = <<>>
  /\ todo = {}
  /\ LET all == sorted_dependencies[Root]
     IN in_order' = SubSeq(all, 1, Len(all) - 1)
  /\ dependencies' = [i \in Items |-> dependencies[i]]
  /\ sorted_dependencies' = [i \in Items |-> sorted_dependencies[i]]
  /\ todo' = Items
  /\ path' = <<>>
  /\ pc' = "reverse"
  /\ UNCHANGED <<graph_state, reverse_dependencies, errors, visited, result,
                 partition>>

-----------------------------------------------------------------------------
(* The table of reverse dependencies.  The loop over the dependencies of   *)
(* an item runs with one frame on the stack.                               *)

reverseItem(item) ==
  /\ pc = "reverse"
  /\ path = <<>>
  /\ IsNext(item)
  /\ path' = <<Frame(item)>>
  /\ UNCHANGED <<client, outputs, errors, visited, result, partition, pc, todo>>

reverseDependency ==
  /\ pc = "reverse"
  /\ path # <<>>
  /\ Top.next \in DOMAIN dependencies[Top.item]
  /\ LET dep == dependencies[Top.item][Top.next]
     IN reverse_dependencies' =
          Put(reverse_dependencies, dep,
              Append(ListAt(reverse_dependencies, dep), Top.item))
  /\ path' = Advanced
  /\ UNCHANGED <<graph_state, dependencies, outputs, errors, visited, result,
                 partition, pc, todo>>

\* Mutant: the iterator over the items is not advanced.
reverseItemDone_stuck ==
  /\ pc = "reverse"
  /\ path # <<>>
  /\ Top.next \notin DOMAIN dependencies[Top.item]
  /\ path' = <<>>
  /\ UNCHANGED <<client, outputs, errors, visited, result, partition, pc, todo>>

reverseItemDone ==
  /\ pc = "reverse"
  /\ path # <<>>
  /\ Top.next \notin DOMAIN dependencies[Top.item]
  /\ path' = <<>>
  /\ todo' = todo \ {Top.item}
  /\ UNCHANGED <<client, outputs, errors, visited, result, partition, pc>>

checkEnd ==
  /\ pc = "reverse"
  /\ path = <<>>
  /\ todo = {}
  /\ graph_state' = IF unknowns = EmptyMap /\ cycles = <<>>
                    THEN "gs_READY" ELSE "gs_ERROR"
  /\ pc' = "checked"
  /\ UNCHANGED <<dependencies, reverse_dependencies, outputs, errors,
                 traversal, partition, todo>>

-----------------------------------------------------------------------------
(* getIndependentSets(), on a graph without errors.                        *)

item_order(item) == CHOOSE n \in DOMAIN in_order : in_order[n] = item

compareItems(i1, i2) ==
  CASE item_order(i1) < item_order(i2) -> -1
    [] item_order(i1) > item_order(i2) -> 1
    [] OTHER -> 0

\* std::sort with itemLess()
SortedByOrder(items) ==
  CHOOSE list \in [1..Cardinality(items) -> items] :
    \A m, n \in DOMAIN list : m < n => compareItems(list[m], list[n]) = -1

getIndependentSets ==
  /\ pc = "checked"
  /\ graph_state = "gs_READY"
  /\ pc' = "partition"
  /\ UNCHANGED <<client, outputs, errors, traversal, partition, todo>>

\* The first node of the sort that has no set yet starts a new one.
startSet ==
  /\ pc = "partition"
  /\ nodes = <<>>
  /\ \E n \in DOMAIN in_order :
       /\ in_order[n] \notin DOMAIN set_numbers
       /\ \A m \in 1..(n - 1) : in_order[m] \in DOMAIN set_numbers
       /\ nodes' = <<in_order[n]>>
  /\ next_set' = next_set + 1
  /\ UNCHANGED <<client, outputs, errors, traversal, independent_sets,
                 set_numbers, pc, todo>>

\* Mutant: the reverse dependencies of a node are not followed.
expandNode_forward ==
  /\ pc = "partition"
  /\ nodes # <<>>
  /\ LET node == Head(nodes)
     IN IF node \in DOMAIN set_numbers
        THEN /\ nodes' = Tail(nodes)
             /\ UNCHANGED set_numbers
        ELSE /\ set_numbers' = Put(set_numbers, node, next_set - 1)
             /\ nodes' = Tail(nodes) \o dependencies[node]
  /\ UNCHANGED <<client, outputs, errors, traversal, independent_sets,
                 next_set, pc, todo>>

\* The node at the front joins the set and queues its neighbors both ways.
expandNode ==
  /\ pc = "partition"
  /\ nodes # <<>>
  /\ LET node == Head(nodes)
     IN IF node \in DOMAIN set_numbers
        THEN /\ nodes' = Tail(nodes)
             /\ UNCHANGED set_numbers
        ELSE /\ set_numbers' = Put(set_numbers, node, next_set - 1)
             /\ nodes' = Tail(nodes) \o dependencies[node]
                                     \o reverse_dependencies[node]
  /\ UNCHANGED <<client, outputs, errors, traversal, independent_sets,
                 next_set, pc, todo>>

gatherSets ==
  /\ pc = "partition"
  /\ nodes = <<>>
  /\ DOMAIN set_numbers = Elems(in_order)
  /\ independent_sets' =
       [s \in 1..next_set |->
          SortedByOrder({i \in DOMAIN set_numbers : set_numbers[i] = s - 1})]
  /\ pc' = "done"
  /\ UNCHANGED <<client, outputs, errors, traversal, nodes, set_numbers,
                 next_set, todo>>

\* The client has its answer: an error report, or the independent sets.
finished ==
  /\ pc = "done" \/ (pc = "checked" /\ graph_state = "gs_ERROR")
  /\ UNCHANGED vars

-----------------------------------------------------------------------------

visitNeighbor ==
  \E neighbor \in Names :
    \/ unknownNeighbor(neighbor)
    \/ visitedNeighbor(neighbor)
    \/ cycleNeighbor(neighbor)
    \/ enterNeighbor(neighbor)

Run ==
  \/ \E item \in Names : collect(item)
  \/ collected
  \/ \E item \in Names \cup {Root} : traverse(item)
  \/ visitNeighbor
  \/ leaveItem
  \/ sorted
  \/ \E item \in Names : reverseItem(item)
  \/ reverseDependency
  \/ reverseItemDone
  \/ checkEnd
  \/ getIndependentSets
  \/ startSet
  \/ expandNode
  \/ gatherSets

Next ==
  \/ \E item \in Names : addItem(item)
  \/ \E item, dep \in Names : addDependency(item, dep)
  \/ checkBegin
  \/ Run
  \/ finished

\* A call that was started runs on: nothing in it blocks.
Spec == Init /\ [][Next]_vars /\ WF_vars(Run)

-----------------------------------------------------------------------------
(* Properties *)

TypeOK ==
  /\ graph_state \in {"gs_INIT", "gs_ERROR", "gs_READY"}
  /\ DOMAIN dependencies \subseteq Names \cup {Root}
  /\ \A i \in DOMAIN dependencies : dependencies[i] \in Seq(Names)
  /\ DOMAIN reverse_dependencies \subseteq Names
  /\ \A i \in DOMAIN reverse_dependencies : reverse_dependencies[i] \in Seq(Names)
  /\ DOMAIN sorted_dependencies \subseteq Names \cup {Root}
  /\ \A i \in DOMAIN sorted_dependencies :
       sorted_dependencies[i] \in Seq(Names \cup {Root})
  /\ in_order \in Seq(Names)
  /\ DOMAIN unknowns \subseteq Names \cup {Root}
  /\ \A i \in DOMAIN unknowns : unknowns[i] \in Seq(Names)
  /\ cycles \in Seq(Seq(Names \cup {Root}))
  /\ independent_sets \in Seq(Seq(Names \cup {Root}))
  /\ pc \in {"build", "collect", "sort", "reverse", "checked", "partition", "done"}
  /\ todo \subseteq Names \cup {Root}
  /\ path \in Seq([item : Names \cup {Root}, next : Nat])
  /\ visited \subseteq Names \cup {Root}
  /\ result \in Seq(Names \cup {Root})
  /\ nodes \in Seq(Names \cup {Root})
  /\ DOMAIN set_numbers \subseteq Names \cup {Root}
  /\ next_set \in Nat

Checked == pc \in {"checked", "partition", "done"}

\* The items a walk of zero or more edges leads to from an item: those of
\* every set with the item that no edge leaves.
Closed(S) == \A k \in S : Elems(dependencies[k]) \cap Items \subseteq S
Reachable(item) == {i \in Items : \A S \in SUBSET Items : item \in S /\ Closed(S) => i \in S}

\* An item that depends on itself, directly or indirectly.
OnCycle(item) ==
  \E d \in Elems(dependencies[item]) \cap Items : item \in Reachable(d)

\* check() accepts a graph exactly when it has neither an edge to an item
\* that was never added nor a cycle ("Return true iff the graph is
\* error-free", DependencyGraph.hh:39).
CheckIsExact ==
  Checked =>
    (graph_state = "gs_READY" <=>
       \A i \in Items : Elems(dependencies[i]) \subseteq Items /\ ~OnCycle(i))

\* An accepted graph satisfies the contract its clients rely on: in_order
\* enumerates the items with dependencies first, and the reverse table is
\* the exact converse of the dependency lists.  Moreover
\* getSortedDependencies(item) lists exactly what the item reaches, once
\* each, dependencies first and the item itself last.
ReadyMeetsContract ==
  (Checked /\ graph_state = "gs_READY") =>
    /\ CheckedGraph([deps |-> dependencies, rdeps |-> reverse_dependencies,
                     in_order |-> in_order], Items)
    /\ \A i \in Items :
         LET s == sorted_dependencies[i]
         IN /\ Enumerates(s, Reachable(i))
            /\ DependenciesFirst(s, dependencies)
            /\ s[Len(s)] = i

\* Cycles are reported once each; every report is a closed walk along
\* dependencies without repeated items that starts at its lexically
\* earliest one (DependencyGraph.hh:90-92).
CyclesGenuine ==
  Checked =>
    /\ \A m, n \in DOMAIN cycles : cycles[m] = cycles[n] => m = n
    /\ \A c \in Elems(cycles) :
         /\ \A k \in DOMAIN c :
              c[(k % Len(c)) + 1] \in Elems(dependencies[c[k]])
         /\ \A k, l \in DOMAIN c : c[k] = c[l] => k = l
         /\ \A k \in DOMAIN c : c[1] <= c[k]

\* Whoever repairs all that is reported has found every error: each
\* dependency on an item that was never added is recorded under the item
\* that has it, once, and nothing else is; and an item on a cycle is
\* mutually reachable with the items of some reported cycle.
ReportsComplete ==
  Checked =>
    /\ DOMAIN unknowns \subseteq Items
    /\ \A i \in Items : Elems(ListAt(unknowns, i)) = Elems(dependencies[i]) \ Items
    /\ \A i \in DOMAIN unknowns : \A m, n \in DOMAIN unknowns[i] :
         unknowns[i][m] = unknowns[i][n] => m = n
    /\ \A i \in Items : OnCycle(i) =>
         \E c \in Elems(cycles) : c[1] \in Reachable(i) /\ i \in Reachable(c[1])

\* The independent sets are the connected parts of the graph: they cover
\* it, two of them share nothing, no edge leaves one, each one cannot be
\* split, and each is listed in dependency order.
IndependentSetsExact ==
  pc = "done" =>
    LET sets == {Elems(s) : s \in Elems(independent_sets)}
        linked(i, j) == \/ j \in Elems(dependencies[i])
                        \/ i \in Elems(dependencies[j])
    IN /\ UNION sets = Items
       /\ \A m, n \in DOMAIN independent_sets :
            Elems(independent_sets[m]) \cap Elems(independent_sets[n]) # {} => m = n
       /\ \A S \in sets : \A i \in S, j \in Items : linked(i, j) => j \in S
       /\ \A S \in sets : \A T \in (SUBSET S) \ {{}, S} :
            \E i \in T, j \in S \ T : linked(i, j)
       /\ \A s \in Elems(independent_sets) : DependenciesFirst(s, dependencies)

\* check() always comes to its end, whatever graph it was given: the
\* traversal cannot chase a cycle for ever.
CheckTerminates == (pc = "collect") ~> Checked
=============================================================================
