----------------------- MODULE DependencyGraphProofs -----------------------
(***************************************************************************)
(* Proofs about DependencyGraph, for every graph over every set of names:  *)
(* check() accepts a graph exactly if it has no error, what it accepts     *)
(* meets the contract that the clients of the graph rely on, and what it   *)
(* reports of another one is genuine and complete.                         *)
(*                                                                         *)
(* The argument is the one for depth-first search, about the explicit      *)
(* stack: an item's list of dependencies is accounted for, entry by entry, *)
(* as the call for the item gets past it, by a visited item, a recorded    *)
(* unknown one or a recorded cycle.                                        *)
(***************************************************************************)
EXTENDS DependencyGraph, ListLemmas

Known == DOMAIN dependencies
All == Names \cup {Root}
Frames == [item : All, next : Nat]

-----------------------------------------------------------------------------
(* The phases of a call of check(), and what holds in them *)

\* No error has been recorded, nothing sorted, reversed or partitioned yet.
NoErrors == unknowns = EmptyMap /\ cycles = <<>>
NothingReversed ==
  /\ DOMAIN reverse_dependencies = Items
  /\ \A i \in Items : reverse_dependencies[i] = <<>>
NotPartitioned ==
  /\ nodes = <<>> /\ DOMAIN set_numbers = {} /\ next_set = 0

Building ==
  /\ Root \notin Known
  /\ NoErrors /\ DOMAIN sorted_dependencies = {}
  /\ path = <<>>
  /\ NothingReversed /\ NotPartitioned

Collecting ==
  /\ Root \in Known
  /\ Elems(dependencies[Root]) \cup todo = Items
  /\ NoErrors /\ DOMAIN sorted_dependencies = {}
  /\ path = <<>>
  /\ NothingReversed /\ NotPartitioned

\* What has been recorded of an item is true, and recorded once.
UnknownsGenuine ==
  /\ unknowns = EmptyMap \/ DOMAIN unknowns # {}
  /\ DOMAIN unknowns \subseteq Items
  /\ \A i \in DOMAIN unknowns :
       /\ Elems(unknowns[i]) # {} /\ Distinct(unknowns[i])
       /\ Elems(unknowns[i]) \subseteq Elems(dependencies[i]) \ Items

\* The place after a place of a closed walk of a given length.
After(k, length) == IF k = length THEN 1 ELSE k + 1

\* A closed walk without repeated items that starts at the earliest one.
Genuine(c) ==
  /\ c \in Seq(Items) /\ Len(c) > 0
  /\ Distinct(c)
  /\ \A k \in 1..Len(c) :
       c[After(k, Len(c))] \in Elems(dependencies[c[k]])
  /\ \A k \in 1..Len(c) : c[1] <= c[k]

CyclesAreGenuine == Distinct(cycles) /\ \A n \in DOMAIN cycles : Genuine(cycles[n])

OnReportedCycle(i) == \E n \in DOMAIN cycles : i \in Elems(cycles[n])

\* A list that has its items' known dependencies in front of them.
KnownFirst(list) ==
  \A n \in DOMAIN list : \A d \in Elems(dependencies[list[n]]) \cap Known :
    \E m \in DOMAIN list : m < n /\ list[m] = d

\* The result of a traversal from an item.
SortOf(i, list) ==
  /\ Distinct(list)
  /\ Len(list) > 0 /\ list[Len(list)] = i
  /\ Elems(list) \subseteq Known
  /\ i \in Items => Elems(list) \subseteq Reachable(i)
  /\ \A v \in Elems(list) : \A d \in Elems(dependencies[v]) :
       /\ d \in Known => d \in Elems(list)
       /\ d \notin Known => d \in Elems(ListAt(unknowns, v))
       /\ d = i => OnReportedCycle(i)
  /\ cycles = <<>> => KnownFirst(list)

Sorts == \A i \in DOMAIN sorted_dependencies : SortOf(i, sorted_dependencies[i])

\* The calls that are active: each waits for the one above it.
Stack ==
  /\ \A n \in DOMAIN path :
       /\ path[n].item \in Known
       /\ path[n].next \in 1..(Len(dependencies[path[n].item]) + 1)
       /\ n < Len(path) =>
            /\ path[n].next > 1
            /\ dependencies[path[n].item][path[n].next - 1] = path[n + 1].item
  /\ \A m, n \in DOMAIN path : path[m].item = path[n].item => m = n
  /\ \A n \in DOMAIN path : path[n].item \notin visited
  /\ Elems(result) = visited /\ Distinct(result)
  /\ visited \subseteq Known
  /\ path[1].item \in todo
  /\ path[1].item \in Items =>
       visited \cup visiting \subseteq Reachable(path[1].item)

\* An entry of the list of dependencies of v that has been dealt with.
Seen(v, d) ==
  /\ d \notin Known => d \in Elems(ListAt(unknowns, v))
  /\ d \in Known => d \in visited \/ (d \in visiting /\ cycles # <<>>)
  /\ d = path[1].item => OnReportedCycle(d)

\* How many of the entries a call has dealt with.
Past(n) == IF n = Len(path) THEN path[n].next - 1 ELSE path[n].next - 2

Accounted ==
  /\ \A v \in visited : \A d \in Elems(dependencies[v]) : Seen(v, d)
  /\ \A n \in DOMAIN path : \A k \in 1..Past(n) :
       Seen(path[n].item, dependencies[path[n].item][k])
  /\ cycles = <<>> => KnownFirst(result)

Sorting ==
  /\ Root \in Known
  /\ Elems(dependencies[Root]) = Items
  /\ todo \cup DOMAIN sorted_dependencies = Known
  /\ UnknownsGenuine /\ CyclesAreGenuine
  /\ Sorts
  /\ path # <<>> => Stack /\ Accounted
  /\ NothingReversed /\ NotPartitioned

\* What the sort has left.
Sorted ==
  /\ Root \notin Known
  /\ UnknownsGenuine /\ CyclesAreGenuine
  /\ DOMAIN sorted_dependencies = Known
  /\ Sorts
  /\ Distinct(in_order) /\ Elems(in_order) = Items
  /\ cycles = <<>> => KnownFirst(in_order)

\* i is in the list of reverse dependencies of j by now.
ReversedSoFar(i, j) ==
  \/ i \in Items \ todo /\ j \in Elems(dependencies[i])
  \/ /\ path # <<>> /\ i = path[1].item
     /\ \E k \in 1..(path[1].next - 1) : dependencies[i][k] = j

Reversing ==
  /\ Sorted
  /\ path # <<>> =>
       /\ Len(path) = 1
       /\ path[1].item \in todo
       /\ path[1].next \in 1..(Len(dependencies[path[1].item]) + 1)
  /\ Items \subseteq DOMAIN reverse_dependencies
  /\ \A j \in DOMAIN reverse_dependencies \ Items :
       Elems(reverse_dependencies[j]) # {}
  /\ \A i, j \in Names :
       i \in Elems(ListAt(reverse_dependencies, j)) <=> ReversedSoFar(i, j)
  /\ NotPartitioned

AfterCheck ==
  /\ Sorted
  /\ Items \subseteq DOMAIN reverse_dependencies
  /\ \A j \in DOMAIN reverse_dependencies \ Items :
       Elems(reverse_dependencies[j]) # {}
  /\ \A i, j \in Names :
       i \in Elems(ListAt(reverse_dependencies, j)) <=>
         i \in Items /\ j \in Elems(dependencies[i])
  /\ graph_state = IF NoErrors THEN "gs_READY" ELSE "gs_ERROR"
  /\ pc = "checked" => NotPartitioned

-----------------------------------------------------------------------------
(* The connected parts *)

Linked(i, j) == j \in Elems(dependencies[i]) \/ i \in Elems(dependencies[j])

\* j is in every set with i that no link leaves.
Unsplit(U) == \A i \in U, j \in Items : Linked(i, j) => j \in U
Together(i, j) == \A U \in SUBSET Items : i \in U /\ Unsplit(U) => j \in U

\* The members of a set, those that are queued included.
Group(s) ==
  {i \in DOMAIN set_numbers : set_numbers[i] = s}
    \cup (IF s = next_set - 1 THEN Elems(nodes) ELSE {})

Partitioning ==
  /\ graph_state = "gs_READY"
  /\ DOMAIN set_numbers \subseteq Items
  /\ \A i \in DOMAIN set_numbers : set_numbers[i] \in 0..(next_set - 1)
  /\ Elems(nodes) \subseteq Items
  /\ nodes # <<>> => next_set > 0
  /\ \A i \in DOMAIN set_numbers : \A j \in Items :
       Linked(i, j) => j \in Group(set_numbers[i])
  /\ \A i \in Elems(nodes) \cap DOMAIN set_numbers : set_numbers[i] = next_set - 1
  /\ \A s \in 0..(next_set - 1) : \A i, j \in Group(s) : Together(i, j)

Partitioned ==
  /\ DOMAIN set_numbers = Items
  /\ nodes = <<>>
  /\ independent_sets =
       [s \in 1..next_set |->
          SortedByOrder({i \in DOMAIN set_numbers : set_numbers[i] = s - 1})]

\* TypeOK in parts; the tables are functions.
GraphTypes ==
  /\ graph_state \in {"gs_INIT", "gs_ERROR", "gs_READY"}
  /\ Known \subseteq All
  /\ dependencies \in [Known -> Seq(Names)]
  /\ DOMAIN reverse_dependencies \subseteq Names
  /\ reverse_dependencies \in [DOMAIN reverse_dependencies -> Seq(Names)]

OutputTypes ==
  /\ DOMAIN sorted_dependencies \subseteq All
  /\ \A i \in DOMAIN sorted_dependencies : sorted_dependencies[i] \in Seq(All)
  /\ in_order \in Seq(Names)

ErrorTypes ==
  /\ DOMAIN unknowns \subseteq All
  /\ \A i \in DOMAIN unknowns : unknowns[i] \in Seq(Names)
  /\ cycles \in Seq(Seq(All))

StackTypes ==
  /\ path \in Seq(Frames)
  /\ visited \subseteq All
  /\ result \in Seq(All)

PartitionTypes ==
  /\ independent_sets \in Seq(Seq(All))
  /\ nodes \in Seq(All)
  /\ DOMAIN set_numbers \subseteq All
  /\ next_set \in Nat

ControlTypes ==
  /\ pc \in {"build", "collect", "sort", "reverse", "checked", "partition", "done"}
  /\ todo \subseteq Known

Types ==
  /\ GraphTypes /\ OutputTypes /\ ErrorTypes
  /\ StackTypes /\ PartitionTypes /\ ControlTypes

Phase ==
  /\ pc = "build" => Building
  /\ pc = "collect" => Collecting
  /\ pc = "sort" => Sorting
  /\ pc = "reverse" => Reversing
  /\ Checked => AfterCheck
  /\ pc \in {"partition", "done"} => Partitioning
  /\ pc = "done" => Partitioned

IInv == Types /\ Phase

-----------------------------------------------------------------------------
(* The stack *)

\* A stack whose top call turns to its next entry, ...
LEMMA StackAdvances ==
  ASSUME NEW p \in Seq(Frames), p # <<>>,
         NEW q, q = [p EXCEPT ![Len(p)].next = @ + 1]
  PROVE  /\ q \in Seq(Frames) /\ q # <<>>
         /\ Len(q) = Len(p) /\ DOMAIN q = DOMAIN p
         /\ \A n \in DOMAIN p : q[n].item = p[n].item
         /\ \A n \in DOMAIN p : n # Len(p) => q[n] = p[n]
         /\ q[Len(p)].next = p[Len(p)].next + 1
<1>1. Len(p) \in Nat \ {0} /\ DOMAIN p = 1..Len(p) /\ p \in [1..Len(p) -> Frames]
  OBVIOUS
<1>2. p[Len(p)] \in Frames /\ p[Len(p)].next \in Nat
  BY <1>1 DEF Frames
<1>3. q = [n \in 1..Len(p) |->
             IF n = Len(p) THEN [p[n] EXCEPT !.next = p[n].next + 1] ELSE p[n]]
  BY <1>1
<1>4. [p[Len(p)] EXCEPT !.next = p[Len(p)].next + 1] \in Frames
  BY <1>2 DEF Frames
<1>5. q \in [1..Len(p) -> Frames]
  BY <1>1, <1>3, <1>4
<1>6. q \in Seq(Frames) /\ Len(q) = Len(p)
  BY <1>1, <1>5
<1>7. \A n \in DOMAIN p : n # Len(p) => q[n] = p[n]
  BY <1>1, <1>3
<1>8. q[Len(p)].next = p[Len(p)].next + 1 /\ q[Len(p)].item = p[Len(p)].item
  BY <1>1, <1>2, <1>3 DEF Frames
<1> QED BY <1>1, <1>5, <1>6, <1>7, <1>8

\* ... calls an item, ...
LEMMA StackGrows ==
  ASSUME NEW p \in Seq(Frames), NEW i \in All
  PROVE  /\ Append(p, Frame(i)) \in Seq(Frames)
         /\ Append(p, Frame(i)) # <<>>
         /\ Len(Append(p, Frame(i))) = Len(p) + 1
         /\ DOMAIN Append(p, Frame(i)) = 1..(Len(p) + 1)
         /\ \A n \in DOMAIN p : Append(p, Frame(i))[n] = p[n]
         /\ Append(p, Frame(i))[Len(p) + 1].item = i
         /\ Append(p, Frame(i))[Len(p) + 1].next = 1
<1>1. Frame(i) \in Frames /\ Frame(i).item = i /\ Frame(i).next = 1
  BY DEF Frame, Frames
<1> HIDE DEF Frame
<1>2. Append(p, Frame(i)) # <<>>
  BY <1>1, ListTypes
<1>3. /\ Append(p, Frame(i)) \in Seq(Frames)
      /\ Len(Append(p, Frame(i))) = Len(p) + 1
      /\ DOMAIN Append(p, Frame(i)) = 1..(Len(p) + 1)
      /\ \A n \in DOMAIN p : Append(p, Frame(i))[n] = p[n]
      /\ Append(p, Frame(i))[Len(p) + 1] = Frame(i)
  BY <1>1
<1> QED BY <1>1, <1>2, <1>3

\* ... or returns.
LEMMA StackShrinks ==
  ASSUME NEW p \in Seq(Frames), p # <<>>,
         NEW q, q = SubSeq(p, 1, Len(p) - 1)
  PROVE  /\ q \in Seq(Frames)
         /\ Len(q) = Len(p) - 1
         /\ DOMAIN q = 1..(Len(p) - 1) /\ DOMAIN q \subseteq DOMAIN p
         /\ \A n \in DOMAIN q : q[n] = p[n]
         /\ Len(p) = 1 <=> q = <<>>
<1>2. /\ Len(p) \in Nat \ {0} /\ DOMAIN p = 1..Len(p)
      /\ 1 \in 1..(Len(p) + 1) /\ Len(p) - 1 \in 0..Len(p)
  OBVIOUS
<1>1. /\ Len(p) \in Nat \ {0}
      /\ q \in Seq(Frames)
      /\ Len(q) = Len(p) - 1
      /\ DOMAIN q = 1..(Len(p) - 1) /\ DOMAIN q \subseteq DOMAIN p
      /\ \A n \in DOMAIN q : q[n] = p[n]
  BY <1>2, SubSeqProperties
<1>3. q # <<>> => Len(q) > 0
  BY <1>1
<1>4. Len(p) = 1 => q = <<>>
  BY <1>1, <1>3
<1>5. Len(p) # 1 => Len(q) > 0
  BY <1>1
<1>6. q = <<>> => ~(Len(q) > 0)
  <2>1. ~(Len(<<>>) > 0)
    OBVIOUS
  <2> QED BY <2>1, Zenon
<1> QED BY <1>1, <1>4, <1>5, <1>6, Zenon

\* The types of the top of the stack.
LEMMA TopOfStack ==
  ASSUME NEW p \in Seq(Frames), p # <<>>
  PROVE  /\ Len(p) \in Nat \ {0} /\ DOMAIN p = 1..Len(p)
         /\ Len(p) \in DOMAIN p /\ 1 \in DOMAIN p
         /\ \A n \in DOMAIN p : p[n].item \in All /\ p[n].next \in Nat
<1>1. Len(p) \in Nat \ {0} /\ DOMAIN p = 1..Len(p)
  OBVIOUS
<1>2. \A f \in Frames : f.item \in All /\ f.next \in Nat
  BY DEF Frames
<1>3. \A n \in DOMAIN p : p[n] \in Frames
  OBVIOUS
<1> QED BY <1>1, <1>2, <1>3

-----------------------------------------------------------------------------
(* Reachability *)

LEMMA ReachesItself ==
  ASSUME NEW i \in Items
  PROVE  i \in Reachable(i)
BY DEF Reachable

LEMMA ReachesOn ==
  ASSUME NEW i, NEW v \in Reachable(i), NEW d \in Elems(dependencies[v]), d \in Items
  PROVE  d \in Reachable(i)
<1> SUFFICES ASSUME NEW S \in SUBSET Items, i \in S, Closed(S) PROVE d \in S
  BY DEF Reachable
<1>1. v \in S
  BY DEF Reachable
<1> QED BY <1>1 DEF Closed

LEMMA ReachesNoFurther ==
  ASSUME NEW i, NEW S \in SUBSET Items, i \in S, Closed(S)
  PROVE  Reachable(i) \subseteq S
BY DEF Reachable

-----------------------------------------------------------------------------
(* Tables and types *)

LEMMA RootIsNoName == Root \notin Names
BY NamesAssumption DEF Root

LEMMA PutTypes ==
  ASSUME NEW S, NEW map, NEW key, NEW value \in S, \A k \in DOMAIN map : map[k] \in S
  PROVE  Put(map, key, value) \in [DOMAIN map \cup {key} -> S]
BY DEF Put

\* A table looked up in the places it has and in those it has not.
LEMMA ListAtPut ==
  ASSUME NEW map, NEW key, NEW value, NEW k
  PROVE  /\ ListAt(Put(map, key, value), key) = value
         /\ k # key => ListAt(Put(map, key, value), k) = ListAt(map, k)
<1>1. ListAt(Put(map, key, value), key) = value
  BY DEF Put, ListAt
<1>2. ASSUME k # key, k \in DOMAIN map
      PROVE  ListAt(Put(map, key, value), k) = ListAt(map, k)
  BY <1>2 DEF Put, ListAt
<1>3. ASSUME k # key, k \notin DOMAIN map
      PROVE  ListAt(Put(map, key, value), k) = ListAt(map, k)
  BY <1>3 DEF Put, ListAt
<1> QED BY <1>1, <1>2, <1>3

LEMMA ElemsOfEmpty == Elems(<<>>) = {} /\ Distinct(<<>>) /\ KnownFirst(<<>>)
BY DEF Elems, Distinct, KnownFirst

LEMMA SameGraph ==
  ASSUME UNCHANGED dependencies
  PROVE  /\ Known' = Known /\ Items' = Items
         /\ \A i : Reachable(i)' = Reachable(i)
BY DEF Known, Items, Reachable, Closed

LEMMA TypeParts == Types => TypeOK
<1> SUFFICES ASSUME Types PROVE TypeOK
  OBVIOUS
<1>1. /\ graph_state \in {"gs_INIT", "gs_ERROR", "gs_READY"}
      /\ DOMAIN dependencies \subseteq Names \cup {Root}
      /\ \A i \in DOMAIN dependencies : dependencies[i] \in Seq(Names)
      /\ DOMAIN reverse_dependencies \subseteq Names
      /\ \A i \in DOMAIN reverse_dependencies : reverse_dependencies[i] \in Seq(Names)
  BY DEF Types, GraphTypes, Known, All
<1>2. /\ DOMAIN sorted_dependencies \subseteq Names \cup {Root}
      /\ \A i \in DOMAIN sorted_dependencies :
           sorted_dependencies[i] \in Seq(Names \cup {Root})
      /\ in_order \in Seq(Names)
  BY DEF Types, OutputTypes, All
<1>3. /\ DOMAIN unknowns \subseteq Names \cup {Root}
      /\ \A i \in DOMAIN unknowns : unknowns[i] \in Seq(Names)
      /\ cycles \in Seq(Seq(Names \cup {Root}))
  BY DEF Types, ErrorTypes, All
<1>4. /\ path \in Seq([item : Names \cup {Root}, next : Nat])
      /\ visited \subseteq Names \cup {Root}
      /\ result \in Seq(Names \cup {Root})
  BY DEF Types, StackTypes, All, Frames
<1>5. /\ independent_sets \in Seq(Seq(Names \cup {Root}))
      /\ nodes \in Seq(Names \cup {Root})
      /\ DOMAIN set_numbers \subseteq Names \cup {Root}
      /\ next_set \in Nat
  BY DEF Types, PartitionTypes, All
<1>6. /\ pc \in {"build", "collect", "sort", "reverse", "checked", "partition", "done"}
      /\ todo \subseteq Names \cup {Root}
  BY <1>1 DEF Types, ControlTypes, Known
<1> QED BY <1>1, <1>2, <1>3, <1>4, <1>5, <1>6 DEF TypeOK

\* What no variable of a part has changed for is still as it was.
LEMMA TypesKept ==
  ASSUME Types
  PROVE  /\ UNCHANGED client => GraphTypes'
         /\ UNCHANGED outputs => OutputTypes'
         /\ UNCHANGED errors => ErrorTypes'
         /\ UNCHANGED traversal => StackTypes'
         /\ UNCHANGED partition => PartitionTypes'
         /\ UNCHANGED <<client, pc, todo>> => ControlTypes'
<1>1. UNCHANGED client => GraphTypes'
  BY DEF Types, GraphTypes, client, Known
<1>2. UNCHANGED outputs => OutputTypes'
  BY DEF Types, OutputTypes, outputs
<1>3. UNCHANGED errors => ErrorTypes'
  BY DEF Types, ErrorTypes, errors
<1>4. UNCHANGED traversal => StackTypes'
  BY DEF Types, StackTypes, traversal
<1>5. UNCHANGED partition => PartitionTypes'
  BY DEF Types, PartitionTypes, partition
<1>6. UNCHANGED <<client, pc, todo>> => ControlTypes'
  BY DEF Types, ControlTypes, client, Known
<1> QED BY <1>1, <1>2, <1>3, <1>4, <1>5, <1>6

-----------------------------------------------------------------------------
(* Building the graph *)

LEMMA Initially == Init => IInv
<1> SUFFICES ASSUME Init PROVE IInv
  OBVIOUS
<1>1. DOMAIN EmptyMap = {} /\ \A S : EmptyMap \in [{} -> S]
  BY DEF EmptyMap
<1>2. \A S : <<>> \in Seq(S)
  OBVIOUS
<1>3. Items = {} /\ Known = {}
  BY <1>1 DEF Init, Items, Known
<1>4. GraphTypes
  BY <1>1, <1>3 DEF Init, GraphTypes
<1>5. OutputTypes /\ ErrorTypes /\ StackTypes
  BY <1>1, <1>2 DEF Init, OutputTypes, ErrorTypes, StackTypes
<1>6. PartitionTypes /\ ControlTypes
  BY <1>1, <1>2, <1>3 DEF Init, PartitionTypes, ControlTypes
<1>7. Building
  BY <1>1, <1>3 DEF Init, Building, NoErrors, NothingReversed, NotPartitioned
<1>8. pc = "build"
  BY DEF Init
<1> QED BY <1>4, <1>5, <1>6, <1>7, <1>8 DEF IInv, Types, Phase, Checked

LEMMA addItemKeeps ==
  ASSUME IInv, NEW item \in Names, addItem(item)
  PROVE  IInv'
<1> USE DEF IInv, addItem
<1>1. /\ Known' = Known \cup {item} /\ DOMAIN reverse_dependencies' = DOMAIN reverse_dependencies \cup {item}
      /\ item \notin Known
      /\ dependencies' \in [Known \cup {item} -> Seq(Names)]
      /\ reverse_dependencies' \in [DOMAIN reverse_dependencies \cup {item} -> Seq(Names)]
  <2>1. /\ DOMAIN dependencies' = Known \cup {item}
        /\ DOMAIN reverse_dependencies' = DOMAIN reverse_dependencies \cup {item}
    BY DEF Put, Known
  <2>2. <<>> \in Seq(Names)
    OBVIOUS
  <2>3. dependencies' \in [Known \cup {item} -> Seq(Names)]
    BY <2>2, PutTypes DEF Types, GraphTypes, Known
  <2>4. reverse_dependencies' \in [DOMAIN reverse_dependencies \cup {item} -> Seq(Names)]
    BY <2>2, PutTypes DEF Types, GraphTypes
  <2> QED BY <2>1, <2>3, <2>4 DEF Known
<1>2. GraphTypes'
  BY <1>1 DEF Types, GraphTypes, All
<1>3. ControlTypes'
  BY <1>1 DEF Types, ControlTypes
<1>4. OutputTypes' /\ ErrorTypes' /\ StackTypes' /\ PartitionTypes'
  BY TypesKept
<1>5. Items' = Items \cup {item} /\ Items = Known
  BY <1>1, RootIsNoName DEF Items, Known, Phase, Building
<1>6. NothingReversed'
  <2>1. NothingReversed
    BY DEF Phase, Building
  <2>2. DOMAIN reverse_dependencies' = Items'
    BY <1>1, <1>5, <2>1 DEF NothingReversed
  <2>3. ASSUME NEW i \in Items' PROVE reverse_dependencies'[i] = <<>>
    <3>1. reverse_dependencies' = Put(reverse_dependencies, item, <<>>)
      OBVIOUS
    <3>2. CASE i = item
      BY <3>1, <3>2 DEF Put
    <3>3. CASE i # item
      <4>1. i \in DOMAIN reverse_dependencies /\ reverse_dependencies[i] = <<>>
        BY <1>5, <2>1, <3>3 DEF NothingReversed
      <4> QED BY <3>1, <3>3, <4>1 DEF Put
    <3> QED BY <3>2, <3>3
  <2> QED BY <2>2, <2>3 DEF NothingReversed
<1>7. Building'
  <2>1. Building
    BY DEF Phase
  <2>2. Root \notin Known'
    BY <1>1, <2>1, RootIsNoName DEF Building
  <2>3. NoErrors' /\ NotPartitioned'
    BY <2>1 DEF Building, NoErrors, NotPartitioned, errors, partition
  <2>4. DOMAIN sorted_dependencies' = {} /\ path' = <<>>
    BY <2>1 DEF Building, outputs, traversal
  <2> QED BY <1>6, <2>2, <2>3, <2>4 DEF Building
<1> QED BY <1>2, <1>3, <1>4, <1>7 DEF Types, Phase, Checked

LEMMA addDependencyKeeps ==
  ASSUME IInv, NEW item \in Names, NEW dep \in Names, addDependency(item, dep)
  PROVE  IInv'
<1> USE DEF IInv, addDependency
<1>1. /\ Known' = Known /\ Items' = Items
      /\ dependencies' \in [Known -> Seq(Names)]
  <2>1. dependencies \in [Known -> Seq(Names)] /\ item \in Known
    BY DEF Types, GraphTypes, Known
  <2>2. Append(dependencies[item], dep) \in Seq(Names)
    BY <2>1
  <2>3. dependencies' \in [Known -> Seq(Names)]
    BY <2>1, <2>2
  <2>4. Known' = Known
    BY <2>3 DEF Known
  <2> QED BY <2>3, <2>4 DEF Items, Known
<1>2. GraphTypes'
  BY <1>1 DEF Types, GraphTypes, All
<1>3. ControlTypes'
  BY <1>1 DEF Types, ControlTypes
<1>4. OutputTypes' /\ ErrorTypes' /\ StackTypes' /\ PartitionTypes'
  BY TypesKept
<1>7. Building'
  <2>1. Building
    BY DEF Phase
  <2>3. NoErrors' /\ NotPartitioned' /\ NothingReversed'
    BY <1>1, <2>1 DEF Building, NoErrors, NotPartitioned, NothingReversed, errors, partition
  <2>4. DOMAIN sorted_dependencies' = {} /\ path' = <<>>
    BY <2>1 DEF Building, outputs, traversal
  <2> QED BY <1>1, <2>1, <2>3, <2>4 DEF Building
<1> QED BY <1>2, <1>3, <1>4, <1>7 DEF Types, Phase, Checked

LEMMA checkBeginKeeps ==
  ASSUME IInv, checkBegin
  PROVE  IInv'
<1> USE DEF IInv, checkBegin
<1>0. Building /\ Root \notin Known
  BY DEF Phase, Building
<1>1. /\ Known' = Known \cup {Root} /\ Items' = Items /\ Items = Known
      /\ dependencies' \in [Known \cup {Root} -> Seq(Names)]
      /\ dependencies'[Root] = <<>>
  <2>1. <<>> \in Seq(Names)
    OBVIOUS
  <2>2. dependencies' \in [Known \cup {Root} -> Seq(Names)]
    BY <2>1, PutTypes DEF Types, GraphTypes, Known
  <2>3. dependencies' = Put(dependencies, Root, <<>>)
    OBVIOUS
  <2>4. DOMAIN dependencies' = DOMAIN dependencies \cup {Root}
    BY <2>3 DEF Put
  <2>5. dependencies'[Root] = <<>>
    BY <2>3 DEF Put
  <2> QED BY <1>0, <2>2, <2>4, <2>5 DEF Items, Known
<1>2. GraphTypes'
  BY <1>1 DEF Types, GraphTypes, All
<1>3. ControlTypes'
  BY <1>1 DEF Types, ControlTypes, Known
<1>4. OutputTypes' /\ ErrorTypes' /\ StackTypes' /\ PartitionTypes'
  BY TypesKept
<1>5. Collecting'
  <2>1. NoErrors' /\ NotPartitioned' /\ NothingReversed'
    BY <1>0, <1>1 DEF Building, NoErrors, NotPartitioned, NothingReversed, errors, partition
  <2>2. DOMAIN sorted_dependencies' = {} /\ path' = <<>>
    BY <1>0 DEF Building, outputs, traversal
  <2>3. Elems(dependencies'[Root]) \cup todo' = Items'
    BY <1>1, ElemsOfEmpty DEF Known
  <2> QED BY <1>1, <2>1, <2>2, <2>3 DEF Collecting
<1> QED BY <1>2, <1>3, <1>4, <1>5 DEF Types, Phase, Checked

LEMMA collectKeeps ==
  ASSUME IInv, NEW item \in Names, collect(item)
  PROVE  IInv'
<1> USE DEF IInv, collect
<1>0. Collecting /\ Root \in Known /\ item \in todo
  BY DEF Phase, Collecting, IsNext
<1>1. /\ Known' = Known /\ Items' = Items
      /\ dependencies' \in [Known -> Seq(Names)]
      /\ Elems(dependencies'[Root]) = Elems(dependencies[Root]) \cup {item}
  <2>1. dependencies \in [Known -> Seq(Names)] /\ dependencies[Root] \in Seq(Names)
    BY <1>0 DEF Types, GraphTypes
  <2>2. /\ Append(dependencies[Root], item) \in Seq(Names)
        /\ Elems(Append(dependencies[Root], item)) = Elems(dependencies[Root]) \cup {item}
    BY <2>1, ElemsOfAppend
  <2>3. dependencies' \in [Known -> Seq(Names)] /\ dependencies'[Root] = Append(dependencies[Root], item)
    BY <1>0, <2>1, <2>2
  <2>4. Known' = Known
    BY <2>3 DEF Known
  <2> QED BY <2>2, <2>3, <2>4 DEF Items, Known
<1>2. GraphTypes'
  BY <1>1 DEF Types, GraphTypes, All
<1>3. ControlTypes'
  BY <1>1 DEF Types, ControlTypes
<1>4. OutputTypes' /\ ErrorTypes' /\ StackTypes' /\ PartitionTypes'
  BY TypesKept
<1>5. Collecting'
  <2>1. NoErrors' /\ NotPartitioned' /\ NothingReversed'
    BY <1>0, <1>1 DEF Collecting, NoErrors, NotPartitioned, NothingReversed, errors, partition
  <2>2. DOMAIN sorted_dependencies' = {} /\ path' = <<>>
    BY <1>0 DEF Collecting, outputs, traversal
  <2>3. Elems(dependencies'[Root]) \cup todo' = Items'
    BY <1>0, <1>1 DEF Collecting
  <2> QED BY <1>0, <1>1, <2>1, <2>2, <2>3 DEF Collecting
<1> QED BY <1>2, <1>3, <1>4, <1>5 DEF Types, Phase, Checked

LEMMA collectedKeeps ==
  ASSUME IInv, collected
  PROVE  IInv'
<1> USE DEF IInv, collected
<1>0. Collecting /\ Root \in Known
  BY DEF Phase, Collecting
<1>1. UNCHANGED dependencies /\ Known' = Known /\ Items' = Items
  BY SameGraph DEF client
<1>2. GraphTypes' /\ OutputTypes' /\ ErrorTypes' /\ StackTypes' /\ PartitionTypes'
  BY TypesKept
<1>3. ControlTypes'
  BY <1>1 DEF Types, ControlTypes, Known
<1>5. Sorting'
  <2>1. NotPartitioned' /\ NothingReversed'
    BY <1>0, <1>1 DEF Collecting, NotPartitioned, NothingReversed, client, partition
  <2>2. DOMAIN sorted_dependencies' = {} /\ path' = <<>> /\ NoErrors'
    BY <1>0 DEF Collecting, outputs, traversal, NoErrors, errors
  <2>3. Elems(dependencies'[Root]) = Items' /\ todo' = Known'
    BY <1>0, <1>1 DEF Collecting, Known
  <2>4. UnknownsGenuine'
    BY <2>2 DEF NoErrors, UnknownsGenuine, EmptyMap
  <2>5. CyclesAreGenuine'
    BY <2>2, ElemsOfEmpty DEF NoErrors, CyclesAreGenuine, Distinct
  <2>6. Sorts'
    BY <2>2 DEF Sorts
  <2> QED BY <1>0, <1>1, <2>1, <2>2, <2>3, <2>4, <2>5, <2>6 DEF Sorting
<1> QED BY <1>2, <1>3, <1>5 DEF Types, Phase, Checked

-----------------------------------------------------------------------------
(* Sorting: what a step leaves as it was *)

\* What has been recorded stays recorded.
ErrorsGrow ==
  /\ \A i : OnReportedCycle(i) => OnReportedCycle(i)'
  /\ \A i : Elems(ListAt(unknowns, i)) \subseteq Elems(ListAt(unknowns', i))
  /\ cycles' = <<>> => cycles = <<>>

LEMMA ErrorsStay ==
  ASSUME UNCHANGED <<errors, dependencies>>
  PROVE  /\ ErrorsGrow
         /\ UnknownsGenuine => UnknownsGenuine'
         /\ CyclesAreGenuine => CyclesAreGenuine'
<1>1. ErrorsGrow
  BY DEF ErrorsGrow, errors, OnReportedCycle
<1>2. UnknownsGenuine => UnknownsGenuine'
  BY SameGraph DEF UnknownsGenuine, errors
<1>3. CyclesAreGenuine => CyclesAreGenuine'
  BY SameGraph DEF CyclesAreGenuine, Genuine, errors
<1> QED BY <1>1, <1>2, <1>3

LEMMA SortOfStays ==
  ASSUME NEW i, UNCHANGED dependencies, ErrorsGrow,
         sorted_dependencies'[i] = sorted_dependencies[i],
         SortOf(i, sorted_dependencies[i])
  PROVE  SortOf(i, sorted_dependencies[i])'
<1>1. PICK list : list = sorted_dependencies[i]
  OBVIOUS
<1>2. list = sorted_dependencies'[i]
  BY <1>1
<1>3. SortOf(i, list)
  BY <1>1
<1>4. /\ Distinct(list)
      /\ Len(list) > 0 /\ list[Len(list)] = i
      /\ Elems(list) \subseteq Known'
      /\ i \in Items' => Elems(list) \subseteq Reachable(i)'
  BY <1>3, SameGraph DEF SortOf
<1>5. \A v \in Elems(list) : \A d \in Elems(dependencies'[v]) :
       /\ d \in Known' => d \in Elems(list)
       /\ d \notin Known' => d \in Elems(ListAt(unknowns', v))
       /\ d = i => OnReportedCycle(i)'
  BY <1>3, SameGraph DEF SortOf, ErrorsGrow
<1>6. cycles' = <<>> => KnownFirst(list)'
  BY <1>3, SameGraph DEF SortOf, ErrorsGrow, KnownFirst
<1>7. SortOf(i, list)'
  BY <1>4, <1>5, <1>6 DEF SortOf
<1> QED BY <1>2, <1>7 DEF SortOf, KnownFirst, Distinct, Elems

LEMMA SortsStay ==
  ASSUME UNCHANGED <<dependencies, sorted_dependencies>>, ErrorsGrow, Sorts
  PROVE  Sorts'
<1> SUFFICES ASSUME NEW i \in DOMAIN sorted_dependencies
             PROVE  SortOf(i, sorted_dependencies[i])'
  BY DEF Sorts
<1> QED BY SortOfStays DEF Sorts

LEMMA SeenStays ==
  ASSUME NEW v, NEW d, Seen(v, d), UNCHANGED dependencies, ErrorsGrow,
         path'[1].item = path[1].item,
         visited \subseteq visited', visiting \subseteq visited' \cup visiting'
  PROVE  Seen(v, d)'
<1>1. d \notin Known' => d \in Elems(ListAt(unknowns', v))
  BY SameGraph DEF Seen, ErrorsGrow
<1>2. d \in Known' => d \in visited' \/ (d \in visiting' /\ cycles' # <<>>)
  BY SameGraph DEF Seen, ErrorsGrow
<1>3. d = path'[1].item => OnReportedCycle(d)'
  BY DEF Seen, ErrorsGrow
<1> QED BY <1>1, <1>2, <1>3 DEF Seen

\* The call at the top of the stack and the entry it is at.
LEMMA TopCall ==
  ASSUME IInv, pc = "sort", path # <<>>, NEW top, top = Top.item
  PROVE  /\ Sorting /\ Stack /\ Accounted
         /\ path \in Seq(Frames) /\ Len(path) \in Nat \ {0}
         /\ DOMAIN path = 1..Len(path)
         /\ Len(path) \in DOMAIN path /\ 1 \in DOMAIN path
         /\ path[Len(path)].item = top
         /\ path[Len(path)].next = Top.next
         /\ top \in Known /\ top \in All /\ top \in visiting
         /\ dependencies[top] \in Seq(Names)
         /\ DOMAIN dependencies[top] = 1..Len(dependencies[top])
         /\ Len(dependencies[top]) \in Nat
         /\ Top.next \in 1..(Len(dependencies[top]) + 1)
<1>1. Sorting /\ Stack /\ Accounted
  BY DEF IInv, Phase, Sorting
<1>2. path \in Seq(Frames)
  BY DEF IInv, Types, StackTypes
<1>3. /\ Len(path) \in Nat \ {0} /\ DOMAIN path = 1..Len(path)
      /\ Len(path) \in DOMAIN path /\ 1 \in DOMAIN path
  BY <1>2, TopOfStack
<1>4. /\ path[Len(path)].item = top /\ path[Len(path)].next = Top.next
      /\ top \in Known /\ top \in visiting
      /\ Top.next \in 1..(Len(dependencies[top]) + 1)
  BY <1>1, <1>3 DEF Stack, Top, visiting
<1>5. top \in All /\ dependencies[top] \in Seq(Names)
  BY <1>4 DEF IInv, Types, GraphTypes
<1> QED BY <1>1, <1>2, <1>3, <1>4, <1>5

LEMMA NeighborStep ==
  ASSUME IInv, pc = "sort", path # <<>>, path' # <<>>,
         UNCHANGED <<client, outputs, partition, pc, todo>>,
         ErrorTypes', ErrorsGrow, UnknownsGenuine', CyclesAreGenuine',
         StackTypes', Stack', Accounted'
  PROVE  IInv'
<1>1. UNCHANGED dependencies /\ Sorting
  BY DEF client, IInv, Phase
<1>2. Types'
  BY TypesKept DEF IInv, Types
<1>3. NothingReversed' /\ NotPartitioned'
  BY <1>1, SameGraph DEF Sorting, NothingReversed, NotPartitioned, client, partition
<1>4. /\ Root \in Known' /\ Elems(dependencies'[Root]) = Items'
      /\ todo' \cup DOMAIN sorted_dependencies' = Known'
  BY <1>1, SameGraph DEF Sorting, outputs
<1>5. Sorts'
  BY <1>1, SortsStay DEF Sorting, outputs
<1>6. Sorting'
  BY <1>3, <1>4, <1>5 DEF Sorting
<1> QED BY <1>2, <1>6 DEF IInv, Phase, Checked

LEMMA AdvanceKeepsStack ==
  ASSUME IInv, NEW neighbor, AtNeighbor(neighbor), path' = Advanced,
         UNCHANGED <<dependencies, visited, result, todo>>
  PROVE  /\ path' # <<>> /\ StackTypes' /\ Stack'
         /\ visiting' = visiting /\ Len(path') = Len(path)
         /\ DOMAIN path' = DOMAIN path
         /\ \A n \in DOMAIN path : path'[n].item = path[n].item
         /\ \A n \in DOMAIN path : n # Len(path) => path'[n] = path[n]
         /\ path'[Len(path)].next = Top.next + 1
<1>1. PICK top : top = Top.item
  OBVIOUS
<1>2. pc = "sort" /\ path # <<>> /\ Top.next \in DOMAIN dependencies[top]
  BY <1>1 DEF AtNeighbor
<1>3. /\ Sorting /\ Stack /\ Accounted
      /\ path \in Seq(Frames) /\ Len(path) \in Nat \ {0}
      /\ DOMAIN path = 1..Len(path)
      /\ Len(path) \in DOMAIN path /\ 1 \in DOMAIN path
      /\ path[Len(path)].item = top
      /\ path[Len(path)].next = Top.next
      /\ DOMAIN dependencies[top] = 1..Len(dependencies[top])
      /\ Len(dependencies[top]) \in Nat
  BY <1>1, <1>2, TopCall
<1>4. /\ path' \in Seq(Frames) /\ path' # <<>>
      /\ Len(path') = Len(path) /\ DOMAIN path' = DOMAIN path
      /\ \A n \in DOMAIN path : path'[n].item = path[n].item
      /\ \A n \in DOMAIN path : n # Len(path) => path'[n] = path[n]
      /\ path'[Len(path)].next = path[Len(path)].next + 1
  <2>1. path' = [path EXCEPT ![Len(path)].next = @ + 1]
    BY DEF Advanced
  <2> QED BY <1>2, <1>3, <2>1, StackAdvances, Zenon
<1>5. StackTypes'
  BY <1>4 DEF IInv, Types, StackTypes
<1>6. visiting' = visiting
  BY <1>4 DEF visiting
<1>7. \A n \in DOMAIN path' :
        /\ path'[n].item \in Known'
        /\ path'[n].next \in 1..(Len(dependencies'[path'[n].item]) + 1)
        /\ n < Len(path') =>
             /\ path'[n].next > 1
             /\ dependencies'[path'[n].item][path'[n].next - 1] = path'[n + 1].item
  <2>a. Known' = Known
    BY SameGraph
  <2> SUFFICES ASSUME NEW n \in DOMAIN path
               PROVE  /\ path[n].item \in Known
                      /\ path'[n].next \in 1..(Len(dependencies[path[n].item]) + 1)
                      /\ n < Len(path) =>
                           /\ path'[n].next > 1
                           /\ dependencies[path[n].item][path'[n].next - 1]
                                = path'[n + 1].item
    <3>1. /\ Len(path') = Len(path) /\ DOMAIN path' = DOMAIN path
          /\ \A k \in DOMAIN path : path'[k].item = path[k].item
      BY <1>4
    <3> QED BY <2>a, <3>1
  <2>1. CASE n = Len(path)
    <3>1. path[n].item = top /\ top \in Known
      BY <1>3, <2>1 DEF Stack
    <3>2. path'[n].next = Top.next + 1 /\ ~(n < Len(path))
      BY <1>3, <1>4, <2>1
    <3>3. Top.next + 1 \in 1..(Len(dependencies[top]) + 1)
      BY <1>2, <1>3
    <3> QED BY <3>1, <3>2, <3>3
  <2>2. CASE n # Len(path)
    <3>1. n < Len(path) /\ n + 1 \in DOMAIN path /\ path'[n] = path[n]
      BY <1>3, <1>4, <2>2
    <3> QED BY <1>3, <1>4, <3>1 DEF Stack
  <2> QED BY <2>1, <2>2
<1>8. /\ \A m, n \in DOMAIN path' : path'[m].item = path'[n].item => m = n
      /\ \A n \in DOMAIN path' : path'[n].item \notin visited'
      /\ path'[1].item \in todo'
      /\ path'[1].item \in Items' =>
           visited' \cup visiting' \subseteq Reachable(path[1].item)'
  <2>1. PICK first : first = path[1].item
    OBVIOUS
  <2>2. path'[1].item = first
    BY <1>3, <1>4, <2>1
  <2>3. first \in Items' => visited' \cup visiting' \subseteq Reachable(first)'
    BY <1>3, <1>6, <2>1, SameGraph DEF Stack
  <2>4. Reachable(path[1].item)' = Reachable(first)'
    BY <2>2 DEF Reachable
  <2>5. \A m, n \in DOMAIN path' : path'[m].item = path'[n].item => m = n
    BY <1>3, <1>4 DEF Stack
  <2>6. \A n \in DOMAIN path' : path'[n].item \notin visited'
    BY <1>3, <1>4 DEF Stack
  <2>7. path'[1].item \in todo'
    BY <1>3, <2>1, <2>2 DEF Stack
  <2> QED BY <2>2, <2>3, <2>4, <2>5, <2>6, <2>7, Zenon
<1>9. Elems(result') = visited' /\ Distinct(result)' /\ visited' \subseteq Known'
  BY <1>3, SameGraph DEF Stack, Distinct
<1>10. Stack'
  BY <1>7, <1>8, <1>9 DEF Stack
<1> QED BY <1>3, <1>4, <1>5, <1>6, <1>10

LEMMA AdvanceAccounts ==
  ASSUME IInv, NEW neighbor, AtNeighbor(neighbor), path' = Advanced,
         UNCHANGED <<dependencies, visited, result, todo>>, ErrorsGrow,
         NEW top, top = Top.item, Seen(top, neighbor)'
  PROVE  Accounted'
<1>2. pc = "sort" /\ path # <<>> /\ neighbor = dependencies[top][Top.next]
  BY DEF AtNeighbor
<1>3. /\ Stack /\ Accounted
      /\ Len(path) \in Nat \ {0} /\ DOMAIN path = 1..Len(path)
      /\ 1 \in DOMAIN path /\ Len(path) \in DOMAIN path
      /\ path[Len(path)].item = top /\ path[Len(path)].next = Top.next
      /\ Top.next \in 1..(Len(dependencies[top]) + 1)
      /\ Len(dependencies[top]) \in Nat
  BY <1>2, TopCall
<1>4. /\ visiting' = visiting /\ Len(path') = Len(path)
      /\ DOMAIN path' = DOMAIN path
      /\ \A n \in DOMAIN path : path'[n].item = path[n].item
      /\ \A n \in DOMAIN path : n # Len(path) => path'[n] = path[n]
      /\ path'[Len(path)].next = Top.next + 1
  BY AdvanceKeepsStack
<1>5. ASSUME NEW v, NEW d, Seen(v, d) PROVE Seen(v, d)'
  BY <1>3, <1>4, <1>5, SeenStays
<1>6. \A v \in visited' : \A d \in Elems(dependencies'[v]) : Seen(v, d)'
  BY <1>3, <1>5 DEF Accounted
<1>7. ASSUME NEW n \in DOMAIN path', NEW k \in 1..Past(n)', NEW v, NEW d,
             v = path'[n].item, d = dependencies'[v][k]
      PROVE  Seen(v, d)'
  <2>0. n \in DOMAIN path /\ v = path[n].item /\ d = dependencies[v][k]
    BY <1>4, <1>7
  <2>1. CASE n = Len(path)
    <3>1. Past(n) = Top.next - 1 /\ k \in 1..Top.next /\ v = top
      BY <1>3, <1>4, <2>0, <2>1 DEF Past
    <3>2. CASE k = Top.next
      BY <1>2, <2>0, <3>1, <3>2
    <3>3. CASE k # Top.next
      <4>1. k \in 1..Past(n)
        BY <1>3, <3>1, <3>3
      <4>2. Seen(v, d)
        BY <1>3, <2>0, <4>1 DEF Accounted
      <4> QED BY <1>5, <4>2
    <3> QED BY <3>2, <3>3
  <2>2. CASE n # Len(path)
    <3>1. k \in 1..Past(n)
      BY <1>4, <2>0, <2>2 DEF Past
    <3>2. Seen(v, d)
      BY <1>3, <2>0, <3>1 DEF Accounted
    <3> QED BY <1>5, <3>2
  <2> QED BY <2>1, <2>2
<1>8. cycles' = <<>> => KnownFirst(result)'
  BY <1>3, SameGraph DEF Accounted, ErrorsGrow, KnownFirst
<1>9. \A n \in DOMAIN path' : \A k \in 1..Past(n)' :
        Seen(path[n].item, dependencies[path[n].item][k])'
  <2> SUFFICES ASSUME NEW n \in DOMAIN path', NEW k \in 1..Past(n)'
               PROVE  Seen(path[n].item, dependencies[path[n].item][k])'
    OBVIOUS
  <2>1. PICK v, d : v = path'[n].item /\ d = dependencies'[v][k]
    OBVIOUS
  <2>2. Seen(v, d)'
    BY <1>7, <2>1
  <2> QED BY <2>1, <2>2 DEF Seen
<1> QED BY <1>6, <1>8, <1>9 DEF Accounted

-----------------------------------------------------------------------------
(* Sorting: the entries of a list of dependencies *)

LEMMA unknownNeighborKeeps ==
  ASSUME IInv, NEW neighbor \in Names, unknownNeighbor(neighbor)
  PROVE  IInv'
<1>1. PICK top : top = Top.item
  OBVIOUS
<1>2. /\ AtNeighbor(neighbor) /\ pc = "sort" /\ path # <<>>
      /\ Top.next \in DOMAIN dependencies[top]
      /\ neighbor = dependencies[top][Top.next]
      /\ neighbor \notin Known /\ path' = Advanced
      /\ UNCHANGED <<client, outputs, cycles, visited, result, partition, pc, todo>>
  BY <1>1 DEF unknownNeighbor, AtNeighbor, Known
<1>3. UNCHANGED dependencies /\ Known' = Known /\ Items' = Items
  BY <1>2, SameGraph DEF client
<1>4. /\ Sorting /\ Stack /\ top \in Known /\ top \in All
      /\ neighbor \in Elems(dependencies[top])
      /\ path[1].item \in Known
  BY <1>1, <1>2, TopCall DEF Elems, Stack
<1>5. top \in Items
  BY <1>2, <1>4 DEF Sorting, Items, Known
<1>6. PICK seen : seen = ListAt(unknowns, top)
  OBVIOUS
<1>7. seen \in Seq(Names)
  <2>1. <<>> \in Seq(Names)
    OBVIOUS
  <2> QED BY <1>6, <2>1 DEF IInv, Types, ErrorTypes, ListAt
<1>8. unknowns' = IF neighbor \in Elems(seen) THEN unknowns
                  ELSE Put(unknowns, top, Append(seen, neighbor))
  BY <1>1, <1>6 DEF unknownNeighbor
<1>9. UnknownsGenuine /\ CyclesAreGenuine
  BY <1>4 DEF Sorting
<1>10. /\ ErrorTypes' /\ UnknownsGenuine' /\ neighbor \in Elems(ListAt(unknowns', top))
       /\ \A i : Elems(ListAt(unknowns, i)) \subseteq Elems(ListAt(unknowns', i))
  <2>1. CASE neighbor \in Elems(seen)
    <3>1. unknowns' = unknowns
      BY <1>8, <2>1
    <3>2. UNCHANGED <<errors, dependencies>>
      BY <1>2, <1>3, <3>1 DEF errors
    <3>3. UnknownsGenuine'
      BY <1>9, <3>2, ErrorsStay
    <3> QED BY <1>6, <2>1, <3>1, <3>2, <3>3, TypesKept DEF IInv
  <2>2. CASE neighbor \notin Elems(seen)
    <3> DEFINE more == Append(seen, neighbor)
    <3>1. unknowns' = Put(unknowns, top, more)
      BY <1>8, <2>2
    <3>2. /\ more \in Seq(Names) /\ Elems(more) = Elems(seen) \cup {neighbor}
          /\ Len(seen) \in Nat
      BY <1>7, ElemsOfAppend
    <3>3. Distinct(seen) /\ Elems(seen) \subseteq Elems(dependencies[top]) \ Items
      BY <1>6, <1>9, ElemsOfEmpty DEF UnknownsGenuine, ListAt
    <3>4. Distinct(more)
      BY <1>7, <2>2, <3>3, DistinctAppend
    <3> HIDE DEF more
    <3>5. /\ DOMAIN unknowns' = DOMAIN unknowns \cup {top} /\ unknowns'[top] = more
          /\ \A i \in DOMAIN unknowns : i # top => unknowns'[i] = unknowns[i]
      BY <3>1 DEF Put
    <3>6. ErrorTypes'
      BY <1>2, <1>4, <3>2, <3>5 DEF IInv, Types, ErrorTypes
    <3>7. /\ ListAt(unknowns', top) = more
          /\ \A i : i # top => ListAt(unknowns', i) = ListAt(unknowns, i)
      BY <3>1, ListAtPut
    <3>8. \A i : Elems(ListAt(unknowns, i)) \subseteq Elems(ListAt(unknowns', i))
      BY <1>6, <3>2, <3>7
    <3>9. UnknownsGenuine'
      <4>1. DOMAIN unknowns' \subseteq Items' /\ DOMAIN unknowns' # {}
        BY <1>3, <1>5, <1>9, <3>5 DEF UnknownsGenuine
      <4>2. /\ Elems(more) # {} /\ Distinct(more)
            /\ Elems(more) \subseteq Elems(dependencies[top]) \ Items
        BY <1>2, <1>4, <3>2, <3>3, <3>4 DEF Items, Known
      <4>3. \A i \in DOMAIN unknowns' :
              /\ Elems(unknowns'[i]) # {} /\ Distinct(unknowns'[i])
              /\ Elems(unknowns'[i]) \subseteq Elems(dependencies[i]) \ Items
        BY <1>9, <3>5, <4>2 DEF UnknownsGenuine
      <4>4. \A i : Distinct(unknowns'[i]) => Distinct(unknowns[i])'
        BY DEF Distinct
      <4> QED BY <1>3, <4>1, <4>3, <4>4 DEF UnknownsGenuine
    <3> QED BY <3>2, <3>6, <3>7, <3>8, <3>9
  <2> QED BY <2>1, <2>2
<1>11. ErrorsGrow /\ CyclesAreGenuine'
  <2>1. CyclesAreGenuine'
    BY <1>2, <1>3, <1>9 DEF CyclesAreGenuine, Genuine
  <2> QED BY <1>2, <1>10, <2>1 DEF ErrorsGrow, OnReportedCycle
<1>12. StackTypes' /\ Stack' /\ path' # <<>> /\ path'[1].item = path[1].item
  BY <1>1, <1>2, <1>3, AdvanceKeepsStack, TopCall
<1>13. Seen(top, neighbor)'
  BY <1>2, <1>3, <1>4, <1>10, <1>12 DEF Seen
<1>14. Accounted'
  BY <1>1, <1>2, <1>3, <1>11, <1>13, AdvanceAccounts
<1> QED BY <1>2, <1>10, <1>11, <1>12, <1>14, NeighborStep

LEMMA visitedNeighborKeeps ==
  ASSUME IInv, NEW neighbor \in Names, visitedNeighbor(neighbor)
  PROVE  IInv'
<1>1. PICK top : top = Top.item
  OBVIOUS
<1>2. /\ AtNeighbor(neighbor) /\ pc = "sort" /\ path # <<>>
      /\ neighbor \in visited /\ path' = Advanced
      /\ UNCHANGED <<client, outputs, errors, visited, result, partition, pc, todo>>
  BY DEF visitedNeighbor, AtNeighbor
<1>3. UNCHANGED dependencies /\ Known' = Known
  BY <1>2, SameGraph DEF client
<1>4. Sorting /\ Stack /\ 1 \in DOMAIN path
  BY <1>1, <1>2, TopCall
<1>5. ErrorsGrow /\ UnknownsGenuine' /\ CyclesAreGenuine' /\ ErrorTypes'
  BY <1>2, <1>3, <1>4, ErrorsStay, TypesKept DEF Sorting, IInv
<1>6. StackTypes' /\ Stack' /\ path' # <<>> /\ path'[1].item = path[1].item
  BY <1>2, <1>3, <1>4, AdvanceKeepsStack
<1>7. Seen(top, neighbor)'
  BY <1>2, <1>3, <1>4, <1>6 DEF Seen, Stack
<1>8. Accounted'
  BY <1>1, <1>2, <1>3, <1>5, <1>7, AdvanceAccounts
<1> QED BY <1>2, <1>5, <1>6, <1>8, NeighborStep

LEMMA enterNeighborKeeps ==
  ASSUME IInv, NEW neighbor \in Names, enterNeighbor(neighbor)
  PROVE  IInv'
<1>1. PICK top : top = Top.item
  OBVIOUS
<1>2. /\ AtNeighbor(neighbor) /\ pc = "sort" /\ path # <<>>
      /\ Top.next \in DOMAIN dependencies[top]
      /\ neighbor = dependencies[top][Top.next]
      /\ neighbor \in Known /\ neighbor \notin visited /\ neighbor \notin visiting
      /\ path' = Append(Advanced, Frame(neighbor))
      /\ UNCHANGED <<client, outputs, errors, visited, result, partition, pc, todo>>
  BY <1>1 DEF enterNeighbor, AtNeighbor, Known
<1>3. UNCHANGED dependencies /\ Known' = Known /\ Items' = Items
      /\ \A i : Reachable(i)' = Reachable(i)
  BY <1>2, SameGraph DEF client
<1>4. /\ Sorting /\ Stack /\ Accounted
      /\ path \in Seq(Frames) /\ Len(path) \in Nat \ {0}
      /\ DOMAIN path = 1..Len(path)
      /\ Len(path) \in DOMAIN path /\ 1 \in DOMAIN path
      /\ path[Len(path)].item = top /\ top \in visiting
      /\ path[Len(path)].next = Top.next
      /\ neighbor \in Elems(dependencies[top])
      /\ DOMAIN dependencies[top] = 1..Len(dependencies[top])
      /\ Len(dependencies[top]) \in Nat
  BY <1>1, <1>2, TopCall DEF Elems
<1>5. PICK back : back = Advanced
  OBVIOUS
<1>6. /\ back \in Seq(Frames) /\ Len(back) = Len(path) /\ DOMAIN back = DOMAIN path
      /\ \A n \in DOMAIN path : back[n].item = path[n].item
      /\ \A n \in DOMAIN path : n # Len(path) => back[n] = path[n]
      /\ back[Len(path)].next = Top.next + 1
  <2>1. back = [path EXCEPT ![Len(path)].next = @ + 1]
    BY <1>5 DEF Advanced
  <2>2. path \in Seq(Frames) /\ path # <<>>
    BY <1>2, <1>4
  <2>3. /\ back \in Seq(Frames) /\ back # <<>>
        /\ Len(back) = Len(path) /\ DOMAIN back = DOMAIN path
        /\ \A n \in DOMAIN path : back[n].item = path[n].item
        /\ \A n \in DOMAIN path : n # Len(path) => back[n] = path[n]
        /\ back[Len(path)].next = path[Len(path)].next + 1
    <3>1. ASSUME NEW q, q = [path EXCEPT ![Len(path)].next = @ + 1]
          PROVE  /\ q \in Seq(Frames) /\ q # <<>>
                 /\ Len(q) = Len(path) /\ DOMAIN q = DOMAIN path
                 /\ \A n \in DOMAIN path : q[n].item = path[n].item
                 /\ \A n \in DOMAIN path : n # Len(path) => q[n] = path[n]
                 /\ q[Len(path)].next = path[Len(path)].next + 1
      BY <2>2, <3>1, StackAdvances
    <3> QED BY <2>1, <3>1
  <2> QED BY <1>4, <2>3
<1>7. /\ path' \in Seq(Frames) /\ path' # <<>>
      /\ Len(path') = Len(path) + 1 /\ DOMAIN path' = 1..(Len(path) + 1)
      /\ \A n \in DOMAIN path : path'[n].item = path[n].item
      /\ \A n \in DOMAIN path : n # Len(path) => path'[n] = path[n]
      /\ path'[Len(path)].next = Top.next + 1
      /\ path'[Len(path) + 1].item = neighbor
      /\ path'[Len(path) + 1].next = 1
  <2>1. path' = Append(back, Frame(neighbor)) /\ neighbor \in All
    BY <1>2, <1>5 DEF All
  <2>2. /\ path' \in Seq(Frames) /\ path' # <<>>
        /\ Len(path') = Len(back) + 1 /\ DOMAIN path' = 1..(Len(back) + 1)
        /\ \A n \in DOMAIN back : path'[n] = back[n]
        /\ path'[Len(back) + 1].item = neighbor
        /\ path'[Len(back) + 1].next = 1
    BY <1>6, <2>1, StackGrows, Zenon
  <2> QED BY <1>4, <1>6, <2>2
<1>8. StackTypes'
  BY <1>2, <1>7 DEF IInv, Types, StackTypes
<1>9. visiting' = visiting \cup {neighbor}
  <2>1. visiting' \subseteq visiting \cup {neighbor}
    BY <1>4, <1>7 DEF visiting
  <2>2. visiting \subseteq visiting'
    BY <1>4, <1>7 DEF visiting
  <2>3. neighbor \in visiting'
    BY <1>4, <1>7 DEF visiting
  <2> QED BY <2>1, <2>2, <2>3
<1>10. PICK first : first = path[1].item
  OBVIOUS
<1>11. path'[1].item = first /\ first \in todo /\ first \in Known
  BY <1>4, <1>7, <1>10 DEF Stack
<1>12. Stack'
  <2>1. \A n \in DOMAIN path' :
          /\ path'[n].item \in Known'
          /\ path'[n].next \in 1..(Len(dependencies'[path'[n].item]) + 1)
          /\ n < Len(path') =>
               /\ path'[n].next > 1
               /\ dependencies'[path'[n].item][path'[n].next - 1] = path'[n + 1].item
    <3> SUFFICES ASSUME NEW n \in 1..(Len(path) + 1)
                 PROVE  /\ path'[n].item \in Known
                        /\ path'[n].next \in 1..(Len(dependencies[path'[n].item]) + 1)
                        /\ n < Len(path') =>
                             /\ path'[n].next > 1
                             /\ dependencies[path'[n].item][path'[n].next - 1]
                                  = path'[n + 1].item
      BY <1>3, <1>7
    <3>1. CASE n = Len(path) + 1
      <4>1. dependencies[neighbor] \in Seq(Names)
        BY <1>2 DEF IInv, Types, GraphTypes
      <4>2. 1 \in 1..(Len(dependencies[neighbor]) + 1)
        BY <4>1
      <4>3. ~(n < Len(path'))
        BY <1>4, <1>7, <3>1
      <4>4. path'[n].item = neighbor /\ path'[n].next = 1 /\ neighbor \in Known
        BY <1>2, <1>7, <3>1
      <4> QED BY <4>2, <4>3, <4>4
    <3>2. CASE n = Len(path)
      <4>1. PICK next, length : next = Top.next /\ length = Len(dependencies[top])
        OBVIOUS
      <4>2. next \in 1..length /\ length \in Nat
        BY <1>2, <1>4, <4>1
      <4>3. next + 1 > 1 /\ (next + 1) - 1 = next /\ next + 1 \in 1..(length + 1)
        BY <4>2
      <4>4. path'[n].item = top /\ path'[n].next = next + 1 /\ top \in Known
        BY <1>4, <1>7, <3>2, <4>1 DEF Stack
      <4>5. path'[n + 1].item = neighbor /\ neighbor = dependencies[top][next]
        BY <1>2, <1>7, <3>2, <4>1
      <4> QED BY <4>1, <4>3, <4>4, <4>5
    <3>3. CASE n # Len(path) /\ n # Len(path) + 1
      <4>1. n \in DOMAIN path /\ n < Len(path) /\ n + 1 \in DOMAIN path
        BY <1>4, <3>3
      <4>2. path'[n] = path[n] /\ path'[n + 1].item = path[n + 1].item
        BY <1>7, <3>3, <4>1
      <4> QED BY <1>4, <4>1, <4>2 DEF Stack
    <3> QED BY <3>1, <3>2, <3>3
  <2>2. \A n \in DOMAIN path : path[n].item # neighbor
    BY <1>2 DEF visiting
  <2>3. \A m, n \in DOMAIN path' : path'[m].item = path'[n].item => m = n
    <3>1. \A n \in DOMAIN path' : n \in DOMAIN path \/ n = Len(path) + 1
      BY <1>4, <1>7
    <3> QED BY <1>4, <1>7, <2>2, <3>1 DEF Stack
  <2>4. \A n \in DOMAIN path' : path'[n].item \notin visited'
    <3>1. \A n \in DOMAIN path' : n \in DOMAIN path \/ n = Len(path) + 1
      BY <1>4, <1>7
    <3> QED BY <1>2, <1>4, <1>7, <3>1 DEF Stack
  <2>5. Elems(result') = visited' /\ Distinct(result)' /\ visited' \subseteq Known'
    BY <1>2, <1>3, <1>4 DEF Stack, Distinct
  <2>6. path'[1].item \in todo'
    BY <1>2, <1>11
  <2>7. first \in Items => visited \cup visiting' \subseteq Reachable(first)
    <3> SUFFICES ASSUME first \in Items PROVE visited \cup visiting' \subseteq Reachable(first)
      OBVIOUS
    <3>1. visited \cup visiting \subseteq Reachable(first)
      BY <1>4, <1>10 DEF Stack
    <3>2. top \in Reachable(first)
      BY <1>4, <3>1
    <3>3. neighbor \in Items
      BY <1>2, RootIsNoName DEF Known, Items
    <3>4. neighbor \in Reachable(first)
      BY <1>4, <3>2, <3>3, ReachesOn
    <3> QED BY <1>9, <3>1, <3>4
  <2>8. Reachable(path[1].item)' = Reachable(first)'
    BY <1>11 DEF Reachable
  <2>9. path'[1].item \in Items' => visited' \cup visiting' \subseteq Reachable(path[1].item)'
    BY <1>2, <1>3, <1>11, <2>7, <2>8
  <2> QED BY <2>1, <2>3, <2>4, <2>5, <2>6, <2>9 DEF Stack
<1>13. ErrorsGrow /\ UnknownsGenuine' /\ CyclesAreGenuine' /\ ErrorTypes'
  BY <1>2, <1>3, <1>4, ErrorsStay, TypesKept DEF Sorting, IInv
<1>14. ASSUME NEW v, NEW d, Seen(v, d) PROVE Seen(v, d)'
  <2>1. visited \subseteq visited' /\ visiting \subseteq visited' \cup visiting'
    BY <1>2, <1>9
  <2>2. path'[1].item = path[1].item
    BY <1>10, <1>11
  <2> QED BY <1>3, <1>13, <1>14, <2>1, <2>2, SeenStays
<1>15. ASSUME NEW n \in DOMAIN path', NEW k \in 1..Past(n)', NEW v, NEW d,
              v = path'[n].item, d = dependencies'[v][k]
       PROVE  Seen(v, d)'
  <2>1. CASE n = Len(path) + 1
    <3>1. Past(n)' = 0
      BY <1>4, <1>7, <2>1 DEF Past
    <3> QED BY <3>1
  <2>2. CASE n # Len(path) + 1
    <3>1. n \in DOMAIN path /\ v = path[n].item /\ d = dependencies[v][k]
      BY <1>3, <1>4, <1>7, <1>15, <2>2
    <3>2. Past(n)' = path'[n].next - 2
      BY <1>4, <1>7, <3>1 DEF Past
    <3>3. CASE n = Len(path)
      <4>1. Past(n) = Top.next - 1 /\ Past(n)' = Top.next - 1
        <5>1. Past(n) = Top.next - 1
          BY <1>4, <3>1, <3>3 DEF Past
        <5>2. path'[n].next = Top.next + 1
          BY <1>7, <3>3
        <5>3. Top.next \in Nat
          <6>1. Top.next \in 1..Len(dependencies[top])
            BY <1>2, <1>4
          <6> QED BY <1>4, <6>1
        <5>4. (Top.next + 1) - 2 = Top.next - 1
          BY <5>3
        <5> QED BY <3>2, <5>1, <5>2, <5>4, Zenon
      <4>2. Seen(v, d)
        BY <1>4, <3>1, <4>1 DEF Accounted
      <4> QED BY <1>14, <4>2
    <3>4. CASE n # Len(path)
      <4>1. Past(n) = Past(n)'
        BY <1>4, <1>7, <3>1, <3>2, <3>4 DEF Past
      <4>2. Seen(v, d)
        BY <1>4, <3>1, <4>1 DEF Accounted
      <4> QED BY <1>14, <4>2
    <3> QED BY <3>3, <3>4
  <2> QED BY <2>1, <2>2
<1>16. Accounted'
  <2>1. \A v \in visited' : \A d \in Elems(dependencies'[v]) : Seen(v, d)'
    BY <1>2, <1>3, <1>4, <1>14 DEF Accounted
  <2>2. cycles' = <<>> => KnownFirst(result)'
    BY <1>2, <1>3, <1>4 DEF Accounted, KnownFirst, errors
  <2>3. \A n \in DOMAIN path' : \A k \in 1..Past(n)' :
          Seen(path[n].item, dependencies[path[n].item][k])'
    <3> SUFFICES ASSUME NEW n \in DOMAIN path', NEW k \in 1..Past(n)'
                 PROVE  Seen(path[n].item, dependencies[path[n].item][k])'
      OBVIOUS
    <3>1. PICK v, d : v = path'[n].item /\ d = dependencies'[v][k]
      OBVIOUS
    <3>2. Seen(v, d)'
      BY <1>15, <3>1
    <3> QED BY <3>1, <3>2 DEF Seen
  <2> QED BY <2>1, <2>2, <2>3 DEF Accounted
<1> QED BY <1>2, <1>7, <1>8, <1>12, <1>13, <1>16, NeighborStep

-----------------------------------------------------------------------------
(* Sorting: cycles *)

\* The place of the walk that comes to a place when the walk is rotated to
\* start at place m.
Turned(k, m, length) ==
  IF k + m - 1 <= length THEN k + m - 1 ELSE k + m - 1 - length

\* It is a permutation of the places that keeps the place after a place, and
\* the one that Canonical computes with a remainder.
Rotates(m, L) ==
  /\ \A k \in 1..L : ((k + m - 2) % L) + 1 = Turned(k, m, L)
  /\ \A k \in 1..L : Turned(k, m, L) \in 1..L /\ After(k, L) \in 1..L
  /\ \A k, l \in 1..L : Turned(k, m, L) = Turned(l, m, L) => k = l
  /\ \A k \in 1..L : Turned(After(k, L), m, L) = After(Turned(k, m, L), L)
  /\ \A j \in 1..L : \E k \in 1..L : Turned(k, m, L) = j
  /\ Turned(1, m, L) = m

LEMMA Turning ==
  ASSUME NEW L \in Nat \ {0}, NEW m \in 1..L
  PROVE  Rotates(m, L)
<1>1. ASSUME NEW k \in 1..L PROVE ((k + m - 2) % L) + 1 = Turned(k, m, L)
  <2>1. CASE k + m - 1 <= L
    <3>1. k + m - 2 \in 0..(L - 1)
      BY <2>1
    <3>2. (k + m - 2) % L = k + m - 2
      BY <3>1
    <3> QED BY <2>1, <3>2 DEF Turned
  <2>2. CASE ~(k + m - 1 <= L)
    <3>1. k + m - 2 \in L..(2 * L - 1) /\ k + m - 2 = 1 * L + (k + m - 2 - L)
      BY <2>2
    <3>2. (k + m - 2) % L = k + m - 2 - L
      BY <3>1
    <3> QED BY <2>2, <3>2 DEF Turned
  <2> QED BY <2>1, <2>2
<1>2. \A k \in 1..L : Turned(k, m, L) \in 1..L /\ After(k, L) \in 1..L
  BY DEF Turned, After
<1>3. \A k, l \in 1..L : Turned(k, m, L) = Turned(l, m, L) => k = l
  BY DEF Turned
<1>4. \A k \in 1..L : Turned(After(k, L), m, L) = After(Turned(k, m, L), L)
  BY DEF Turned, After
<1>5. ASSUME NEW j \in 1..L PROVE \E k \in 1..L : Turned(k, m, L) = j
  <2>1. CASE j >= m
    <3>1. j - m + 1 \in 1..L /\ Turned(j - m + 1, m, L) = j
      BY <2>1 DEF Turned
    <3> QED BY <3>1
  <2>2. CASE ~(j >= m)
    <3>1. j - m + 1 + L \in 1..L /\ Turned(j - m + 1 + L, m, L) = j
      BY <2>2 DEF Turned
    <3> QED BY <3>1
  <2> QED BY <2>1, <2>2
<1>6. Turned(1, m, L) = m
  BY DEF Turned
<1> QED BY <1>1, <1>2, <1>3, <1>4, <1>5, <1>6 DEF Rotates

\* The rotation starts at a place with the earliest item.
LEMMA CanonicalIsGenuine ==
  ASSUME NEW c \in Seq(Items), Items \subseteq Nat, Len(c) > 0, Distinct(c),
         \A k \in 1..Len(c) : c[After(k, Len(c))] \in Elems(dependencies[c[k]]),
         NEW r, r = Canonical(c)
  PROVE  Genuine(r) /\ Elems(r) = Elems(c)
<1>1. PICK L \in Nat \ {0} : L = Len(c)
  OBVIOUS
<1>2. DOMAIN c = 1..L /\ Len(c) = L
  BY <1>1
<1>3. /\ r \in [1..L -> Items]
      /\ \E m \in 1..L :
           /\ \A n \in 1..L : c[m] <= c[n]
           /\ \A k \in 1..L : r[k] = c[Turned(k, m, L)]
  <2>1. DOMAIN c = 1..L /\ 1 \in 1..L /\ \A k \in 1..L : c[k] \in Items
    BY <1>2
  <2>2. \E m \in DOMAIN c : \A n \in DOMAIN c : c[m] <= c[n]
    <3>1. Elems(c) \subseteq Nat /\ c[1] \in Elems(c)
      BY <2>1 DEF Elems
    <3>2. PICK e \in Elems(c) : \A f \in Elems(c) : e <= f
      BY <3>1, LeastNatural
    <3> QED BY <3>2 DEF Elems
  <2>3. PICK m : m = CHOOSE n \in DOMAIN c : \A l \in DOMAIN c : c[n] <= c[l]
    OBVIOUS
  <2>4. m \in 1..L /\ \A n \in 1..L : c[m] <= c[n]
    BY <2>1, <2>2, <2>3
  <2>5. r = [k \in 1..L |-> c[((k + m - 2) % L) + 1]]
    BY <2>1, <2>3 DEF Canonical
  <2>6. \A k \in 1..L : r[k] = c[Turned(k, m, L)] /\ Turned(k, m, L) \in 1..L
    <3>1. Rotates(m, L)
      BY <2>4, Turning
    <3>2. \A k \in 1..L : ((k + m - 2) % L) + 1 = Turned(k, m, L)
      BY <3>1, Zenon DEF Rotates
    <3>3. \A k \in 1..L : Turned(k, m, L) \in 1..L
      BY <3>1, Zenon DEF Rotates
    <3>4. \A k \in 1..L : r[k] = c[((k + m - 2) % L) + 1]
      BY <2>5, Zenon
    <3> QED BY <3>2, <3>3, <3>4, Zenon
  <2>7. r \in [1..L -> Items]
    BY <2>1, <2>5, <2>6
  <2> QED BY <2>4, <2>6, <2>7
<1>4. r \in Seq(Items) /\ Len(r) = L /\ DOMAIN r = 1..L
  BY <1>3
<1>5. PICK m \in 1..L : /\ \A n \in 1..L : c[m] <= c[n]
                       /\ \A k \in 1..L : r[k] = c[Turned(k, m, L)]
  BY <1>3
<1>6. /\ \A k \in 1..L : Turned(k, m, L) \in 1..L /\ After(k, L) \in 1..L
      /\ \A k, l \in 1..L : Turned(k, m, L) = Turned(l, m, L) => k = l
      /\ \A k \in 1..L : Turned(After(k, L), m, L) = After(Turned(k, m, L), L)
      /\ \A j \in 1..L : \E k \in 1..L : Turned(k, m, L) = j
      /\ Turned(1, m, L) = m
  <2>1. Rotates(m, L)
    BY Turning
  <2> QED BY <2>1, Zenon DEF Rotates
<1>7. Distinct(r)
  <2>1. \A i, j \in 1..L : c[i] = c[j] => i = j
    BY <1>2 DEF Distinct
  <2>2. ASSUME NEW k \in 1..L, NEW l \in 1..L, r[k] = r[l] PROVE k = l
    <3>1. c[Turned(k, m, L)] = c[Turned(l, m, L)]
      BY <1>5, <2>2
    <3>2. Turned(k, m, L) = Turned(l, m, L)
      <4>1. Turned(k, m, L) \in 1..L /\ Turned(l, m, L) \in 1..L
        BY <1>6
      <4> QED BY <2>1, <3>1, <4>1, Zenon
    <3> QED BY <1>6, <3>2
  <2> QED BY <1>4, <2>2 DEF Distinct
<1>8. \A k \in 1..L : r[After(k, L)] \in Elems(dependencies[r[k]])
  <2> SUFFICES ASSUME NEW k \in 1..L
               PROVE  r[After(k, L)] \in Elems(dependencies[r[k]])
    OBVIOUS
  <2>1. r[k] = c[Turned(k, m, L)] /\ r[After(k, L)] = c[After(Turned(k, m, L), L)]
    BY <1>5, <1>6
  <2> QED BY <1>1, <1>6, <2>1
<1>9. \A k \in 1..L : r[1] <= r[k]
  <2>1. 1 \in 1..L
    OBVIOUS
  <2>2. r[1] = c[Turned(1, m, L)]
    BY <1>5, <2>1, Zenon
  <2>3. r[1] = c[m]
    BY <1>6, <2>2, Zenon
  <2> QED BY <1>5, <1>6, <2>3
<1>10. Elems(r) = Elems(c)
  <2>1. Elems(r) \subseteq Elems(c)
    BY <1>2, <1>4, <1>5, <1>6 DEF Elems
  <2>2. ASSUME NEW j \in 1..L PROVE c[j] \in Elems(r)
    <3>1. PICK k \in 1..L : Turned(k, m, L) = j
      BY <1>6
    <3>2. r[k] = c[j]
      BY <1>5, <3>1
    <3> QED BY <1>4, <3>2 DEF Elems
  <2> QED BY <1>2, <2>1, <2>2 DEF Elems
<1> QED BY <1>4, <1>7, <1>8, <1>9, <1>10 DEF Genuine

\* The items from the one the entry names to the top of the stack.
LEMMA PathIsCycle ==
  ASSUME IInv, NEW neighbor \in Names, AtNeighbor(neighbor),
         neighbor \in visiting, NEW c, c = PathFrom(neighbor)
  PROVE  /\ c \in Seq(Items) /\ Len(c) > 0 /\ Distinct(c)
         /\ \A k \in 1..Len(c) :
              c[After(k, Len(c))] \in Elems(dependencies[c[k]])
         /\ neighbor \in Elems(c)
<1>1. PICK top : top = Top.item
  OBVIOUS
<1>2. /\ pc = "sort" /\ path # <<>>
      /\ Top.next \in DOMAIN dependencies[top]
      /\ neighbor = dependencies[top][Top.next]
  BY <1>1 DEF AtNeighbor
<1>3. /\ Stack
      /\ path \in Seq(Frames) /\ Len(path) \in Nat \ {0}
      /\ DOMAIN path = 1..Len(path)
      /\ path[Len(path)].item = top
      /\ neighbor \in Elems(dependencies[top])
  BY <1>1, <1>2, TopCall DEF Elems
<1>4. PICK first : first = CHOOSE n \in DOMAIN path : path[n].item = neighbor
  OBVIOUS
<1>5. first \in 1..Len(path) /\ path[first].item = neighbor
  BY <1>3, <1>4 DEF visiting
<1>6. PICK L : L = Len(path) - first + 1
  OBVIOUS
<1>7. L \in Nat \ {0} /\ first \in Nat \ {0}
      /\ \A k \in 1..L : first + k - 1 \in 1..Len(path)
  BY <1>3, <1>5, <1>6
<1>8. c = [k \in 1..L |-> path[first + k - 1].item]
  BY <1>4, <1>6 DEF PathFrom
<1>9. \A n \in 1..Len(path) : n < Len(path) =>
        path[n + 1].item \in Elems(dependencies[path[n].item]) /\ path[n + 1].item \in Names
  <2> SUFFICES ASSUME NEW n \in 1..Len(path), n < Len(path)
               PROVE  path[n + 1].item \in Elems(dependencies[path[n].item])
                      /\ path[n + 1].item \in Names
    OBVIOUS
  <2>1. /\ path[n].item \in Known
        /\ path[n].next \in 1..(Len(dependencies[path[n].item]) + 1)
        /\ path[n].next > 1
        /\ dependencies[path[n].item][path[n].next - 1] = path[n + 1].item
    BY <1>3 DEF Stack
  <2>2. dependencies[path[n].item] \in Seq(Names)
    BY <2>1 DEF IInv, Types, GraphTypes
  <2>3. path[n].next - 1 \in DOMAIN dependencies[path[n].item]
    BY <2>1, <2>2
  <2> QED BY <2>1, <2>2, <2>3 DEF Elems
<1>10. \A n \in first..Len(path) : path[n].item \in Items
  <2> SUFFICES ASSUME NEW n \in first..Len(path) PROVE path[n].item \in Items
    OBVIOUS
  <2>1. n \in 1..Len(path) /\ path[n].item \in Known
    BY <1>3, <1>5 DEF Stack
  <2>2. CASE n = first
    BY <1>5, <2>1, <2>2, RootIsNoName DEF Known, Items
  <2>3. CASE n # first
    <3>1. n - 1 \in 1..Len(path) /\ n - 1 < Len(path) /\ n - 1 + 1 = n
      BY <1>3, <1>5, <2>1, <2>3
    <3>2. path[n].item \in Names
      BY <1>9, <3>1
    <3> QED BY <2>1, <3>2, RootIsNoName DEF Known, Items
  <2> QED BY <2>2, <2>3
<1>11. c \in [1..L -> Items]
  <2>1. \A k \in 1..L : first + k - 1 \in first..Len(path)
    BY <1>3, <1>5, <1>6
  <2> QED BY <1>8, <1>10, <2>1
<1>12. c \in Seq(Items) /\ Len(c) = L /\ DOMAIN c = 1..L
  BY <1>7, <1>11
<1>13. Distinct(c)
  <2>1. \A k, l \in 1..L : c[k] = c[l] => first + k - 1 = first + l - 1
    <3>1. \A m, n \in 1..Len(path) : path[m].item = path[n].item => m = n
      BY <1>3 DEF Stack
    <3> QED BY <1>7, <1>8, <3>1
  <2>2. \A k, l \in 1..L : first + k - 1 = first + l - 1 => k = l
    BY <1>7
  <2> QED BY <1>12, <2>1, <2>2 DEF Distinct
<1>14. c[1] = neighbor /\ 1 \in 1..L /\ L \in 1..L /\ c[L] = top
  <2>1. 1 \in 1..L /\ L \in 1..L /\ first + 1 - 1 = first /\ first + L - 1 = Len(path)
    BY <1>3, <1>6, <1>7
  <2> QED BY <1>3, <1>5, <1>8, <2>1
<1>15. \A k \in 1..L : c[After(k, L)] \in Elems(dependencies[c[k]])
  <2> SUFFICES ASSUME NEW k \in 1..L
               PROVE  c[After(k, L)] \in Elems(dependencies[c[k]])
    OBVIOUS
  <2>1. CASE k = L
    BY <1>3, <1>14, <2>1 DEF After
  <2>2. CASE k # L
    <3>1. /\ k + 1 \in 1..L /\ first + k - 1 \in 1..Len(path)
          /\ first + k - 1 < Len(path) /\ first + (k + 1) - 1 = (first + k - 1) + 1
      BY <1>3, <1>6, <1>7, <2>2
    <3>2. c[k + 1] = path[(first + k - 1) + 1].item /\ c[k] = path[first + k - 1].item
      BY <1>8, <3>1
    <3> QED BY <1>9, <2>2, <3>1, <3>2 DEF After
  <2> QED BY <2>1, <2>2
<1>16. neighbor \in Elems(c) /\ Len(c) > 0
  BY <1>7, <1>12, <1>14 DEF Elems
<1> QED BY <1>12, <1>13, <1>15, <1>16

LEMMA cycleNeighborKeeps ==
  ASSUME IInv, NEW neighbor \in Names, cycleNeighbor(neighbor)
  PROVE  IInv'
<1>1. PICK top : top = Top.item
  OBVIOUS
<1>2. PICK cycle : cycle = Canonical(PathFrom(neighbor))
  OBVIOUS
<1>3. /\ AtNeighbor(neighbor) /\ pc = "sort" /\ path # <<>>
      /\ neighbor \in visiting /\ path' = Advanced
      /\ cycles' = IF cycle \in Elems(cycles) THEN cycles ELSE Append(cycles, cycle)
      /\ UNCHANGED <<client, outputs, unknowns, visited, result, partition, pc, todo>>
  BY <1>2 DEF cycleNeighbor, AtNeighbor
<1>4. UNCHANGED dependencies /\ Known' = Known /\ Items' = Items
  BY <1>3, SameGraph DEF client
<1>5. /\ Sorting /\ Stack /\ top \in Known /\ 1 \in DOMAIN path
      /\ DOMAIN path = 1..Len(path)
  BY <1>1, <1>3, TopCall
<1>6. Genuine(cycle) /\ neighbor \in Elems(cycle)
  <2>1. PICK c : c = PathFrom(neighbor)
    OBVIOUS
  <2>2. /\ c \in Seq(Items) /\ Len(c) > 0 /\ Distinct(c)
        /\ \A k \in 1..Len(c) :
             c[After(k, Len(c))] \in Elems(dependencies[c[k]])
        /\ neighbor \in Elems(c)
    BY <1>3, <2>1, PathIsCycle
  <2>3. Items \subseteq Nat
    BY NamesAssumption DEF IInv, Types, GraphTypes, All, Known, Items
  <2>4. cycle = Canonical(c)
    BY <1>2, <2>1
  <2> QED BY <2>2, <2>3, <2>4, CanonicalIsGenuine
<1>7. cycle \in Seq(All)
  <2>1. Items \subseteq All
    BY DEF IInv, Types, GraphTypes, Known, Items
  <2> QED BY <1>6, <2>1 DEF Genuine
<1>8. cycles \in Seq(Seq(All)) /\ CyclesAreGenuine /\ UnknownsGenuine
  BY <1>5 DEF IInv, Types, ErrorTypes, Sorting
<1>9. /\ cycles' \in Seq(Seq(All)) /\ Distinct(cycles')
      /\ cycle \in Elems(cycles') /\ Elems(cycles') = Elems(cycles) \cup {cycle}
  <2>1. CASE cycle \in Elems(cycles)
    BY <1>3, <1>8, <2>1 DEF CyclesAreGenuine
  <2>2. CASE cycle \notin Elems(cycles)
    <3>1. cycles' = Append(cycles, cycle)
      BY <1>3, <2>2
    <3>2. cycles' \in Seq(Seq(All))
      BY <1>7, <1>8, <3>1
    <3>3. Distinct(cycles')
      BY <1>8, <2>2, <3>1, DistinctAppend DEF CyclesAreGenuine
    <3>4. Elems(cycles') = Elems(cycles) \cup {cycle}
      BY <1>8, <3>1, ElemsOfAppend
    <3> QED BY <3>2, <3>3, <3>4
  <2> QED BY <2>1, <2>2
<1>10. /\ \A n \in DOMAIN cycles' : cycles'[n] \in Elems(cycles) \cup {cycle}
       /\ cycles' # <<>>
  BY <1>9, ElemsOfEmpty DEF Elems
<1>11. CyclesAreGenuine'
  <2>1. \A c : Genuine(c) => Genuine(c)'
    BY <1>4 DEF Genuine, Distinct
  <2>2. \A c \in Elems(cycles) \cup {cycle} : Genuine(c)'
    BY <1>6, <1>8, <2>1 DEF CyclesAreGenuine, Elems
  <2>3. ASSUME NEW n \in DOMAIN cycles' PROVE Genuine(cycles[n])'
    <3>1. PICK c : c = cycles'[n]
      OBVIOUS
    <3>2. Genuine(c)'
      BY <1>10, <2>2, <3>1
    <3> QED BY <3>1, <3>2 DEF Genuine, Distinct
  <2>4. Distinct(cycles)'
    BY <1>9 DEF Distinct
  <2> QED BY <2>3, <2>4 DEF CyclesAreGenuine
<1>12. UnknownsGenuine'
  BY <1>3, <1>4, <1>8 DEF UnknownsGenuine
<1>13. /\ ErrorsGrow /\ OnReportedCycle(neighbor)'
  <2>1. \A i : OnReportedCycle(i) <=> \E c \in Elems(cycles) : i \in Elems(c)
    BY DEF OnReportedCycle, Elems
  <2>2. \A i : OnReportedCycle(i)' <=> \E c \in Elems(cycles') : i \in Elems(c)
    BY DEF OnReportedCycle, Elems
  <2>3. \A i : OnReportedCycle(i) => OnReportedCycle(i)'
    BY <1>9, <2>1, <2>2
  <2>4. OnReportedCycle(neighbor)'
    BY <1>6, <1>9, <2>2
  <2> QED BY <1>3, <1>10, <2>3, <2>4 DEF ErrorsGrow
<1>14. ErrorTypes'
  BY <1>3, <1>9 DEF IInv, Types, ErrorTypes
<1>15. StackTypes' /\ Stack' /\ path' # <<>> /\ visiting' = visiting
  BY <1>3, <1>4, AdvanceKeepsStack
<1>16. Seen(top, neighbor)'
  <2>1. neighbor \in Known
    BY <1>3, <1>5 DEF Stack, visiting
  <2> QED BY <1>3, <1>4, <1>10, <1>13, <1>15, <2>1 DEF Seen
<1>17. Accounted'
  BY <1>1, <1>3, <1>4, <1>13, <1>16, AdvanceAccounts
<1> QED BY <1>3, <1>11, <1>12, <1>13, <1>14, <1>15, <1>17, NeighborStep

-----------------------------------------------------------------------------
(* Sorting: a traversal starts, its calls return, and the sort ends *)

LEMMA traverseKeeps ==
  ASSUME IInv, NEW item \in Names \cup {Root}, traverse(item)
  PROVE  IInv'
<1>1. /\ pc = "sort" /\ item \in todo /\ path' = <<Frame(item)>>
      /\ visited' = {} /\ result' = <<>>
      /\ UNCHANGED <<client, outputs, errors, partition, pc, todo>>
  BY DEF traverse, IsNext
<1>2. /\ UNCHANGED dependencies /\ Known' = Known /\ Items' = Items
      /\ \A i : Reachable(i)' = Reachable(i)
  BY <1>1, SameGraph DEF client
<1>3. Sorting /\ item \in Known
  BY <1>1 DEF IInv, Phase, Types, ControlTypes
<1>4. dependencies[item] \in Seq(Names) /\ item \in All
  BY <1>3 DEF IInv, Types, GraphTypes
<1>5. /\ path' \in Seq(Frames) /\ path' # <<>> /\ Len(path') = 1
      /\ DOMAIN path' = 1..1
      /\ path'[1].item = item /\ path'[1].next = 1
  <2>1. PICK f : f = Frame(item)
    OBVIOUS
  <2>2. f \in Frames /\ f.item = item /\ f.next = 1
    BY <1>4, <2>1 DEF Frame, Frames
  <2>3. path' = <<f>>
    BY <1>1, <2>1
  <2>4. <<f>> \in Seq(Frames) /\ Len(<<f>>) = 1 /\ DOMAIN <<f>> = 1..1 /\ <<f>>[1] = f
    BY <2>2
  <2>5. <<f>> # <<>>
    OBVIOUS
  <2> QED BY <2>2, <2>3, <2>4, <2>5
<1>6. StackTypes'
  BY <1>1, <1>5 DEF StackTypes
<1>7. visiting' = {item}
  BY <1>5 DEF visiting
<1>8. Stack'
  <2>1. 1 \in 1..(Len(dependencies[item]) + 1)
    BY <1>4
  <2>2. \A n \in DOMAIN path' :
          /\ path'[n].item \in Known'
          /\ path'[n].next \in 1..(Len(dependencies'[path'[n].item]) + 1)
          /\ n < Len(path') =>
               /\ path'[n].next > 1
               /\ dependencies'[path'[n].item][path'[n].next - 1] = path'[n + 1].item
    BY <1>2, <1>3, <1>5, <2>1
  <2>3. /\ \A m, n \in DOMAIN path' : path'[m].item = path'[n].item => m = n
        /\ \A n \in DOMAIN path' : path'[n].item \notin visited'
    BY <1>1, <1>5
  <2>4. Elems(result') = visited' /\ Distinct(result)' /\ visited' \subseteq Known'
    BY <1>1, ElemsOfEmpty DEF Distinct
  <2>5. item \in Items => {item} \subseteq Reachable(item)
    BY ReachesItself
  <2>6. Reachable(path[1].item)' = Reachable(item)'
    BY <1>5 DEF Reachable
  <2>7. path'[1].item \in Items' => visited' \cup visiting' \subseteq Reachable(path[1].item)'
    BY <1>1, <1>2, <1>5, <1>7, <2>5, <2>6
  <2> QED BY <1>1, <1>5, <2>2, <2>3, <2>4, <2>7 DEF Stack
<1>9. Accounted'
  <2>1. \A n \in DOMAIN path' : Past(n)' = 0
    BY <1>5 DEF Past
  <2>2. KnownFirst(result)'
    BY <1>1, ElemsOfEmpty DEF KnownFirst
  <2> QED BY <1>1, <2>1, <2>2 DEF Accounted
<1>10. ErrorsGrow /\ UnknownsGenuine' /\ CyclesAreGenuine'
  BY <1>1, <1>2, <1>3, ErrorsStay DEF Sorting
<1>11. Types'
  BY <1>1, <1>6, TypesKept DEF IInv, Types
<1>12. Sorting'
  <2>1. NothingReversed' /\ NotPartitioned'
    BY <1>1, <1>2, <1>3 DEF Sorting, NothingReversed, NotPartitioned, client, partition
  <2>2. /\ Root \in Known' /\ Elems(dependencies'[Root]) = Items'
        /\ todo' \cup DOMAIN sorted_dependencies' = Known'
    BY <1>1, <1>2, <1>3 DEF Sorting, outputs
  <2>3. Sorts'
    BY <1>1, <1>2, <1>3, <1>10, SortsStay DEF Sorting, outputs
  <2> QED BY <1>8, <1>9, <1>10, <2>1, <2>2, <2>3 DEF Sorting
<1> QED BY <1>1, <1>11, <1>12 DEF IInv, Phase, Checked

\* What the call that returns has dealt with: all of its entries.
LEMMA TopIsDone ==
  ASSUME IInv, leaveItem, NEW top, top = Top.item
  PROVE  /\ \A d \in Elems(dependencies[top]) : Seen(top, d)
         /\ top \notin visited
         /\ result' = Append(result, top) /\ visited' = visited \cup {top}
         /\ result \in Seq(All) /\ result' \in Seq(All)
         /\ Elems(result') = visited' /\ Distinct(result')
         /\ visited' \subseteq Known
         /\ cycles = <<>> => KnownFirst(result')
<1>1. /\ pc = "sort" /\ path # <<>> /\ Top.next \notin DOMAIN dependencies[top]
      /\ visited' = visited \cup {top} /\ result' = Append(result, top)
  BY DEF leaveItem
<1>2. /\ Sorting /\ Stack /\ Accounted
      /\ Len(path) \in Nat \ {0}
      /\ DOMAIN path = 1..Len(path) /\ Len(path) \in DOMAIN path
      /\ path[Len(path)].item = top
      /\ path[Len(path)].next = Top.next
      /\ top \in Known /\ top \in All
      /\ DOMAIN dependencies[top] = 1..Len(dependencies[top])
      /\ Len(dependencies[top]) \in Nat
      /\ Top.next \in 1..(Len(dependencies[top]) + 1)
  BY <1>1, TopCall
<1>3. Past(Len(path)) = Len(dependencies[top])
  <2>1. Past(Len(path)) = Top.next - 1
    BY <1>2, Zenon DEF Past
  <2>2. Top.next = Len(dependencies[top]) + 1
    BY <1>1, <1>2
  <2> QED BY <1>2, <2>1, <2>2
<1>4. \A d \in Elems(dependencies[top]) : Seen(top, d)
  <2> SUFFICES ASSUME NEW k \in DOMAIN dependencies[top]
               PROVE  Seen(top, dependencies[top][k])
    BY DEF Elems
  <2> QED BY <1>2, <1>3 DEF Accounted
<1>5. top \notin visited /\ Elems(result) = visited /\ Distinct(result) /\ visited \subseteq Known
  BY <1>2 DEF Stack
<1>6. result \in Seq(All)
  BY DEF IInv, Types, StackTypes
<1>7. /\ Elems(result') = visited' /\ Distinct(result') /\ result' \in Seq(All)
      /\ DOMAIN result' = DOMAIN result \cup {Len(result) + 1}
      /\ \A n \in DOMAIN result : result'[n] = result[n]
      /\ result'[Len(result) + 1] = top
      /\ DOMAIN result = 1..Len(result) /\ Len(result) \in Nat
  <2>1. result' \in Seq(All)
    BY <1>1, <1>2, <1>6
  <2> QED BY <1>1, <1>5, <1>6, <2>1, ElemsOfAppend, DistinctAppend
<1>8. ASSUME cycles = <<>> PROVE KnownFirst(result')
  <2> SUFFICES ASSUME NEW n \in DOMAIN result',
                      NEW d \in Elems(dependencies[result'[n]]), d \in Known
               PROVE  \E m \in DOMAIN result' : m < n /\ result'[m] = d
    BY DEF KnownFirst
  <2>1. CASE n \in DOMAIN result
    <3>1. d \in Elems(dependencies[result[n]])
      BY <1>7, <2>1
    <3>2. PICK m \in DOMAIN result : m < n /\ result[m] = d
      BY <1>2, <1>8, <2>1, <3>1 DEF Accounted, KnownFirst
    <3> QED BY <1>7, <3>2
  <2>2. CASE n = Len(result) + 1
    <3>1. d \in Elems(result)
      BY <1>4, <1>5, <1>7, <1>8, <2>2 DEF Seen
    <3>2. PICK m \in DOMAIN result : result[m] = d
      BY <3>1 DEF Elems
    <3> QED BY <1>7, <2>2, <3>2
  <2> QED BY <1>7, <2>1, <2>2
<1> QED BY <1>1, <1>2, <1>4, <1>5, <1>6, <1>7, <1>8

\* The outermost call returns: its result is a sort.
LEMMA LastCallSorts ==
  ASSUME IInv, leaveItem, Len(path) = 1, NEW top, top = Top.item
  PROVE  SortOf(top, result')
<1>1. /\ pc = "sort" /\ path # <<>>
  BY DEF leaveItem
<1>2. /\ Stack /\ Accounted /\ DOMAIN path = 1..Len(path)
      /\ path[Len(path)].item = top /\ top \in Known
  BY <1>1, TopCall
<1>3. /\ \A d \in Elems(dependencies[top]) : Seen(top, d)
      /\ result' = Append(result, top) /\ visited' = visited \cup {top}
      /\ result \in Seq(All)
      /\ Elems(result') = visited' /\ Distinct(result')
      /\ visited' \subseteq Known
      /\ cycles = <<>> => KnownFirst(result')
  BY TopIsDone
<1>4. path[1].item = top /\ visiting = {top}
  BY <1>2 DEF visiting
<1>5. \A v \in visited' : \A d \in Elems(dependencies[v]) : Seen(v, d)
  BY <1>2, <1>3 DEF Accounted
<1>6. \A v \in Elems(result') : \A d \in Elems(dependencies[v]) :
       /\ d \in Known => d \in Elems(result')
       /\ d \notin Known => d \in Elems(ListAt(unknowns, v))
       /\ d = top => OnReportedCycle(top)
  BY <1>3, <1>4, <1>5 DEF Seen
<1>7. top \in Items => Elems(result') \subseteq Reachable(top)
  <2>1. top \in Items => visited \cup visiting \subseteq Reachable(top)
    BY <1>2, <1>4 DEF Stack
  <2> QED BY <1>3, <1>4, <2>1
<1>8. Len(result') > 0 /\ result'[Len(result')] = top
  <2>1. /\ Len(Append(result, top)) = Len(result) + 1 /\ Len(result) \in Nat
        /\ Append(result, top)[Len(result) + 1] = top
    BY <1>3
  <2> QED BY <1>3, <2>1
<1> QED BY <1>3, <1>6, <1>7, <1>8 DEF SortOf

LEMMA leaveItemKeeps ==
  ASSUME IInv, leaveItem
  PROVE  IInv'
<1>1. PICK top : top = Top.item
  OBVIOUS
<1>2. /\ pc = "sort" /\ path # <<>> /\ Top.next \notin DOMAIN dependencies[top]
      /\ path' = SubSeq(path, 1, Len(path) - 1)
      /\ UNCHANGED <<client, in_order, errors, partition, pc>>
  BY <1>1 DEF leaveItem
<1>3. /\ UNCHANGED dependencies /\ Known' = Known /\ Items' = Items
      /\ \A i : Reachable(i)' = Reachable(i)
  BY <1>2, SameGraph DEF client
<1>4. /\ Sorting /\ Stack /\ Accounted
      /\ path \in Seq(Frames) /\ Len(path) \in Nat \ {0}
      /\ DOMAIN path = 1..Len(path)
      /\ Len(path) \in DOMAIN path /\ 1 \in DOMAIN path
      /\ path[Len(path)].item = top
      /\ top \in Known /\ top \in All
  BY <1>1, <1>2, TopCall
<1>5. /\ \A d \in Elems(dependencies[top]) : Seen(top, d)
      /\ top \notin visited
      /\ result' = Append(result, top) /\ visited' = visited \cup {top}
      /\ result' \in Seq(All)
      /\ Elems(result') = visited' /\ Distinct(result')
      /\ visited' \subseteq Known
      /\ cycles = <<>> => KnownFirst(result')
  BY <1>1, TopIsDone
<1>6. ErrorsGrow /\ UnknownsGenuine' /\ CyclesAreGenuine'
  BY <1>2, <1>3, <1>4, ErrorsStay DEF Sorting
<1>7. /\ path' \in Seq(Frames)
      /\ Len(path') = Len(path) - 1
      /\ DOMAIN path' = 1..(Len(path) - 1) /\ DOMAIN path' \subseteq DOMAIN path
      /\ \A n \in DOMAIN path' : path'[n] = path[n]
      /\ Len(path) = 1 <=> path' = <<>>
  <2>1. path \in Seq(Frames) /\ path # <<>>
    BY <1>2, <1>4
  <2>2. ASSUME NEW q, q = SubSeq(path, 1, Len(path) - 1)
        PROVE  /\ q \in Seq(Frames)
               /\ Len(q) = Len(path) - 1
               /\ DOMAIN q = 1..(Len(path) - 1) /\ DOMAIN q \subseteq DOMAIN path
               /\ \A n \in DOMAIN q : q[n] = path[n]
               /\ Len(path) = 1 <=> q = <<>>
    BY <2>1, <2>2, StackShrinks
  <2> QED BY <1>2, <2>2
<1>8. StackTypes' /\ GraphTypes' /\ ErrorTypes' /\ PartitionTypes'
  BY <1>2, <1>5, <1>7, <1>4, TypesKept DEF IInv, Types, StackTypes
<1>9. NothingReversed' /\ NotPartitioned' /\ Root \in Known' /\ Elems(dependencies'[Root]) = Items'
  BY <1>2, <1>3, <1>4 DEF Sorting, NothingReversed, NotPartitioned, client, partition
<1>10. CASE Len(path) = 1
  <2>1. /\ sorted_dependencies' = Put(sorted_dependencies, top, result')
        /\ todo' = todo \ {top} /\ path' = <<>>
    BY <1>1, <1>5, <1>7, <1>10 DEF leaveItem
  <2>2. /\ DOMAIN sorted_dependencies' = DOMAIN sorted_dependencies \cup {top}
        /\ sorted_dependencies'[top] = result'
        /\ \A i \in DOMAIN sorted_dependencies :
             i # top => sorted_dependencies'[i] = sorted_dependencies[i]
    BY <2>1 DEF Put
  <2>3. OutputTypes' /\ ControlTypes'
    BY <1>2, <1>3, <1>4, <1>5, <2>1, <2>2 DEF IInv, Types, OutputTypes, ControlTypes
  <2>4. SortOf(top, result')
    BY <1>1, <1>10, LastCallSorts
  <2>5. SortOf(top, sorted_dependencies[top])'
    <3>1. PICK list : list = result'
      OBVIOUS
    <3>2. SortOf(top, list) /\ sorted_dependencies'[top] = list
      BY <2>2, <2>4, <3>1
    <3>3. SortOf(top, list)'
      BY <1>2, <1>3, <3>2 DEF SortOf, errors, KnownFirst, OnReportedCycle
    <3> QED BY <3>2, <3>3 DEF SortOf, KnownFirst, Distinct, Elems
  <2>6. ASSUME NEW i \in DOMAIN sorted_dependencies'
        PROVE  SortOf(i, sorted_dependencies[i])'
    <3>1. CASE i = top
      BY <2>5, <3>1
    <3>2. CASE i # top
      <4>1. SortOf(i, sorted_dependencies[i]) /\ sorted_dependencies'[i] = sorted_dependencies[i]
        BY <1>4, <2>2, <3>2 DEF Sorting, Sorts
      <4> QED BY <1>3, <1>6, <4>1, SortOfStays
    <3> QED BY <3>1, <3>2
  <2>7. Sorts'
    BY <2>6 DEF Sorts
  <2>8. todo' \cup DOMAIN sorted_dependencies' = Known'
    BY <1>3, <1>4, <2>1, <2>2 DEF Sorting
  <2>9. Sorting'
    BY <1>6, <1>9, <2>1, <2>7, <2>8 DEF Sorting
  <2> QED BY <1>2, <1>8, <2>3, <2>9 DEF IInv, Types, Phase, Checked
<1>11. CASE Len(path) # 1
  <2>1. UNCHANGED <<sorted_dependencies, todo>> /\ path' # <<>>
    BY <1>7, <1>11 DEF leaveItem
  <2>2. OutputTypes' /\ ControlTypes'
    BY <1>2, <1>3, <2>1 DEF IInv, Types, OutputTypes, ControlTypes
  <2>3. Sorts' /\ todo' \cup DOMAIN sorted_dependencies' = Known'
    BY <1>3, <1>4, <1>6, <2>1, SortsStay DEF Sorting
  <2>4. 1 \in DOMAIN path' /\ Len(path') \in Nat \ {0} /\ Len(path) = Len(path') + 1
    BY <1>4, <1>7, <1>11
  <2>5. visiting = visiting' \cup {top}
    <3>1. visiting' \cup {top} \subseteq visiting
      BY <1>4, <1>7 DEF visiting
    <3>2. \A n \in DOMAIN path : n \in DOMAIN path' \/ n = Len(path)
      BY <1>4, <1>7
    <3>3. visiting \subseteq visiting' \cup {top}
      BY <1>4, <1>7, <3>2 DEF visiting
    <3> QED BY <3>1, <3>3
  <2>6. ASSUME NEW v, NEW d, Seen(v, d) PROVE Seen(v, d)'
    <3>1. /\ path'[1].item = path[1].item
          /\ visited \subseteq visited' /\ visiting \subseteq visited' \cup visiting'
      BY <1>5, <1>7, <2>4, <2>5
    <3> QED BY <1>3, <1>6, <2>6, <3>1, SeenStays
  <2>7. Stack'
    <3>1. \A n \in DOMAIN path' :
            /\ path'[n].item \in Known'
            /\ path'[n].next \in 1..(Len(dependencies'[path'[n].item]) + 1)
            /\ n < Len(path') =>
                 /\ path'[n].next > 1
                 /\ dependencies'[path'[n].item][path'[n].next - 1] = path'[n + 1].item
      <4> SUFFICES ASSUME NEW n \in DOMAIN path'
                   PROVE  /\ path[n].item \in Known
                          /\ path[n].next \in 1..(Len(dependencies[path[n].item]) + 1)
                          /\ n < Len(path') =>
                               /\ path[n].next > 1
                               /\ dependencies[path[n].item][path[n].next - 1] = path'[n + 1].item
        BY <1>3, <1>7
      <4>1. n \in DOMAIN path /\ n < Len(path)
        BY <1>4, <1>7
      <4>2. n < Len(path') => path'[n + 1].item = path[n + 1].item
        <5>1. n < Len(path') => n + 1 \in DOMAIN path'
          BY <1>4, <1>7
        <5> QED BY <1>7, <5>1
      <4> QED BY <1>4, <4>1, <4>2 DEF Stack
    <3>2. /\ \A m, n \in DOMAIN path' : path'[m].item = path'[n].item => m = n
      BY <1>4, <1>7 DEF Stack
    <3>3. \A n \in DOMAIN path' : path'[n].item \notin visited'
      <4>1. \A n \in DOMAIN path' : path[n].item # top
        BY <1>4, <1>7 DEF Stack
      <4> QED BY <1>4, <1>5, <1>7, <4>1 DEF Stack
    <3>4. Elems(result') = visited' /\ Distinct(result)' /\ visited' \subseteq Known'
      BY <1>3, <1>5 DEF Distinct
    <3>5. PICK first : first = path[1].item
      OBVIOUS
    <3>6. path'[1].item = first /\ path'[1].item \in todo'
      BY <1>4, <1>7, <2>1, <2>4, <3>5 DEF Stack
    <3>7. first \in Items => visited' \cup visiting' \subseteq Reachable(first)
      BY <1>4, <1>5, <2>5, <3>5 DEF Stack
    <3>8. Reachable(path[1].item)' = Reachable(first)'
      BY <3>6 DEF Reachable
    <3>9. path'[1].item \in Items' => visited' \cup visiting' \subseteq Reachable(path[1].item)'
      BY <1>3, <3>6, <3>7, <3>8
    <3> QED BY <3>1, <3>2, <3>3, <3>4, <3>6, <3>9 DEF Stack
  <2>8. Accounted'
    <3>1. \A v \in visited' : \A d \in Elems(dependencies'[v]) : Seen(v, d)'
      BY <1>3, <1>4, <1>5, <2>6 DEF Accounted
    <3>2. cycles' = <<>> => KnownFirst(result)'
      BY <1>2, <1>3, <1>5 DEF KnownFirst, errors
    <3>3. ASSUME NEW n \in DOMAIN path', NEW k \in 1..Past(n)', NEW v, NEW d,
                 v = path'[n].item, d = dependencies'[v][k]
          PROVE  Seen(v, d)'
      <4>1. n \in DOMAIN path /\ v = path[n].item /\ d = dependencies[v][k]
        BY <1>3, <1>7, <3>3
      <4>2. n < Len(path) /\ Past(n) = path[n].next - 2
        BY <1>4, <1>7, <4>1 DEF Past
      <4>3. /\ path[n].next > 1 /\ path[n].next \in Nat
            /\ dependencies[v][path[n].next - 1] = path[n + 1].item
        BY <1>4, <4>1, <4>2, TopOfStack DEF Stack
      <4>4. CASE n = Len(path')
        <5>1. k \in 1..(path[n].next - 1)
          BY <1>7, <4>3, <4>4 DEF Past
        <5>2. CASE k = path[n].next - 1
          <6>1. d = top /\ n + 1 = Len(path)
            BY <1>4, <2>4, <4>1, <4>3, <4>4, <5>2
          <6>2. d \in Known' /\ d \in visited'
            BY <1>3, <1>4, <1>5, <6>1
          <6>3. d # path'[1].item
            <7>1. path[1].item = path[Len(path)].item => 1 = Len(path)
              BY <1>4 DEF Stack
            <7>2. path'[1].item = path[1].item
              BY <1>7, <2>4
            <7> QED BY <1>4, <1>11, <6>1, <7>1, <7>2
          <6> QED BY <6>2, <6>3 DEF Seen
        <5>3. CASE k # path[n].next - 1
          <6>1. k \in 1..Past(n)
            BY <4>2, <4>3, <5>1, <5>3
          <6>2. Seen(v, d)
            BY <1>4, <4>1, <6>1 DEF Accounted
          <6> QED BY <2>6, <6>2
        <5> QED BY <5>2, <5>3
      <4>5. CASE n # Len(path')
        <5>1. k \in 1..Past(n)
          BY <1>7, <4>2, <4>5 DEF Past
        <5>2. Seen(v, d)
          BY <1>4, <4>1, <5>1 DEF Accounted
        <5> QED BY <2>6, <5>2
      <4> QED BY <4>4, <4>5
    <3>4. \A n \in DOMAIN path' : \A k \in 1..Past(n)' :
            Seen(path[n].item, dependencies[path[n].item][k])'
      <4> SUFFICES ASSUME NEW n \in DOMAIN path', NEW k \in 1..Past(n)'
                   PROVE  Seen(path[n].item, dependencies[path[n].item][k])'
        OBVIOUS
      <4>1. PICK v, d : v = path'[n].item /\ d = dependencies'[v][k]
        OBVIOUS
      <4>2. Seen(v, d)'
        BY <3>3, <4>1
      <4> QED BY <4>1, <4>2 DEF Seen
    <3> QED BY <3>1, <3>2, <3>4 DEF Accounted
  <2>9. Sorting'
    BY <1>6, <1>9, <2>3, <2>7, <2>8 DEF Sorting
  <2> QED BY <1>2, <1>8, <2>2, <2>9 DEF IInv, Types, Phase, Checked
<1> QED BY <1>10, <1>11

-----------------------------------------------------------------------------
(* The end of the sort *)

LEMMA SortedStays ==
  ASSUME UNCHANGED <<dependencies, sorted_dependencies, in_order, errors>>, Sorted
  PROVE  Sorted'
<1>1. ErrorsGrow /\ UnknownsGenuine' /\ CyclesAreGenuine'
  BY ErrorsStay DEF Sorted
<1>2. Sorts'
  BY <1>1, SortsStay DEF Sorted
<1>3. /\ Root \notin Known' /\ DOMAIN sorted_dependencies' = Known'
      /\ Distinct(in_order)' /\ Elems(in_order') = Items'
  BY SameGraph DEF Sorted, Distinct
<1>4. cycles' = <<>> => KnownFirst(in_order)'
  BY SameGraph DEF Sorted, KnownFirst, errors
<1> QED BY <1>1, <1>2, <1>3, <1>4 DEF Sorted

\* What Root goes away from: everything else is as it was.
LEMMA RootGoes ==
  ASSUME IInv, sorted
  PROVE  /\ Known' = Items /\ Items' = Items /\ Items \subseteq Names
         /\ dependencies' \in [Items -> Seq(Names)]
         /\ \A i \in Items : dependencies'[i] = dependencies[i]
         /\ \A i \in Items : \A d \in Elems(dependencies[i]) : d \in Known <=> d \in Items
         /\ \A i : Reachable(i)' = Reachable(i)
<1>1. dependencies' = [i \in Items |-> dependencies[i]]
  BY DEF sorted
<1>2. Items \subseteq Names /\ Items \subseteq Known
  BY DEF IInv, Types, GraphTypes, All, Items, Known
<1>3. \A i \in Items : dependencies[i] \in Seq(Names)
  BY <1>2 DEF IInv, Types, GraphTypes
<1>4. dependencies' \in [Items -> Seq(Names)] /\ \A i \in Items : dependencies'[i] = dependencies[i]
  BY <1>1, <1>3
<1>5. Known' = Items /\ Items' = Items
  BY <1>1, RootIsNoName DEF Known, Items
<1>6. ASSUME NEW i \in Items, NEW d \in Elems(dependencies[i])
      PROVE  d \in Known <=> d \in Items
  <2>1. d \in Names
    BY <1>3 DEF Elems
  <2> QED BY <2>1, RootIsNoName DEF Known, Items
<1>7. \A i : Reachable(i)' = Reachable(i)
  <2>1. \A S \in SUBSET Items : Closed(S)' <=> Closed(S)
    BY <1>4, <1>5 DEF Closed
  <2> QED BY <1>5, <2>1 DEF Reachable
<1> QED BY <1>2, <1>4, <1>5, <1>6, <1>7

\* The sort from Root, without Root, is a sort of the whole graph.
LEMMA RootSort ==
  ASSUME IInv, sorted
  PROVE  /\ in_order' \in Seq(Names) /\ Distinct(in_order') /\ Elems(in_order') = Items
         /\ cycles = <<>> => KnownFirst(in_order')
<1>1. PICK list : list = sorted_dependencies[Root]
  OBVIOUS
<1>2. /\ Sorting /\ todo = {} /\ pc = "sort" /\ in_order' = SubSeq(list, 1, Len(list) - 1)
  BY <1>1 DEF sorted, IInv, Phase
<1>3. Root \in DOMAIN sorted_dependencies
  BY <1>2 DEF Sorting
<1>4. SortOf(Root, list) /\ list \in Seq(All)
  BY <1>1, <1>2, <1>3 DEF Sorting, Sorts, IInv, Types, OutputTypes
<1>5. /\ Len(list) \in Nat \ {0} /\ DOMAIN list = 1..Len(list)
      /\ list[Len(list)] = Root /\ Len(list) \in DOMAIN list
  BY <1>4 DEF SortOf
<1>6. Root \in Elems(list)
  BY <1>5 DEF Elems
<1>7. Items \subseteq Elems(list) /\ Elems(list) \subseteq Known
  BY <1>2, <1>4, <1>6 DEF SortOf, Sorting, Items, Known
<1>8. /\ in_order' \in Seq(All)
      /\ Len(in_order') = Len(list) - 1
      /\ DOMAIN in_order' = 1..(Len(list) - 1)
      /\ \A n \in 1..(Len(list) - 1) : in_order'[n] = list[n]
  <2>1. \A n \in 1..(Len(list) - 1) : list[n] \in All
    BY <1>4, <1>5
  <2>2. 1 \in Int /\ Len(list) - 1 \in Int
    BY <1>5
  <2>3. /\ SubSeq(list, 1, Len(list) - 1) \in Seq(All)
        /\ Len(SubSeq(list, 1, Len(list) - 1)) =
             IF 1 <= Len(list) - 1 THEN Len(list) - 1 - 1 + 1 ELSE 0
        /\ \A n \in 1..(Len(list) - 1 - 1 + 1) :
             SubSeq(list, 1, Len(list) - 1)[n] = list[1 + n - 1]
    BY <2>1, <2>2, SubSeqProperties
  <2> QED BY <1>2, <1>5, <2>3
<1>9. Distinct(in_order')
  BY <1>4, <1>5, <1>8 DEF SortOf, Distinct
<1>10. \A n \in DOMAIN in_order' : in_order'[n] \in Items
  <2> SUFFICES ASSUME NEW n \in 1..(Len(list) - 1) PROVE list[n] \in Items
    BY <1>8
  <2>1. list[n] # Root
    BY <1>4, <1>5 DEF SortOf, Distinct
  <2>2. list[n] \in Elems(list)
    BY <1>5 DEF Elems
  <2> QED BY <1>7, <2>1, <2>2 DEF Items, Known
<1>11. ASSUME NEW i \in Items PROVE i \in Elems(in_order')
  <2>1. PICK n \in DOMAIN list : list[n] = i
    BY <1>7 DEF Elems
  <2>2. n # Len(list)
    BY <1>5, <2>1 DEF Items
  <2>3. n \in 1..(Len(list) - 1)
    BY <1>5, <2>2
  <2> QED BY <1>8, <2>1, <2>3 DEF Elems
<1>12. Elems(in_order') = Items
  BY <1>10, <1>11 DEF Elems
<1>13. in_order' \in Seq(Names)
  <2>1. in_order' \in [1..(Len(list) - 1) -> Names]
    BY <1>8, <1>10, RootGoes
  <2> QED BY <1>5, <2>1
<1>14. ASSUME cycles = <<>> PROVE KnownFirst(in_order')
  <2> SUFFICES ASSUME NEW n \in DOMAIN in_order',
                      NEW d \in Elems(dependencies[in_order'[n]]), d \in Known
               PROVE  \E m \in DOMAIN in_order' : m < n /\ in_order'[m] = d
    BY DEF KnownFirst
  <2>1. n \in 1..(Len(list) - 1) /\ in_order'[n] = list[n]
    BY <1>8
  <2>2. PICK m \in DOMAIN list : m < n /\ list[m] = d
    <3>1. n \in DOMAIN list
      BY <1>5, <2>1
    <3> QED BY <1>4, <1>14, <2>1, <3>1 DEF SortOf, KnownFirst
  <2>3. m \in 1..(Len(list) - 1)
    BY <1>5, <2>1, <2>2
  <2> QED BY <1>8, <2>2, <2>3
<1> QED BY <1>9, <1>12, <1>13, <1>14

LEMMA sortedKeeps ==
  ASSUME IInv, sorted
  PROVE  IInv'
<1>1. /\ pc = "sort" /\ todo = {} /\ path' = <<>> /\ todo' = Items /\ pc' = "reverse"
      /\ sorted_dependencies' = [i \in Items |-> sorted_dependencies[i]]
      /\ UNCHANGED <<graph_state, reverse_dependencies, errors, visited, result, partition>>
  BY DEF sorted
<1>2. Sorting /\ DOMAIN sorted_dependencies = Known
  BY <1>1 DEF IInv, Phase, Sorting
<1>3. /\ Known' = Items /\ Items' = Items /\ Items \subseteq Names
      /\ dependencies' \in [Items -> Seq(Names)]
      /\ \A i \in Items : dependencies'[i] = dependencies[i]
      /\ \A i \in Items : \A d \in Elems(dependencies[i]) : d \in Known <=> d \in Items
      /\ \A i : Reachable(i)' = Reachable(i)
  BY RootGoes
<1>4. /\ in_order' \in Seq(Names) /\ Distinct(in_order') /\ Elems(in_order') = Items
      /\ cycles = <<>> => KnownFirst(in_order')
  BY RootSort
<1>5. Items \subseteq Known
  BY DEF Items, Known
<1>6. GraphTypes' /\ ErrorTypes' /\ PartitionTypes'
  <2>1. GraphTypes'
    BY <1>1, <1>3 DEF IInv, Types, GraphTypes, All
  <2> QED BY <1>1, <2>1, TypesKept DEF IInv
<1>7. OutputTypes' /\ StackTypes' /\ ControlTypes'
  <2>1. OutputTypes'
    BY <1>1, <1>2, <1>3, <1>4, <1>5 DEF IInv, Types, OutputTypes, All
  <2>2. <<>> \in Seq(Frames)
    OBVIOUS
  <2>3. StackTypes'
    BY <1>1, <2>2 DEF IInv, Types, StackTypes
  <2> QED BY <1>1, <1>3, <2>1, <2>3 DEF ControlTypes
<1>8. UnknownsGenuine'
  <2>1. \A i \in DOMAIN unknowns : Distinct(unknowns[i])' <=> Distinct(unknowns[i])
    BY <1>1 DEF Distinct, errors
  <2> QED BY <1>1, <1>2, <1>3, <2>1 DEF Sorting, UnknownsGenuine, errors
<1>9. CyclesAreGenuine'
  <2>1. ASSUME NEW c, Genuine(c) PROVE Genuine(c)'
    <3>1. \A k \in 1..Len(c) : c[k] \in Items
      BY <2>1 DEF Genuine
    <3> QED BY <1>3, <2>1, <3>1 DEF Genuine, Distinct
  <2>2. \A n \in DOMAIN cycles : Genuine(cycles[n])'
    <3> TAKE n \in DOMAIN cycles
    <3>1. PICK c : c = cycles[n] /\ c = cycles'[n]
      BY <1>1 DEF errors
    <3>2. Genuine(c)'
      BY <1>2, <2>1, <3>1 DEF Sorting, CyclesAreGenuine
    <3> QED BY <3>1, <3>2 DEF Genuine, Distinct
  <2> QED BY <1>1, <1>2, <2>2 DEF Sorting, CyclesAreGenuine, errors, Distinct
<1>10. \A s : Elems(s) \subseteq Items /\ KnownFirst(s) => KnownFirst(s)'
  BY <1>3 DEF KnownFirst, Elems
<1>11. Sorts'
  <2> SUFFICES ASSUME NEW i \in Items PROVE SortOf(i, sorted_dependencies[i])'
    BY <1>1 DEF Sorts
  <2>1. PICK s : s = sorted_dependencies[i]
    OBVIOUS
  <2>2. s = sorted_dependencies'[i] /\ SortOf(i, s)
    BY <1>1, <1>2, <1>5, <2>1 DEF Sorting, Sorts
  <2>3. Elems(s) \subseteq Items /\ Elems(s) \subseteq Reachable(i)
    BY <2>2 DEF SortOf, Reachable
  <2>4. SortOf(i, s)'
    <3>1. /\ Distinct(s) /\ Len(s) > 0 /\ s[Len(s)] = i
          /\ Elems(s) \subseteq Known' /\ Elems(s) \subseteq Reachable(i)'
      BY <1>3, <2>2, <2>3 DEF SortOf
    <3>2. \A v \in Elems(s) : \A d \in Elems(dependencies'[v]) :
            /\ d \in Known' => d \in Elems(s)
            /\ d \notin Known' => d \in Elems(ListAt(unknowns', v))
            /\ d = i => OnReportedCycle(i)'
      BY <1>1, <1>3, <2>2, <2>3 DEF SortOf, errors, OnReportedCycle
    <3>3. cycles' = <<>> => KnownFirst(s)'
      BY <1>1, <1>10, <2>2, <2>3 DEF SortOf, errors
    <3> QED BY <3>1, <3>2, <3>3 DEF SortOf
  <2> QED BY <2>2, <2>4 DEF SortOf, KnownFirst, Distinct, Elems
<1>12. Sorted'
  <2>1. cycles' = <<>> => KnownFirst(in_order)'
    <3>1. PICK s : s = in_order'
      OBVIOUS
    <3>2. cycles = <<>> => KnownFirst(s)'
      BY <1>4, <1>10, <3>1
    <3> QED BY <1>1, <3>1, <3>2 DEF KnownFirst, errors
  <2>2. Distinct(in_order)'
    BY <1>4 DEF Distinct
  <2>3. Root \notin Known' /\ DOMAIN sorted_dependencies' = Known' /\ Elems(in_order') = Items'
    BY <1>1, <1>3, <1>4, RootIsNoName
  <2> QED BY <1>8, <1>9, <1>11, <2>1, <2>2, <2>3 DEF Sorted
<1>13. Reversing'
  <2>1. NothingReversed /\ NotPartitioned
    BY <1>2 DEF Sorting
  <2>2. NotPartitioned' /\ Items' \subseteq DOMAIN reverse_dependencies'
        /\ DOMAIN reverse_dependencies' \ Items' = {}
    BY <1>1, <1>3, <2>1 DEF NothingReversed, NotPartitioned, partition
  <2>3. \A j : Elems(ListAt(reverse_dependencies', j)) = {}
    BY <1>1, <2>1, ElemsOfEmpty DEF NothingReversed, ListAt
  <2>4. \A i, j : ~ReversedSoFar(i, j)'
    BY <1>1, <1>3 DEF ReversedSoFar
  <2>5. \A i, j \in Names :
          i \in Elems(ListAt(reverse_dependencies', j)) <=> ReversedSoFar(i, j)'
    BY <2>3, <2>4
  <2> QED BY <1>1, <1>12, <2>2, <2>5 DEF Reversing
<1> QED BY <1>1, <1>6, <1>7, <1>13 DEF IInv, Types, Phase, Checked

-----------------------------------------------------------------------------
(* The table of reverse dependencies *)

LEMMA reverseItemKeeps ==
  ASSUME IInv, NEW item \in Names, reverseItem(item)
  PROVE  IInv'
<1>1. /\ pc = "reverse" /\ path = <<>> /\ item \in todo /\ path' = <<Frame(item)>>
      /\ UNCHANGED <<client, outputs, errors, visited, result, partition, pc, todo>>
  BY DEF reverseItem, IsNext
<1>2. UNCHANGED dependencies /\ Known' = Known /\ Items' = Items /\ Reversing
  BY <1>1, SameGraph DEF client, IInv, Phase
<1>3. item \in Known /\ item \in All /\ dependencies[item] \in Seq(Names)
  BY <1>1 DEF IInv, Types, ControlTypes, GraphTypes
<1>4. /\ path' \in Seq(Frames) /\ Len(path') = 1 /\ path' # <<>>
      /\ path'[1].item = item /\ path'[1].next = 1
  <2>1. PICK f : f = Frame(item)
    OBVIOUS
  <2>2. f \in Frames /\ f.item = item /\ f.next = 1
    BY <1>3, <2>1 DEF Frame, Frames
  <2>3. path' = <<f>>
    BY <1>1, <2>1
  <2>4. <<f>> \in Seq(Frames) /\ Len(<<f>>) = 1 /\ <<f>>[1] = f
    BY <2>2
  <2>5. <<f>> # <<>>
    OBVIOUS
  <2> QED BY <2>2, <2>3, <2>4, <2>5
<1>5. Types'
  <2>1. StackTypes'
    BY <1>1, <1>4 DEF IInv, Types, StackTypes
  <2> QED BY <1>1, <2>1, TypesKept DEF IInv, Types
<1>6. Reversing'
  <2>1. Sorted'
    BY <1>1, <1>2, SortedStays DEF Reversing, outputs
  <2>2. 1 \in 1..(Len(dependencies[item]) + 1)
    BY <1>3
  <2>3. \A i, j : ReversedSoFar(i, j)' <=> ReversedSoFar(i, j)
    <3>1. \A k : k \notin 1..(path'[1].next - 1)
      BY <1>4
    <3> QED BY <1>1, <1>2, <3>1 DEF ReversedSoFar
  <2>4. NotPartitioned' /\ reverse_dependencies' = reverse_dependencies
    BY <1>1, <1>2 DEF Reversing, NotPartitioned, partition, client
  <2> QED BY <1>1, <1>2, <1>4, <2>1, <2>2, <2>3, <2>4 DEF Reversing
<1> QED BY <1>1, <1>5, <1>6 DEF IInv, Phase, Checked

\* The loop over the dependencies of an item.
LEMMA ReversedItem ==
  ASSUME IInv, pc = "reverse", path # <<>>, NEW item, item = Top.item,
         NEW next, next = Top.next
  PROVE  /\ path[1].item = item /\ path[1].next = next
         /\ path \in Seq(Frames) /\ Len(path) = 1 /\ DOMAIN path = 1..1
         /\ Reversing /\ Sorted /\ Root \notin Known /\ Items = Known
         /\ item \in todo /\ item \in Known /\ item \in Names
         /\ dependencies[item] \in Seq(Names)
         /\ DOMAIN dependencies[item] = 1..Len(dependencies[item])
         /\ Len(dependencies[item]) \in Nat
         /\ next \in 1..(Len(dependencies[item]) + 1)
<1>1. Reversing
  BY DEF IInv, Phase
<1>2. /\ Len(path) = 1 /\ path[1].item \in todo
      /\ path[1].next \in 1..(Len(dependencies[path[1].item]) + 1)
      /\ Sorted /\ Root \notin Known
  BY <1>1 DEF Reversing, Sorted
<1>3. path[1].item = item /\ path[1].next = next
  BY <1>2 DEF Top
<1>4. path \in Seq(Frames) /\ DOMAIN path = 1..1
  BY <1>2 DEF IInv, Types, StackTypes
<1>5. item \in Known /\ item \in Names /\ Items = Known
  BY <1>2, <1>3 DEF IInv, Types, ControlTypes, GraphTypes, All, Items, Known
<1>6. dependencies[item] \in Seq(Names)
  BY <1>5 DEF IInv, Types, GraphTypes
<1> QED BY <1>1, <1>2, <1>3, <1>4, <1>5, <1>6

LEMMA reverseDependencyKeeps ==
  ASSUME IInv, reverseDependency
  PROVE  IInv'
<1>1. PICK item, next : item = Top.item /\ next = Top.next
  OBVIOUS
<1>2. PICK dep : dep = dependencies[item][next]
  OBVIOUS
<1>3. PICK old : old = ListAt(reverse_dependencies, dep)
  OBVIOUS
<1>4. /\ pc = "reverse" /\ path # <<>> /\ next \in DOMAIN dependencies[item]
      /\ reverse_dependencies' = Put(reverse_dependencies, dep, Append(old, item))
      /\ path' = Advanced
      /\ UNCHANGED <<graph_state, dependencies, outputs, errors, visited, result,
                     partition, pc, todo>>
  BY <1>1, <1>2, <1>3 DEF reverseDependency
<1>5. /\ path[1].item = item /\ path[1].next = next
      /\ path \in Seq(Frames) /\ Len(path) = 1 /\ DOMAIN path = 1..1
      /\ Reversing /\ Sorted
      /\ item \in todo /\ item \in Names
      /\ dependencies[item] \in Seq(Names)
      /\ DOMAIN dependencies[item] = 1..Len(dependencies[item])
      /\ Len(dependencies[item]) \in Nat
      /\ next \in 1..(Len(dependencies[item]) + 1)
  BY <1>1, <1>4, ReversedItem
<1>6. Known' = Known /\ Items' = Items
  BY <1>4, SameGraph
<1>7. dep \in Names
  BY <1>2, <1>4, <1>5
<1>8. old \in Seq(Names)
  <2>1. <<>> \in Seq(Names)
    OBVIOUS
  <2> QED BY <1>3, <2>1 DEF IInv, Types, GraphTypes, ListAt
<1>9. Append(old, item) \in Seq(Names) /\ Elems(Append(old, item)) = Elems(old) \cup {item}
  BY <1>5, <1>8, ElemsOfAppend
<1>10. /\ DOMAIN reverse_dependencies' = DOMAIN reverse_dependencies \cup {dep}
       /\ reverse_dependencies' \in [DOMAIN reverse_dependencies \cup {dep} -> Seq(Names)]
       /\ reverse_dependencies'[dep] = Append(old, item)
       /\ \A j \in DOMAIN reverse_dependencies :
            j # dep => reverse_dependencies'[j] = reverse_dependencies[j]
  <2>1. \A j \in DOMAIN reverse_dependencies : reverse_dependencies[j] \in Seq(Names)
    BY DEF IInv, Types, GraphTypes
  <2>2. reverse_dependencies' \in [DOMAIN reverse_dependencies \cup {dep} -> Seq(Names)]
    BY <1>4, <1>9, <2>1, PutTypes
  <2> QED BY <1>4, <2>2 DEF Put
<1>11. /\ ListAt(reverse_dependencies', dep) = Append(old, item)
       /\ \A j : j # dep => ListAt(reverse_dependencies', j) = ListAt(reverse_dependencies, j)
  <2>1. ListAt(reverse_dependencies', dep) = Append(old, item)
    BY <1>10 DEF ListAt
  <2>2. ASSUME NEW j, j # dep
        PROVE  ListAt(reverse_dependencies', j) = ListAt(reverse_dependencies, j)
    <3>1. CASE j \in DOMAIN reverse_dependencies
      BY <1>10, <2>2, <3>1 DEF ListAt
    <3>2. CASE j \notin DOMAIN reverse_dependencies
      BY <1>10, <2>2, <3>2 DEF ListAt
    <3> QED BY <3>1, <3>2
  <2> QED BY <2>1, <2>2
<1>12. /\ path' \in Seq(Frames) /\ path' # <<>> /\ Len(path') = 1
       /\ path'[1].item = item /\ path'[1].next = next + 1
  <2>1. path \in Seq(Frames) /\ path # <<>>
    BY <1>4, <1>5
  <2>2. ASSUME NEW q, q = [path EXCEPT ![Len(path)].next = @ + 1]
        PROVE  /\ q \in Seq(Frames) /\ q # <<>>
               /\ Len(q) = Len(path) /\ DOMAIN q = DOMAIN path
               /\ \A n \in DOMAIN path : q[n].item = path[n].item
               /\ \A n \in DOMAIN path : n # Len(path) => q[n] = path[n]
               /\ q[Len(path)].next = path[Len(path)].next + 1
    BY <2>1, <2>2, StackAdvances
  <2>3. path' = [path EXCEPT ![Len(path)].next = @ + 1]
    BY <1>4 DEF Advanced
  <2>4. /\ path' \in Seq(Frames) /\ path' # <<>> /\ Len(path') = Len(path)
        /\ \A n \in DOMAIN path : path'[n].item = path[n].item
        /\ path'[Len(path)].next = path[Len(path)].next + 1
    BY <2>2, <2>3
  <2> QED BY <1>5, <2>4
<1>13. Types'
  <2>1. GraphTypes'
    BY <1>4, <1>6, <1>7, <1>10 DEF IInv, Types, GraphTypes
  <2>2. StackTypes' /\ ControlTypes'
    BY <1>4, <1>6, <1>12 DEF IInv, Types, StackTypes, ControlTypes
  <2> QED BY <1>4, <2>1, <2>2, TypesKept DEF IInv, Types
<1>14. Reversing'
  <2>1. Sorted'
    BY <1>4, <1>5, SortedStays DEF outputs
  <2>2. next + 1 \in 1..(Len(dependencies[item]) + 1)
    BY <1>4, <1>5
  <2>3. NotPartitioned'
    BY <1>4, <1>5 DEF Reversing, NotPartitioned, partition
  <2>4. Items' \subseteq DOMAIN reverse_dependencies'
    BY <1>5, <1>6, <1>10 DEF Reversing
  <2>5. \A j \in DOMAIN reverse_dependencies' \ Items' : Elems(reverse_dependencies'[j]) # {}
    BY <1>5, <1>6, <1>9, <1>10 DEF Reversing
  <2>6. ASSUME NEW i \in Names, NEW j \in Names
        PROVE  i \in Elems(ListAt(reverse_dependencies', j)) <=> ReversedSoFar(i, j)'
    <3>1. i \in Elems(ListAt(reverse_dependencies', j)) <=>
            \/ i \in Elems(ListAt(reverse_dependencies, j))
            \/ i = item /\ j = dep
      <4>1. CASE j = dep
        BY <1>3, <1>9, <1>11, <4>1
      <4>2. CASE j # dep
        BY <1>11, <4>2
      <4> QED BY <4>1, <4>2
    <3>2. i \in Elems(ListAt(reverse_dependencies, j)) <=> ReversedSoFar(i, j)
      BY <1>5 DEF Reversing
    <3>3. (\E k \in 1..(next + 1 - 1) : dependencies[i][k] = j) <=>
            \/ \E k \in 1..(next - 1) : dependencies[i][k] = j
            \/ dependencies[i][next] = j
      <4>1. next \in Nat \ {0}
        BY <1>5
      <4>2. 1..(next + 1 - 1) = 1..(next - 1) \cup {next}
        BY <4>1
      <4> QED BY <4>2
    <3>4. ReversedSoFar(i, j)' <=> ReversedSoFar(i, j) \/ (i = item /\ j = dep)
      BY <1>2, <1>4, <1>5, <1>6, <1>12, <3>3 DEF ReversedSoFar
    <3> QED BY <3>1, <3>2, <3>4
  <2> QED BY <1>4, <1>5, <1>12, <2>1, <2>2, <2>3, <2>4, <2>5, <2>6 DEF Reversing
<1> QED BY <1>4, <1>13, <1>14 DEF IInv, Phase, Checked

LEMMA reverseItemDoneKeeps ==
  ASSUME IInv, reverseItemDone
  PROVE  IInv'
<1>1. PICK item, next : item = Top.item /\ next = Top.next
  OBVIOUS
<1>2. /\ pc = "reverse" /\ path # <<>> /\ next \notin DOMAIN dependencies[item]
      /\ path' = <<>> /\ todo' = todo \ {item}
      /\ UNCHANGED <<client, outputs, errors, visited, result, partition, pc>>
  BY <1>1 DEF reverseItemDone
<1>3. /\ path[1].item = item /\ path[1].next = next
      /\ Reversing /\ Sorted /\ Items = Known
      /\ item \in todo /\ item \in Known
      /\ DOMAIN dependencies[item] = 1..Len(dependencies[item])
      /\ Len(dependencies[item]) \in Nat
      /\ next \in 1..(Len(dependencies[item]) + 1)
  BY <1>1, <1>2, ReversedItem
<1>4. UNCHANGED dependencies /\ Known' = Known /\ Items' = Items
  BY <1>2, SameGraph DEF client
<1>5. Types'
  <2>1. <<>> \in Seq(Frames)
    OBVIOUS
  <2>2. StackTypes' /\ ControlTypes'
    BY <1>2, <1>4, <2>1 DEF IInv, Types, StackTypes, ControlTypes
  <2> QED BY <1>2, <2>2, TypesKept DEF IInv, Types
<1>6. Reversing'
  <2>1. Sorted'
    BY <1>2, <1>3, <1>4, SortedStays DEF outputs
  <2>2. NotPartitioned' /\ reverse_dependencies' = reverse_dependencies
    BY <1>2, <1>3 DEF Reversing, NotPartitioned, partition, client
  <2>3. \A j : j \in Elems(dependencies[item]) <=> \E k \in 1..(next - 1) : dependencies[item][k] = j
    <3>1. 1..(next - 1) = DOMAIN dependencies[item]
      BY <1>2, <1>3
    <3> QED BY <3>1 DEF Elems
  <2>4. \A i, j : ReversedSoFar(i, j)' <=> ReversedSoFar(i, j)
    <3> SUFFICES ASSUME NEW i, NEW j
                 PROVE  ReversedSoFar(i, j)' <=> ReversedSoFar(i, j)
      OBVIOUS
    <3>1. ReversedSoFar(i, j)' <=> i \in Items \ todo' /\ j \in Elems(dependencies[i])
      BY <1>2, <1>4 DEF ReversedSoFar
    <3>2. ReversedSoFar(i, j) <=> \/ i \in Items \ todo /\ j \in Elems(dependencies[i])
                                  \/ i = item /\ j \in Elems(dependencies[item])
      BY <1>2, <1>3, <2>3 DEF ReversedSoFar
    <3>3. i \in Items \ todo' <=> i \in Items \ todo \/ i = item
      BY <1>2, <1>3
    <3> QED BY <3>1, <3>2, <3>3
  <2>5. \A i, j \in Names' :
          i \in Elems(ListAt(reverse_dependencies, j))' <=> ReversedSoFar(i, j)'
    BY <1>3, <2>2, <2>4 DEF Reversing, ListAt
  <2>6. /\ Items' \subseteq DOMAIN reverse_dependencies'
        /\ \A j \in DOMAIN reverse_dependencies' \ Items' :
             Elems(reverse_dependencies'[j]) # {}
    BY <1>3, <1>4, <2>2 DEF Reversing
  <2> QED BY <1>2, <2>1, <2>2, <2>5, <2>6 DEF Reversing
<1> QED BY <1>2, <1>5, <1>6 DEF IInv, Phase, Checked

LEMMA checkEndKeeps ==
  ASSUME IInv, checkEnd
  PROVE  IInv'
<1>1. /\ pc = "reverse" /\ path = <<>> /\ todo = {} /\ pc' = "checked"
      /\ graph_state' = IF NoErrors THEN "gs_READY" ELSE "gs_ERROR"
      /\ UNCHANGED <<dependencies, reverse_dependencies, outputs, errors,
                     traversal, partition, todo>>
  BY DEF checkEnd, NoErrors
<1>2. Reversing /\ Sorted /\ Known' = Known /\ Items' = Items
  BY <1>1, SameGraph DEF IInv, Phase, Reversing
<1>3. Types'
  <2>1. GraphTypes' /\ ControlTypes'
    BY <1>1, <1>2 DEF IInv, Types, GraphTypes, ControlTypes
  <2> QED BY <1>1, <2>1, TypesKept DEF IInv, Types
<1>4. AfterCheck'
  <2>1. Sorted' /\ NotPartitioned' /\ (NoErrors' <=> NoErrors)
    BY <1>1, <1>2, SortedStays DEF Reversing, NotPartitioned, partition, outputs,
                                   errors, NoErrors
  <2>2. \A i, j : ReversedSoFar(i, j) <=> i \in Items /\ j \in Elems(dependencies[i])
    BY <1>1 DEF ReversedSoFar
  <2>3. \A i, j \in Names :
          i \in Elems(ListAt(reverse_dependencies', j)) <=>
            i \in Items' /\ j \in Elems(dependencies'[i])
    BY <1>1, <1>2, <2>2 DEF Reversing
  <2>4. /\ Items' \subseteq DOMAIN reverse_dependencies'
        /\ \A j \in DOMAIN reverse_dependencies' \ Items' :
             Elems(reverse_dependencies'[j]) # {}
    BY <1>1, <1>2 DEF Reversing
  <2> QED BY <1>1, <2>1, <2>3, <2>4 DEF AfterCheck
<1> QED BY <1>1, <1>3, <1>4 DEF IInv, Phase, Checked

-----------------------------------------------------------------------------
(* Independent sets *)

\* What check() has accepted: there is no edge to anywhere else.
LEMMA Accepted ==
  ASSUME IInv, Checked, graph_state = "gs_READY"
  PROVE  /\ NoErrors /\ AfterCheck /\ Sorted /\ Known = Items /\ Items \subseteq Names
         /\ Elems(in_order) = Items
         /\ DOMAIN reverse_dependencies = Items
         /\ \A i \in Items :
              /\ dependencies[i] \in Seq(Items)
              /\ reverse_dependencies[i] \in Seq(Items)
              /\ Elems(dependencies[i]) \subseteq Items
              /\ Elems(reverse_dependencies[i]) \subseteq Items
              /\ \A j \in Items :
                   j \in Elems(reverse_dependencies[i]) <=> i \in Elems(dependencies[j])
<1>1. AfterCheck /\ Sorted
  BY DEF IInv, Phase, AfterCheck
<1>2. NoErrors
  BY <1>1 DEF AfterCheck
<1>3. Known = Items /\ Items \subseteq Names
  BY <1>1 DEF Sorted, IInv, Types, GraphTypes, All, Items, Known
<1>4. \A v : ListAt(unknowns, v) = <<>>
  BY <1>2 DEF NoErrors, EmptyMap, ListAt
<1>5. ASSUME NEW i \in Items
      PROVE  dependencies[i] \in Seq(Items) /\ Elems(dependencies[i]) \subseteq Items
  <2>1. PICK s : s = sorted_dependencies[i]
    OBVIOUS
  <2>2. SortOf(i, s)
    BY <1>1, <1>3, <2>1 DEF Sorted, Sorts
  <2>3. i \in Elems(s)
    <3>1. s \in Seq(All)
      BY <1>1, <1>3, <2>1 DEF IInv, Types, OutputTypes, Sorted
    <3>2. Len(s) \in DOMAIN s /\ s[Len(s)] = i
      BY <2>2, <3>1 DEF SortOf
    <3> QED BY <3>2 DEF Elems
  <2>4. Elems(dependencies[i]) \subseteq Items
    BY <1>3, <1>4, <2>2, <2>3, ElemsOfEmpty DEF SortOf
  <2>5. dependencies[i] \in Seq(Names)
    BY <1>3 DEF IInv, Types, GraphTypes
  <2>6. dependencies[i] \in Seq(Items)
    BY <2>4, <2>5 DEF Elems
  <2> QED BY <2>4, <2>6
<1>6. ASSUME NEW i \in DOMAIN reverse_dependencies
      PROVE  /\ ListAt(reverse_dependencies, i) = reverse_dependencies[i]
             /\ reverse_dependencies[i] \in Seq(Names) /\ i \in Names
             /\ \A j \in Names : j \in Elems(reverse_dependencies[i]) <=>
                                   j \in Items /\ i \in Elems(dependencies[j])
  BY <1>1 DEF IInv, Types, GraphTypes, ListAt, AfterCheck
<1>7. DOMAIN reverse_dependencies = Items
  <2>1. Items \subseteq DOMAIN reverse_dependencies
    BY <1>1 DEF AfterCheck
  <2>2. ASSUME NEW i \in DOMAIN reverse_dependencies, i \notin Items PROVE FALSE
    <3>1. Elems(reverse_dependencies[i]) # {}
      BY <1>1, <2>2 DEF AfterCheck
    <3>2. PICK j : j \in Elems(reverse_dependencies[i])
      BY <3>1
    <3>3. j \in Names
      BY <1>6, <3>2 DEF Elems
    <3> QED BY <1>5, <1>6, <2>2, <3>2, <3>3
  <2> QED BY <2>1, <2>2
<1>8. ASSUME NEW i \in Items
      PROVE  /\ reverse_dependencies[i] \in Seq(Items)
             /\ Elems(reverse_dependencies[i]) \subseteq Items
             /\ \A j \in Items :
                  j \in Elems(reverse_dependencies[i]) <=> i \in Elems(dependencies[j])
  <2>1. reverse_dependencies[i] \in Seq(Names)
    BY <1>6, <1>7
  <2>2. Elems(reverse_dependencies[i]) \subseteq Names
    BY <2>1 DEF Elems
  <2>3. Elems(reverse_dependencies[i]) \subseteq Items
    BY <1>6, <1>7, <2>2
  <2>4. reverse_dependencies[i] \in Seq(Items)
    BY <2>1, <2>3 DEF Elems
  <2> QED BY <1>3, <1>6, <1>7, <2>3, <2>4
<1>9. Elems(in_order) = Items
  BY <1>1 DEF Sorted
<1> QED BY <1>1, <1>2, <1>3, <1>5, <1>7, <1>8, <1>9

LEMMA AfterCheckStays ==
  ASSUME UNCHANGED <<client, outputs, errors>>, AfterCheck, pc' # "checked"
  PROVE  AfterCheck'
<1>1. UNCHANGED <<dependencies, reverse_dependencies, graph_state, unknowns, cycles>>
  BY DEF client, errors
<1>2. Sorted'
  BY <1>1, SortedStays DEF AfterCheck, outputs
<1>3. NoErrors' <=> NoErrors
  BY <1>1 DEF NoErrors
<1>4. Items' = Items
  BY <1>1, SameGraph
<1> QED BY <1>1, <1>2, <1>3, <1>4 DEF AfterCheck

LEMMA SameLinks ==
  ASSUME UNCHANGED dependencies
  PROVE  \A i, j : (Linked(i, j)' <=> Linked(i, j)) /\ (Together(i, j)' <=> Together(i, j))
<1>1. \A i, j : Linked(i, j)' <=> Linked(i, j)
  BY DEF Linked
<1>2. \A U : Unsplit(U)' <=> Unsplit(U)
  BY <1>1, SameGraph DEF Unsplit
<1> QED BY <1>1, <1>2, SameGraph DEF Together

LEMMA getIndependentSetsKeeps ==
  ASSUME IInv, getIndependentSets
  PROVE  IInv'
<1>1. /\ pc = "checked" /\ graph_state = "gs_READY" /\ pc' = "partition"
      /\ UNCHANGED <<client, outputs, errors, traversal, partition, todo>>
  BY DEF getIndependentSets
<1>2. AfterCheck /\ NotPartitioned
  BY <1>1 DEF IInv, Phase, Checked, AfterCheck
<1>3. AfterCheck'
  BY <1>1, <1>2, AfterCheckStays
<1>4. Types'
  <2>1. ControlTypes'
    BY <1>1 DEF IInv, Types, ControlTypes, client, Known
  <2> QED BY <1>1, <2>1, TypesKept DEF IInv, Types
<1>5. Partitioning'
  <2>1. NotPartitioned' /\ graph_state' = "gs_READY"
    BY <1>1, <1>2 DEF NotPartitioned, partition, client
  <2>2. 0..(next_set' - 1) = {}
    BY <2>1 DEF NotPartitioned
  <2> QED BY <2>1, <2>2, ElemsOfEmpty DEF NotPartitioned, Partitioning
<1> QED BY <1>1, <1>3, <1>4, <1>5 DEF IInv, Phase, Checked

\* The frame of the steps of getIndependentSets.
LEMMA PartitionStep ==
  ASSUME IInv, pc = "partition", pc' = "partition",
         UNCHANGED <<client, outputs, errors, traversal, todo>>,
         PartitionTypes', Partitioning'
  PROVE  IInv'
<1>1. AfterCheck'
  BY AfterCheckStays DEF IInv, Phase, Checked
<1>2. Types'
  <2>1. ControlTypes'
    BY DEF IInv, Types, ControlTypes, client, Known
  <2> QED BY <2>1, TypesKept DEF IInv, Types
<1> QED BY <1>1, <1>2 DEF IInv, Phase, Checked

LEMMA startSetKeeps ==
  ASSUME IInv, startSet
  PROVE  IInv'
<1>1. /\ pc = "partition" /\ pc' = "partition" /\ nodes = <<>> /\ next_set' = next_set + 1
      /\ UNCHANGED <<client, outputs, errors, traversal, independent_sets, set_numbers,
                     pc, todo>>
  BY DEF startSet
<1>2. PICK n \in DOMAIN in_order :
        in_order[n] \notin DOMAIN set_numbers /\ nodes' = <<in_order[n]>>
  BY DEF startSet
<1>3. PICK node : node = in_order[n]
  OBVIOUS
<1>4. Partitioning /\ graph_state = "gs_READY" /\ Elems(in_order) = Items /\ next_set \in Nat
  <2>1. Partitioning /\ graph_state = "gs_READY"
    BY <1>1 DEF IInv, Phase, Partitioning
  <2>2. Checked
    BY <1>1 DEF Checked
  <2> QED BY <2>1, <2>2, Accepted DEF IInv, Types, PartitionTypes
<1>5. node \in Items /\ node \in All /\ node \notin DOMAIN set_numbers
  BY <1>2, <1>3, <1>4 DEF Elems, IInv, Types, GraphTypes, Items, Known
<1>6. /\ UNCHANGED dependencies /\ Items' = Items
      /\ \A i, j : (Linked(i, j)' <=> Linked(i, j)) /\ (Together(i, j)' <=> Together(i, j))
  BY <1>1, SameGraph, SameLinks DEF client
<1>7. nodes' \in Seq(All) /\ nodes' # <<>> /\ Elems(nodes') = {node}
  <2>1. nodes' = <<node>>
    BY <1>2, <1>3
  <2>2. Elems(<<node>>) = {node}
    BY DEF Elems
  <2>3. <<node>> \in Seq(All) /\ <<node>> # <<>>
    BY <1>5
  <2> QED BY <2>1, <2>2, <2>3
<1>8. PartitionTypes'
  BY <1>1, <1>4, <1>7 DEF IInv, Types, PartitionTypes
<1> PICK new : new = next_set
  OBVIOUS
<1>9. /\ Group(new)' = {node}
      /\ \A s \in 0..(next_set - 1) : Group(s)' = Group(s)
  <2>1. \A i \in DOMAIN set_numbers : set_numbers[i] \in 0..(next_set - 1)
    BY <1>4 DEF Partitioning
  <2>2. {i \in DOMAIN set_numbers : set_numbers[i] = new} = {} /\ new = next_set' - 1
    BY <1>1, <1>4, <2>1
  <2>3. Group(new)' = {node}
    BY <1>1, <1>7, <2>2 DEF Group
  <2>4. ASSUME NEW s \in 0..(next_set - 1) PROVE Group(s)' = Group(s)
    <3>1. s # next_set' - 1
      BY <1>1, <1>4
    <3> QED BY <1>1, <3>1, ElemsOfEmpty DEF Group
  <2> QED BY <2>3, <2>4
<1>10. Partitioning'
  <2>1. graph_state' = "gs_READY" /\ DOMAIN set_numbers' \subseteq Items'
    BY <1>1, <1>4, <1>6 DEF Partitioning, client
  <2>2. \A i \in DOMAIN set_numbers' : set_numbers'[i] \in 0..(next_set' - 1)
    BY <1>1, <1>4 DEF Partitioning
  <2>3. Elems(nodes') \subseteq Items' /\ next_set' > 0
    BY <1>1, <1>4, <1>5, <1>6, <1>7
  <2>4. \A i \in DOMAIN set_numbers' : \A j \in Items' :
          Linked(i, j)' => j \in Group(set_numbers[i])'
    <3> SUFFICES ASSUME NEW i \in DOMAIN set_numbers, NEW j \in Items, Linked(i, j)
                 PROVE  j \in Group(set_numbers[i])'
      BY <1>1, <1>6
    <3>1. PICK s : s = set_numbers[i]
      OBVIOUS
    <3>2. s \in 0..(next_set - 1) /\ j \in Group(s)
      BY <1>4, <3>1 DEF Partitioning
    <3>3. j \in Group(s)'
      BY <1>9, <3>2
    <3>4. s = set_numbers'[i]
      BY <1>1, <3>1
    <3> QED BY <3>3, <3>4 DEF Group
  <2>5. \A i \in Elems(nodes') \cap DOMAIN set_numbers' : set_numbers'[i] = next_set' - 1
    BY <1>1, <1>5, <1>7
  <2>6. \A s \in 0..(next_set' - 1) : \A i, j \in Group(s)' : Together(i, j)'
    <3> SUFFICES ASSUME NEW s \in 0..next_set, NEW i \in Group(s)', NEW j \in Group(s)'
                 PROVE  Together(i, j)
      BY <1>1, <1>4, <1>6
    <3>1. CASE s = new
      BY <1>9, <3>1 DEF Together
    <3>2. CASE s # new
      <4>1. s \in 0..(next_set - 1)
        BY <1>4, <3>2
      <4> QED BY <1>4, <1>9, <4>1 DEF Partitioning
    <3> QED BY <3>1, <3>2
  <2> QED BY <2>1, <2>2, <2>3, <2>4, <2>5, <2>6 DEF Partitioning
<1> QED BY <1>1, <1>8, <1>10, PartitionStep

\* Whoever is linked to a member of a set belongs to it.
LEMMA TogetherOn ==
  ASSUME NEW G \in SUBSET Items, \A i, j \in G : Together(i, j),
         NEW node \in G, NEW more \in SUBSET Items,
         \A j \in more : Linked(node, j)
  PROVE  \A i, j \in G \cup more : Together(i, j)
<1>1. \A i, j : Linked(i, j) <=> Linked(j, i)
  BY DEF Linked
<1>2. \A i \in G \cup more : Together(i, node)
  BY <1>1 DEF Together, Unsplit
<1>3. \A j \in G \cup more : Together(node, j)
  BY <1>1 DEF Together, Unsplit
<1> QED BY <1>2, <1>3 DEF Together

LEMMA expandNodeKeeps ==
  ASSUME IInv, expandNode
  PROVE  IInv'
<1>1. PICK node : node = Head(nodes)
  OBVIOUS
<1>2. /\ pc = "partition" /\ pc' = "partition" /\ nodes # <<>>
      /\ UNCHANGED <<client, outputs, errors, traversal, independent_sets,
                     next_set, pc, todo>>
      /\ IF node \in DOMAIN set_numbers
         THEN nodes' = Tail(nodes) /\ UNCHANGED set_numbers
         ELSE /\ set_numbers' = Put(set_numbers, node, next_set - 1)
              /\ nodes' = Tail(nodes) \o dependencies[node] \o reverse_dependencies[node]
  BY <1>1 DEF expandNode
<1>3. Partitioning /\ graph_state = "gs_READY" /\ Checked
  BY <1>2 DEF IInv, Phase, Partitioning, Checked
<1>4. nodes \in Seq(All) /\ next_set \in Nat \ {0}
  BY <1>2, <1>3 DEF IInv, Types, PartitionTypes, Partitioning
<1>5. /\ Tail(nodes) \in Seq(All) /\ Elems(nodes) = {node} \cup Elems(Tail(nodes))
  BY <1>1, <1>2, <1>4, ElemsOfTail
<1>6. node \in Items
  BY <1>3, <1>5 DEF Partitioning
<1>7. /\ dependencies[node] \in Seq(Items) /\ reverse_dependencies[node] \in Seq(Items)
      /\ Elems(dependencies[node]) \subseteq Items
      /\ Elems(reverse_dependencies[node]) \subseteq Items
      /\ \A j \in Items :
           j \in Elems(reverse_dependencies[node]) <=> node \in Elems(dependencies[j])
      /\ Items \subseteq Names
  BY <1>3, <1>6, Accepted
<1>8. /\ UNCHANGED dependencies /\ Items' = Items
      /\ \A i, j : (Linked(i, j)' <=> Linked(i, j)) /\ (Together(i, j)' <=> Together(i, j))
  BY <1>2, SameGraph, SameLinks DEF client
<1>9. PICK last : last = next_set - 1
  OBVIOUS
<1>10. last \in Nat /\ last = next_set' - 1 /\ last \in 0..(next_set - 1)
  BY <1>2, <1>4, <1>9
<1>11. CASE node \in DOMAIN set_numbers
  <2>1. nodes' = Tail(nodes) /\ set_numbers' = set_numbers
    BY <1>2, <1>11
  <2>2. PartitionTypes'
    BY <1>2, <1>5, <2>1 DEF IInv, Types, PartitionTypes
  <2>3. set_numbers[node] = last
    BY <1>3, <1>5, <1>9, <1>11 DEF Partitioning
  <2>4. \A s : Group(s)' = Group(s)
    <3> TAKE s
    <3>1. CASE s = last
      BY <1>2, <1>5, <1>9, <1>10, <1>11, <2>1, <2>3, <3>1 DEF Group
    <3>2. CASE s # last
      BY <1>2, <1>9, <1>10, <2>1, <3>2 DEF Group
    <3> QED BY <3>1, <3>2
  <2>5. Partitioning'
    <3>1. /\ graph_state' = "gs_READY" /\ DOMAIN set_numbers' \subseteq Items'
          /\ \A i \in DOMAIN set_numbers' : set_numbers'[i] \in 0..(next_set' - 1)
          /\ Elems(nodes') \subseteq Items' /\ next_set' > 0
          /\ \A i \in Elems(nodes') \cap DOMAIN set_numbers' : set_numbers'[i] = next_set' - 1
      BY <1>2, <1>3, <1>4, <1>5, <1>8, <2>1 DEF Partitioning, client
    <3>2. \A i \in DOMAIN set_numbers' : \A j \in Items' :
            Linked(i, j)' => j \in Group(set_numbers[i])'
      <4> SUFFICES ASSUME NEW i \in DOMAIN set_numbers, NEW j \in Items, Linked(i, j)
                   PROVE  j \in Group(set_numbers[i])'
        BY <1>8, <2>1
      <4>1. PICK s : s = set_numbers[i]
        OBVIOUS
      <4>2. j \in Group(s)'
        BY <1>3, <2>4, <4>1 DEF Partitioning
      <4>3. s = set_numbers'[i]
        BY <2>1, <4>1
      <4> QED BY <4>2, <4>3 DEF Group
    <3>3. \A s \in 0..(next_set' - 1) : \A i, j \in Group(s)' : Together(i, j)'
      BY <1>2, <1>3, <1>8, <2>4 DEF Partitioning
    <3> QED BY <3>1, <3>2, <3>3 DEF Partitioning
  <2> QED BY <1>2, <2>2, <2>5, PartitionStep
<1>12. CASE node \notin DOMAIN set_numbers
  <2> DEFINE more == Elems(dependencies[node]) \cup Elems(reverse_dependencies[node])
  <2>1. /\ set_numbers' = Put(set_numbers, node, last)
        /\ nodes' = Tail(nodes) \o dependencies[node] \o reverse_dependencies[node]
    BY <1>2, <1>9, <1>12
  <2>2. /\ nodes' \in Seq(All)
        /\ Elems(nodes') = Elems(Tail(nodes)) \cup more
    <3>1. PICK s, d, r : s = Tail(nodes) /\ d = dependencies[node] /\ r = reverse_dependencies[node]
      OBVIOUS
    <3>2. s \in Seq(All) /\ d \in Seq(All) /\ r \in Seq(All)
      <4>1. Items \subseteq All
        BY <1>7 DEF All
      <4> QED BY <1>5, <1>7, <3>1, <4>1
    <3>3. s \o d \in Seq(All) /\ Elems(s \o d) = Elems(s) \cup Elems(d)
      BY <3>2, ElemsOfConcat
    <3>4. /\ s \o d \o r \in Seq(All)
          /\ Elems(s \o d \o r) = Elems(s \o d) \cup Elems(r)
      <4>1. PICK sd : sd = s \o d
        OBVIOUS
      <4>2. sd \in Seq(All)
        BY <3>3, <4>1
      <4>3. Elems(sd \o r) = Elems(sd) \cup Elems(r)
        BY <3>2, <4>2, ElemsOfConcat
      <4>4. sd \o r \in Seq(All)
        BY <3>2, <4>2
      <4> QED BY <4>1, <4>3, <4>4
    <3> QED BY <2>1, <3>1, <3>3, <3>4
  <2>3. more \subseteq Items /\ \A j \in Items : Linked(node, j) <=> j \in more
    BY <1>6, <1>7 DEF Linked
  <2> HIDE DEF more
  <2>4. /\ DOMAIN set_numbers' = DOMAIN set_numbers \cup {node}
        /\ set_numbers'[node] = last
        /\ \A i \in DOMAIN set_numbers : set_numbers'[i] = set_numbers[i]
    BY <1>12, <2>1 DEF Put
  <2>5. PartitionTypes'
    BY <1>2, <1>6, <1>7, <2>2, <2>4 DEF IInv, Types, PartitionTypes, All
  <2>6. Group(last)' = Group(last) \cup more
    <3>1. {i \in DOMAIN set_numbers' : set_numbers'[i] = last} =
            {i \in DOMAIN set_numbers : set_numbers[i] = last} \cup {node}
      BY <1>12, <2>4
    <3> QED BY <1>5, <1>9, <1>10, <2>2, <3>1 DEF Group
  <2>7. \A s : s # last => Group(s)' = Group(s)
    <3> SUFFICES ASSUME NEW s, s # last PROVE Group(s)' = Group(s)
      OBVIOUS
    <3>1. {i \in DOMAIN set_numbers' : set_numbers'[i] = s} =
            {i \in DOMAIN set_numbers : set_numbers[i] = s}
      BY <1>12, <2>4
    <3> QED BY <1>9, <1>10, <3>1 DEF Group
  <2>8. node \in Group(last) /\ Group(last) \subseteq Items
    BY <1>3, <1>5, <1>9 DEF Group, Partitioning
  <2>9. Partitioning'
    <3>1. /\ graph_state' = "gs_READY" /\ DOMAIN set_numbers' \subseteq Items'
          /\ next_set' > 0
      BY <1>2, <1>3, <1>4, <1>6, <1>8, <2>4 DEF Partitioning, client
    <3>2. \A i \in DOMAIN set_numbers' : set_numbers'[i] \in 0..(next_set' - 1)
      BY <1>2, <1>3, <1>10, <2>4 DEF Partitioning
    <3>3. Elems(nodes') \subseteq Items'
      BY <1>3, <1>5, <1>8, <2>2, <2>3 DEF Partitioning
    <3>4. \A i \in DOMAIN set_numbers' : \A j \in Items' :
            Linked(i, j)' => j \in Group(set_numbers[i])'
      <4> SUFFICES ASSUME NEW i \in DOMAIN set_numbers', NEW j \in Items, Linked(i, j)
                   PROVE  j \in Group(set_numbers[i])'
        BY <1>8
      <4>1. PICK s : s = set_numbers'[i]
        OBVIOUS
      <4>2. j \in Group(s)'
        <5>1. CASE i = node
          BY <2>3, <2>4, <2>6, <4>1, <5>1
        <5>2. CASE i # node
          <6>1. i \in DOMAIN set_numbers /\ s = set_numbers[i]
            BY <2>4, <4>1, <5>2
          <6>2. j \in Group(s)
            BY <1>3, <6>1 DEF Partitioning
          <6> QED BY <2>6, <2>7, <6>2
        <5> QED BY <5>1, <5>2
      <4> QED BY <4>1, <4>2 DEF Group
    <3>5. \A i \in Elems(nodes') \cap DOMAIN set_numbers' : set_numbers'[i] = next_set' - 1
      <4> SUFFICES ASSUME NEW i \in Elems(nodes'), i \in DOMAIN set_numbers'
                   PROVE  set_numbers'[i] = last
        BY <1>10
      <4>1. CASE i = node
        BY <2>4, <4>1
      <4>2. CASE i \in DOMAIN set_numbers /\ i \in Elems(Tail(nodes))
        BY <1>3, <1>5, <1>9, <2>4, <4>2 DEF Partitioning
      <4>3. CASE i \in DOMAIN set_numbers /\ i \in more
        <5>1. i \in Items /\ Linked(i, node)
          BY <2>3, <4>3 DEF Linked
        <5>2. node \in Group(set_numbers[i])
          BY <1>3, <1>6, <4>3, <5>1 DEF Partitioning
        <5>3. set_numbers[i] = last
          BY <1>9, <1>12, <5>2 DEF Group
        <5> QED BY <2>4, <4>3, <5>3
      <4> QED BY <2>2, <2>4, <4>1, <4>2, <4>3
    <3>6. \A s \in 0..(next_set' - 1) : \A i, j \in Group(s)' : Together(i, j)'
      <4> SUFFICES ASSUME NEW s \in 0..(next_set - 1), NEW i \in Group(s)', NEW j \in Group(s)'
                   PROVE  Together(i, j)
        BY <1>2, <1>8
      <4>1. CASE s = last
        <5>1. \A k, l \in Group(last) : Together(k, l)
          BY <1>3, <1>10 DEF Partitioning
        <5>2. \A k, l \in Group(last) \cup more : Together(k, l)
          BY <2>3, <2>8, <5>1, TogetherOn
        <5> QED BY <2>6, <4>1, <5>2
      <4>2. CASE s # last
        BY <1>3, <2>7, <4>2 DEF Partitioning
      <4> QED BY <4>1, <4>2
    <3> QED BY <3>1, <3>2, <3>3, <3>4, <3>5, <3>6 DEF Partitioning
  <2> QED BY <1>2, <2>5, <2>9, PartitionStep
<1> QED BY <1>11, <1>12

-----------------------------------------------------------------------------
(* std::sort by the place in the order *)

LEMMA PlaceInOrder ==
  ASSUME in_order \in Seq(Names), Distinct(in_order)
  PROVE  /\ IsFiniteSet(Elems(in_order))
         /\ \A i \in Elems(in_order) :
              item_order(i) \in DOMAIN in_order /\ in_order[item_order(i)] = i
         /\ \A n \in DOMAIN in_order : item_order(in_order[n]) = n
         /\ \A i \in Elems(in_order) : item_order(i) \in Nat
<1>1. DOMAIN in_order = 1..Len(in_order) /\ Len(in_order) \in Nat
  OBVIOUS
<1>2. IsFiniteSet(Elems(in_order))
  <2>1. in_order \in Surjection(1..Len(in_order), Elems(in_order))
    <3>1. in_order \in [1..Len(in_order) -> Elems(in_order)]
      BY <1>1 DEF Elems
    <3> QED BY <1>1, <3>1 DEF Surjection, Elems
  <2>2. IsFiniteSet(1..Len(in_order))
    BY <1>1, FS_Interval
  <2> QED BY <2>1, <2>2, FS_Surjection
<1>3. \A i \in Elems(in_order) :
        item_order(i) \in DOMAIN in_order /\ in_order[item_order(i)] = i
  BY DEF Elems, item_order
<1>4. ASSUME NEW n \in DOMAIN in_order PROVE item_order(in_order[n]) = n
  <2>1. in_order[n] \in Elems(in_order)
    BY DEF Elems
  <2> QED BY <1>3, <2>1 DEF Distinct
<1> QED BY <1>1, <1>2, <1>3, <1>4

\* Any items of the order can be listed in it, and SortedByOrder does it.
LEMMA SortedListing ==
  ASSUME in_order \in Seq(Names), Distinct(in_order),
         NEW T \in SUBSET Elems(in_order), NEW list, list = SortedByOrder(T)
  PROVE  /\ Cardinality(T) \in Nat
         /\ list \in [1..Cardinality(T) -> T]
         /\ Elems(list) = T
         /\ \A m, n \in 1..Cardinality(T) :
              m < n => item_order(list[m]) < item_order(list[n])
<1>1. /\ IsFiniteSet(Elems(in_order))
      /\ \A i \in T : item_order(i) \in Nat /\ in_order[item_order(i)] = i
  BY PlaceInOrder
<1>2. IsFiniteSet(T) /\ Cardinality(T) \in Nat
  BY <1>1, FS_Subset, FS_CardinalityType
<1>3. PICK size \in Nat : size = Cardinality(T)
  BY <1>2
<1> DEFINE upto(i) == {j \in T : item_order(j) <= item_order(i)}
           rank == [i \in T |-> Cardinality(upto(i))]
<1>4. \A i \in T : IsFiniteSet(upto(i)) /\ Cardinality(upto(i)) \in 1..size
  <2> TAKE i \in T
  <2>1. IsFiniteSet(upto(i)) /\ Cardinality(upto(i)) <= size /\ Cardinality(upto(i)) \in Nat
    <3>1. upto(i) \in SUBSET T
      OBVIOUS
    <3> HIDE DEF upto
    <3> QED BY <1>2, <1>3, <3>1, FS_Subset, FS_CardinalityType
  <2>2. i \in upto(i)
    BY <1>1
  <2> HIDE DEF upto
  <2>3. Cardinality(upto(i)) # 0
    BY <2>1, <2>2, FS_EmptySet
  <2> QED BY <2>1, <2>3
<1>5. ASSUME NEW i \in T, NEW j \in T, item_order(i) < item_order(j)
      PROVE  Cardinality(upto(i)) < Cardinality(upto(j))
  <2>1. upto(i) \in SUBSET upto(j) /\ j \in upto(j) /\ j \notin upto(i)
    BY <1>1, <1>5
  <2>2. /\ IsFiniteSet(upto(j))
        /\ Cardinality(upto(i)) \in 1..size /\ Cardinality(upto(j)) \in 1..size
    BY <1>4
  <2> HIDE DEF upto
  <2>3. /\ Cardinality(upto(i)) <= Cardinality(upto(j))
        /\ Cardinality(upto(j)) = Cardinality(upto(i)) => upto(j) = upto(i)
    BY <2>1, <2>2, FS_Subset
  <2> QED BY <2>1, <2>2, <2>3
<1>6. \A i, j \in T : rank[i] < rank[j] => item_order(i) < item_order(j)
  <2> SUFFICES ASSUME NEW i \in T, NEW j \in T, rank[i] < rank[j], ~(item_order(i) < item_order(j))
               PROVE  FALSE
    OBVIOUS
  <2>1. item_order(i) = item_order(j) \/ item_order(j) < item_order(i)
    BY <1>1
  <2>2. item_order(i) = item_order(j) => i = j
    BY <1>1
  <2>3. rank[i] = rank[j] \/ rank[j] < rank[i]
    BY <1>5, <2>1, <2>2
  <2>4. rank[i] \in 1..size /\ rank[j] \in 1..size
    BY <1>4
  <2> QED BY <2>3, <2>4
<1>7. rank \in Injection(T, 1..size)
  <2>1. rank \in [T -> 1..size]
    BY <1>4
  <2>2. ASSUME NEW i \in T, NEW j \in T, rank[i] = rank[j] PROVE i = j
    <3>1. rank[i] \in 1..size /\ rank[j] \in 1..size
      BY <1>4
    <3>2. ~(item_order(i) < item_order(j)) /\ ~(item_order(j) < item_order(i))
      <4>1. rank[i] = Cardinality(upto(i)) /\ rank[j] = Cardinality(upto(j))
        OBVIOUS
      <4>2. Cardinality(upto(i)) = Cardinality(upto(j)) /\ Cardinality(upto(i)) \in 1..size
        BY <2>2, <3>1, <4>1
      <4> HIDE DEF upto, rank
      <4>3. ~(Cardinality(upto(i)) < Cardinality(upto(j)))
        BY <4>2
      <4>4. ~(Cardinality(upto(j)) < Cardinality(upto(i)))
        BY <4>2
      <4> QED BY <1>5, <4>3, <4>4
    <3>3. item_order(i) = item_order(j)
      BY <1>1, <3>2
    <3> QED BY <1>1, <3>3
  <2> HIDE DEF rank
  <2> QED BY <2>1, <2>2 DEF Injection, IsInjective
<1> HIDE DEF rank
<1>8. rank \in Surjection(T, 1..size)
  <2>1. IsFiniteSet(1..size) /\ Cardinality(1..size) = size
    BY FS_Interval
  <2> QED BY <1>3, <1>7, <2>1, FS_Injection
<1>9. \A k \in 1..size : \E i \in T : rank[i] = k
  BY <1>8 DEF Surjection
<1> DEFINE sorting == [k \in 1..size |-> CHOOSE i \in T : rank[i] = k]
<1>10. \A k \in 1..size : sorting[k] \in T /\ rank[sorting[k]] = k
  BY <1>9
<1>11. sorting \in [1..size -> T]
  BY <1>10
<1>12. \A m, n \in 1..size : m < n => item_order(sorting[m]) < item_order(sorting[n])
  <2> HIDE DEF sorting
  <2> QED BY <1>6, <1>10
<1>13. \A i, j \in T : compareItems(i, j) = -1 <=> item_order(i) < item_order(j)
  BY <1>1 DEF compareItems
<1> HIDE DEF sorting
<1>14. \E s \in [1..size -> T] :
         \A m, n \in DOMAIN s : m < n => compareItems(s[m], s[n]) = -1
  <2>1. \A m, n \in DOMAIN sorting : m < n => compareItems(sorting[m], sorting[n]) = -1
    BY <1>10, <1>11, <1>12, <1>13
  <2> QED BY <1>11, <2>1
<1>15. /\ list \in [1..size -> T]
       /\ \A m, n \in DOMAIN list : m < n => compareItems(list[m], list[n]) = -1
  BY <1>3, <1>14 DEF SortedByOrder
<1>16. \A m, n \in 1..size : m < n => item_order(list[m]) < item_order(list[n])
  BY <1>13, <1>15
<1>17. list \in Injection(1..size, T)
  <2>1. ASSUME NEW m \in 1..size, NEW n \in 1..size, list[m] = list[n] PROVE m = n
    <3>1. ~(m < n) /\ ~(n < m)
      BY <1>1, <1>15, <1>16, <2>1
    <3> QED BY <3>1
  <2> QED BY <1>15, <2>1 DEF Injection, IsInjective
<1>18. list \in Surjection(1..size, T)
  <2>1. Cardinality(1..size) = size
    BY FS_Interval
  <2> QED BY <1>2, <1>3, <1>17, <2>1, FS_Injection
<1>19. Elems(list) = T
  <2>1. DOMAIN list = 1..size
    BY <1>15
  <2> QED BY <1>15, <1>18, <2>1 DEF Surjection, Elems
<1> QED BY <1>3, <1>15, <1>16, <1>19

LEMMA gatherSetsKeeps ==
  ASSUME IInv, gatherSets
  PROVE  IInv'
<1>1. /\ pc = "partition" /\ pc' = "done" /\ nodes = <<>>
      /\ DOMAIN set_numbers = Elems(in_order)
      /\ independent_sets' =
           [s \in 1..next_set |->
              SortedByOrder({i \in DOMAIN set_numbers : set_numbers[i] = s - 1})]
      /\ UNCHANGED <<client, outputs, errors, traversal, nodes, set_numbers,
                     next_set, todo>>
  BY DEF gatherSets
<1>2. Partitioning /\ graph_state = "gs_READY" /\ Checked
  BY <1>1 DEF IInv, Phase, Partitioning, Checked
<1>3. /\ Elems(in_order) = Items /\ Items \subseteq Names /\ AfterCheck /\ Sorted
  BY <1>2, Accepted
<1>4. in_order \in Seq(Names) /\ Distinct(in_order) /\ next_set \in Nat
  BY <1>3 DEF IInv, Types, OutputTypes, PartitionTypes, Sorted
<1>5. UNCHANGED <<dependencies, in_order>>
  BY <1>1 DEF client, outputs
<1>6. independent_sets' \in Seq(Seq(All))
  <2>1. ASSUME NEW s \in 1..next_set
        PROVE  independent_sets'[s] \in Seq(All)
    <3>1. PICK T : T = {i \in DOMAIN set_numbers : set_numbers[i] = s - 1}
      OBVIOUS
    <3>2. PICK list : list = SortedByOrder(T)
      OBVIOUS
    <3>3. T \in SUBSET Elems(in_order)
      BY <1>1, <3>1
    <3>4. Cardinality(T) \in Nat /\ list \in [1..Cardinality(T) -> T]
      BY <1>4, <3>2, <3>3, SortedListing
    <3>5. list \in [1..Cardinality(T) -> All]
      BY <1>3, <3>3, <3>4 DEF All
    <3>6. list \in Seq(All)
      BY <3>4, <3>5
    <3> QED BY <1>1, <3>1, <3>2, <3>6
  <2>2. independent_sets' \in [1..next_set -> Seq(All)]
    BY <1>1, <2>1
  <2> QED BY <1>4, <2>2
<1>7. Types'
  <2>1. PartitionTypes' /\ ControlTypes'
    BY <1>1, <1>5, <1>6 DEF IInv, Types, PartitionTypes, ControlTypes, Known
  <2> QED BY <1>1, <2>1, TypesKept DEF IInv, Types
<1>8. AfterCheck'
  BY <1>1, <1>3, AfterCheckStays
<1>9. Partitioning' /\ Partitioned'
  <2>1. Items' = Items /\ \A s : Group(s)' = Group(s)
    BY <1>1, <1>5, SameGraph DEF Group
  <2>2. \A i, j : (Linked(i, j)' <=> Linked(i, j)) /\ (Together(i, j)' <=> Together(i, j))
    BY <1>5, SameLinks
  <2>3. /\ graph_state' = graph_state /\ set_numbers' = set_numbers /\ nodes' = nodes
        /\ next_set' = next_set
    BY <1>1 DEF client
  <2>4. \A i \in DOMAIN set_numbers' : \A j \in Items' :
          Linked(i, j)' => j \in Group(set_numbers[i])'
    <3> SUFFICES ASSUME NEW i \in DOMAIN set_numbers, NEW j \in Items, Linked(i, j)
                 PROVE  j \in Group(set_numbers[i])'
      BY <2>1, <2>2, <2>3
    <3>1. PICK s : s = set_numbers[i] /\ s = set_numbers'[i]
      BY <2>3
    <3>2. j \in Group(s)'
      BY <1>2, <2>1, <3>1 DEF Partitioning
    <3> QED BY <3>1, <3>2 DEF Group
  <2>5. Partitioning'
    BY <1>2, <2>1, <2>2, <2>3, <2>4 DEF Partitioning
  <2>6. \A T : SortedByOrder(T)' = SortedByOrder(T)
    BY <1>5 DEF SortedByOrder, compareItems, item_order
  <2>7. ASSUME NEW s
        PROVE  SortedByOrder({i \in DOMAIN set_numbers : set_numbers[i] = s - 1})' =
                 SortedByOrder({i \in DOMAIN set_numbers : set_numbers[i] = s - 1})
    <3>1. PICK T : T = {i \in DOMAIN set_numbers : set_numbers[i] = s - 1}
      OBVIOUS
    <3>2. T = {i \in DOMAIN set_numbers : set_numbers[i] = s - 1}'
      BY <2>3, <3>1
    <3>3. SortedByOrder({i \in DOMAIN set_numbers : set_numbers[i] = s - 1})' = SortedByOrder(T)'
      BY <3>2 DEF SortedByOrder, compareItems, item_order
    <3> QED BY <2>6, <3>1, <3>3
  <2>8. Partitioned'
    BY <1>1, <1>3, <2>1, <2>3, <2>7 DEF Partitioned
  <2> QED BY <2>5, <2>8
<1> QED BY <1>1, <1>7, <1>8, <1>9 DEF IInv, Phase, Checked

-----------------------------------------------------------------------------
(* The invariant *)

LEMMA Stutters ==
  ASSUME IInv, UNCHANGED vars
  PROVE  IInv'
<1>1. /\ UNCHANGED <<client, outputs, errors, traversal, partition, pc, todo>>
      /\ UNCHANGED <<graph_state, dependencies, reverse_dependencies,
                     sorted_dependencies, in_order, unknowns, cycles>>
      /\ UNCHANGED <<path, visited, result, independent_sets, nodes, set_numbers, next_set>>
  BY DEF vars, client, outputs, errors, traversal, partition
<1>2. Types'
  BY <1>1, TypesKept DEF IInv, Types
<1>3. /\ Known' = Known /\ Items' = Items
      /\ \A i : Reachable(i)' = Reachable(i)
  BY <1>1, SameGraph
<1>4. NothingReversed' = NothingReversed /\ NotPartitioned' = NotPartitioned
  BY <1>1, <1>3 DEF NothingReversed, NotPartitioned
<1>5. (Building => Building') /\ (Collecting => Collecting')
  BY <1>1, <1>3, <1>4 DEF Building, Collecting, NoErrors
<1>6. Sorting => Sorting'
  <2> SUFFICES ASSUME Sorting PROVE Sorting'
    OBVIOUS
  <2>1. UnknownsGenuine' /\ CyclesAreGenuine' /\ ErrorsGrow
    BY <1>1, ErrorsStay DEF Sorting
  <2>2. Sorts'
    BY <1>1, <2>1, SortsStay DEF Sorting
  <2>3. visiting' = visiting
    BY <1>1 DEF visiting
  <2>4. Reachable(path[1].item)' = Reachable(path[1].item)
    <3>1. PICK first : first = path[1].item
      OBVIOUS
    <3>2. Reachable(path[1].item)' = Reachable(first)'
      BY <1>1, <3>1 DEF Reachable
    <3> QED BY <1>3, <3>1, <3>2
  <2>5. Stack => Stack'
    BY <1>1, <1>3, <2>3, <2>4 DEF Stack, Distinct
  <2>6. \A v, d : Seen(v, d) => Seen(v, d)'
    BY <1>1, <2>1, SeenStays, <2>3
  <2>7. Accounted => Accounted'
    <3> SUFFICES ASSUME Accounted PROVE Accounted'
      OBVIOUS
    <3>1. \A v \in visited' : \A d \in Elems(dependencies'[v]) : Seen(v, d)'
      BY <1>1, <2>6 DEF Accounted
    <3>2. \A n \in DOMAIN path' : \A k \in 1..Past(n)' :
            Seen(path[n].item, dependencies[path[n].item][k])'
      <4> SUFFICES ASSUME NEW n \in DOMAIN path', NEW k \in 1..Past(n)'
                   PROVE  Seen(path[n].item, dependencies[path[n].item][k])'
        OBVIOUS
      <4>1. Past(n)' = Past(n)
        BY <1>1 DEF Past
      <4>2. PICK v, d : v = path'[n].item /\ d = dependencies'[v][k]
        OBVIOUS
      <4>3. Seen(v, d)
        BY <1>1, <4>1, <4>2 DEF Accounted
      <4> QED BY <2>6, <4>2, <4>3 DEF Seen
    <3>3. cycles' = <<>> => KnownFirst(result)'
      BY <1>1, <1>3 DEF Accounted, KnownFirst
    <3> QED BY <3>1, <3>2, <3>3 DEF Accounted
  <2> QED BY <1>1, <1>3, <1>4, <2>1, <2>2, <2>5, <2>7 DEF Sorting
<1>7. Reversing => Reversing'
  <2>1. \A i, j : ReversedSoFar(i, j)' <=> ReversedSoFar(i, j)
    BY <1>1, <1>3 DEF ReversedSoFar
  <2>2. Sorted => Sorted'
    BY <1>1, SortedStays
  <2> QED BY <1>1, <1>3, <1>4, <2>1, <2>2 DEF Reversing
<1>8. AfterCheck => AfterCheck'
  <2>1. Sorted => Sorted'
    BY <1>1, SortedStays
  <2>2. NoErrors' <=> NoErrors
    BY <1>1 DEF NoErrors
  <2> QED BY <1>1, <1>3, <1>4, <2>1, <2>2 DEF AfterCheck
<1>9. Partitioning => Partitioning'
  <2> SUFFICES ASSUME Partitioning PROVE Partitioning'
    OBVIOUS
  <2>1. \A i, j : (Linked(i, j)' <=> Linked(i, j)) /\ (Together(i, j)' <=> Together(i, j))
    BY <1>1, SameLinks
  <2>2. \A s : Group(s)' = Group(s)
    BY <1>1 DEF Group
  <2>3. \A i \in DOMAIN set_numbers' : \A j \in Items' :
          Linked(i, j)' => j \in Group(set_numbers[i])'
    <3> SUFFICES ASSUME NEW i \in DOMAIN set_numbers, NEW j \in Items, Linked(i, j)
                 PROVE  j \in Group(set_numbers[i])'
      BY <1>1, <1>3, <2>1
    <3>1. PICK s : s = set_numbers[i] /\ s = set_numbers'[i]
      BY <1>1
    <3>2. j \in Group(s)'
      BY <2>2, <3>1 DEF Partitioning
    <3> QED BY <3>1, <3>2 DEF Group
  <2> QED BY <1>1, <1>3, <2>1, <2>2, <2>3 DEF Partitioning
<1>10. Partitioned => Partitioned'
  <2>1. ASSUME NEW s
        PROVE  SortedByOrder({i \in DOMAIN set_numbers : set_numbers[i] = s - 1})' =
                 SortedByOrder({i \in DOMAIN set_numbers : set_numbers[i] = s - 1})
    BY <1>1 DEF SortedByOrder, compareItems, item_order
  <2> QED BY <1>1, <1>3, <2>1 DEF Partitioned
<1> QED BY <1>1, <1>2, <1>5, <1>6, <1>7, <1>8, <1>9, <1>10 DEF IInv, Phase, Checked

\* The inductive invariant of building, checking and splitting a graph.
THEOREM Invariance == Spec => []IInv
<1>1. IInv /\ [Next]_vars => IInv'
  <2> SUFFICES ASSUME IInv, [Next]_vars PROVE IInv'
    OBVIOUS
  <2>1. CASE \E item \in Names : addItem(item)
    BY <2>1, addItemKeeps
  <2>2. CASE \E item, dep \in Names : addDependency(item, dep)
    BY <2>2, addDependencyKeeps
  <2>3. CASE checkBegin
    BY <2>3, checkBeginKeeps
  <2>4. CASE \E item \in Names : collect(item)
    BY <2>4, collectKeeps
  <2>5. CASE collected
    BY <2>5, collectedKeeps
  <2>6. CASE \E item \in Names \cup {Root} : traverse(item)
    BY <2>6, traverseKeeps
  <2>7. CASE visitNeighbor
    BY <2>7, unknownNeighborKeeps, visitedNeighborKeeps, cycleNeighborKeeps,
       enterNeighborKeeps DEF visitNeighbor
  <2>8. CASE leaveItem
    BY <2>8, leaveItemKeeps
  <2>9. CASE sorted
    BY <2>9, sortedKeeps
  <2>10. CASE \E item \in Names : reverseItem(item)
    BY <2>10, reverseItemKeeps
  <2>11. CASE reverseDependency
    BY <2>11, reverseDependencyKeeps
  <2>12. CASE reverseItemDone
    BY <2>12, reverseItemDoneKeeps
  <2>13. CASE checkEnd
    BY <2>13, checkEndKeeps
  <2>14. CASE getIndependentSets
    BY <2>14, getIndependentSetsKeeps
  <2>15. CASE startSet
    BY <2>15, startSetKeeps
  <2>16. CASE expandNode
    BY <2>16, expandNodeKeeps
  <2>17. CASE gatherSets
    BY <2>17, gatherSetsKeeps
  <2>18. CASE finished \/ UNCHANGED vars
    BY <2>18, Stutters DEF finished
  <2> QED BY <2>1, <2>2, <2>3, <2>4, <2>5, <2>6, <2>7, <2>8, <2>9, <2>10, <2>11,
             <2>12, <2>13, <2>14, <2>15, <2>16, <2>17, <2>18 DEF Next, Run
<1> QED BY Initially, <1>1, PTL DEF Spec

\* Every table and every local of the code has its type, in every state.
THEOREM TypeCorrectness == Spec => []TypeOK
<1>1. IInv => TypeOK
  BY TypeParts DEF IInv
<1> QED BY <1>1, Invariance, PTL

-----------------------------------------------------------------------------
(* Cycles: the ones there are and the ones that are reported *)

\* A walk whose steps do not leave a set stays in it.
LEMMA WalkStays ==
  ASSUME NEW c, NEW L \in Nat, NEW S,
         \A j \in 1..L : j < L /\ c[j] \in S => c[j + 1] \in S,
         NEW k \in 1..L, c[k] \in S
  PROVE  \A m \in k..L : c[m] \in S
<1> SUFFICES ASSUME NEW out, out = {m \in k..L : c[m] \notin S}, out # {}
             PROVE  FALSE
  OBVIOUS
<1>1. out \subseteq Nat
  OBVIOUS
<1>2. PICK m \in out : \A n \in out : m <= n
  BY <1>1, LeastNatural
<1>3. m \in k..L /\ m # k
  BY <1>2
<1>4. m - 1 \in k..L /\ m - 1 \in 1..L /\ m - 1 < L /\ m - 1 + 1 = m /\ ~(m <= m - 1)
  BY <1>3
<1>5. c[m - 1] \in S
  BY <1>2, <1>4
<1> QED BY <1>2, <1>4, <1>5

\* The members of a reported cycle reach each other.
LEMMA CycleIsConnected ==
  ASSUME NEW c, Genuine(c), NEW i \in Elems(c), NEW j \in Elems(c)
  PROVE  j \in Reachable(i)
<1>1. PICK L \in Nat \ {0} : L = Len(c)
  BY DEF Genuine
<1>2. /\ DOMAIN c = 1..L /\ \A k \in 1..L : c[k] \in Items
      /\ \A k \in 1..L : c[After(k, L)] \in Elems(dependencies[c[k]])
      /\ \A k \in 1..L : After(k, L) \in 1..L
  BY <1>1 DEF Genuine, After
<1>3. PICK k \in 1..L, l \in 1..L : c[k] = i /\ c[l] = j
  BY <1>2 DEF Elems
<1> SUFFICES ASSUME NEW S \in SUBSET Items, i \in S, Closed(S) PROVE j \in S
  BY <1>2, <1>3 DEF Reachable
<1>4. \A n \in 1..L : c[n] \in S => c[After(n, L)] \in S
  BY <1>2 DEF Closed
<1>5. \A n \in 1..L : n < L /\ c[n] \in S => c[n + 1] \in S
  <2>1. \A n \in 1..L : n < L => After(n, L) = n + 1
    BY DEF After
  <2> QED BY <1>4, <2>1
<1>6. \A n \in k..L : c[n] \in S
  BY <1>3, <1>5, WalkStays
<1>7. c[L] \in S /\ After(L, L) = 1 /\ L \in 1..L /\ 1 \in 1..L
  BY <1>6 DEF After
<1>8. c[1] \in S
  BY <1>4, <1>7
<1>9. \A n \in 1..L : c[n] \in S
  BY <1>5, <1>7, <1>8, WalkStays
<1> QED BY <1>3, <1>9

LEMMA CycleIsCycle ==
  ASSUME NEW c, Genuine(c)
  PROVE  c[1] \in Items /\ OnCycle(c[1])
<1>1. PICK L \in Nat \ {0} : L = Len(c)
  BY DEF Genuine
<1>2. /\ DOMAIN c = 1..L /\ \A k \in 1..L : c[k] \in Items
      /\ \A k \in 1..L : c[After(k, L)] \in Elems(dependencies[c[k]])
      /\ After(1, L) \in 1..L /\ 1 \in 1..L
  BY <1>1 DEF Genuine, After
<1>3. PICK d : d = c[After(1, L)]
  OBVIOUS
<1>4. d \in Elems(dependencies[c[1]]) \cap Items
  BY <1>2, <1>3
<1>5. d \in Elems(c) /\ c[1] \in Elems(c)
  BY <1>2, <1>3 DEF Elems
<1>6. c[1] \in Reachable(d)
  BY <1>5, CycleIsConnected
<1> QED BY <1>2, <1>4, <1>6 DEF OnCycle

\* Where the sort of an item is closed it has passed every edge that leads
\* back to the item.
LEMMA CycleIsReported ==
  ASSUME IInv, Checked, NEW i \in Items, OnCycle(i)
  PROVE  OnReportedCycle(i)
<1>1. Sorted /\ Known = Items
  BY DEF IInv, Phase, AfterCheck, Sorted, Items, Known
<1>2. PICK s : s = sorted_dependencies[i]
  OBVIOUS
<1>3. SortOf(i, s) /\ s \in Seq(All)
  BY <1>1, <1>2 DEF Sorted, Sorts, IInv, Types, OutputTypes
<1>4. i \in Elems(s)
  <2>1. Len(s) \in DOMAIN s /\ s[Len(s)] = i
    BY <1>3 DEF SortOf
  <2> QED BY <2>1 DEF Elems
<1>5. PICK d \in Elems(dependencies[i]) \cap Items : i \in Reachable(d)
  BY DEF OnCycle
<1> SUFFICES ASSUME ~OnReportedCycle(i) PROVE FALSE
  OBVIOUS
<1>6. \A v \in Elems(s) : i \notin Elems(dependencies[v])
  BY <1>3 DEF SortOf
<1>7. PICK S : S = Elems(s) \ {i}
  OBVIOUS
<1>8. S \in SUBSET Items /\ d \in S
  BY <1>1, <1>3, <1>4, <1>5, <1>6, <1>7 DEF SortOf
<1>9. Closed(S)
  BY <1>1, <1>3, <1>6, <1>7 DEF Closed, SortOf
<1>10. i \in S
  BY <1>5, <1>8, <1>9, ReachesNoFurther
<1> QED BY <1>7, <1>10

-----------------------------------------------------------------------------
(* What check() promises *)

LEMMA ExactIfIInv == IInv => CheckIsExact
<1> SUFFICES ASSUME IInv, Checked
             PROVE  graph_state = "gs_READY" <=>
                      \A i \in Items : Elems(dependencies[i]) \subseteq Items /\ ~OnCycle(i)
  BY DEF CheckIsExact
<1>1. /\ AfterCheck /\ Sorted /\ UnknownsGenuine /\ CyclesAreGenuine
  BY DEF IInv, Phase, AfterCheck, Sorted
<1>2. ASSUME graph_state = "gs_READY", NEW i \in Items
      PROVE  Elems(dependencies[i]) \subseteq Items /\ ~OnCycle(i)
  <2>1. NoErrors /\ Elems(dependencies[i]) \subseteq Items
    BY <1>2, Accepted
  <2>2. ~OnReportedCycle(i)
    BY <2>1 DEF NoErrors, OnReportedCycle
  <2> QED BY <2>1, <2>2, CycleIsReported
<1>3. ASSUME \A i \in Items : Elems(dependencies[i]) \subseteq Items /\ ~OnCycle(i)
      PROVE  NoErrors
  <2>1. unknowns = EmptyMap
    BY <1>1, <1>3 DEF UnknownsGenuine
  <2>2. DOMAIN cycles = {}
    <3> SUFFICES ASSUME NEW n \in DOMAIN cycles PROVE FALSE
      OBVIOUS
    <3>1. PICK c : c = cycles[n]
      OBVIOUS
    <3>2. Genuine(c)
      BY <1>1, <3>1 DEF CyclesAreGenuine
    <3> QED BY <1>3, <3>2, CycleIsCycle
  <2>3. cycles = <<>>
    <3>1. cycles \in Seq(Seq(All))
      BY DEF IInv, Types, ErrorTypes
    <3> QED BY <2>2, <3>1
  <2> QED BY <2>1, <2>3 DEF NoErrors
<1>4. graph_state = "gs_READY" <=> NoErrors
  BY <1>1 DEF AfterCheck
<1> QED BY <1>2, <1>3, <1>4

LEMMA ContractIfIInv == IInv => ReadyMeetsContract
<1> SUFFICES ASSUME IInv, Checked, graph_state = "gs_READY"
             PROVE  /\ CheckedGraph([deps |-> dependencies, rdeps |-> reverse_dependencies,
                                     in_order |-> in_order], Items)
                    /\ \A i \in Items :
                         LET s == sorted_dependencies[i]
                         IN /\ Enumerates(s, Reachable(i))
                            /\ DependenciesFirst(s, dependencies)
                            /\ s[Len(s)] = i
  BY DEF ReadyMeetsContract
<1>1. /\ NoErrors /\ Sorted /\ Known = Items
      /\ Elems(in_order) = Items
      /\ DOMAIN reverse_dependencies = Items
      /\ \A i \in Items :
           /\ dependencies[i] \in Seq(Items) /\ reverse_dependencies[i] \in Seq(Items)
           /\ Elems(dependencies[i]) \subseteq Items
           /\ \A j \in Items :
                j \in Elems(reverse_dependencies[i]) <=> i \in Elems(dependencies[j])
  BY Accepted
<1>2. /\ dependencies \in [Items -> Seq(Items)]
      /\ reverse_dependencies \in [Items -> Seq(Items)]
  BY <1>1 DEF IInv, Types, GraphTypes
<1>3. ASSUME NEW s \in Seq(All), NEW T \in SUBSET Items, Elems(s) = T, Distinct(s),
             KnownFirst(s)
      PROVE  Enumerates(s, T) /\ DependenciesFirst(s, dependencies)
  <2>1. s \in Seq(T)
    BY <1>3 DEF Elems
  <2>2. Enumerates(s, T)
    BY <1>3, <2>1 DEF Enumerates, Elems, Distinct
  <2>3. DependenciesFirst(s, dependencies)
    <3> SUFFICES ASSUME NEW n \in DOMAIN s, NEW d \in Elems(dependencies[s[n]])
                 PROVE  \E m \in DOMAIN s : m < n /\ s[m] = d
      BY DEF DependenciesFirst
    <3>1. s[n] \in Items
      BY <1>3 DEF Elems
    <3>2. d \in Known
      BY <1>1, <3>1
    <3> QED BY <1>3, <3>2 DEF KnownFirst
  <2> QED BY <2>2, <2>3
<1>4. Enumerates(in_order, Items) /\ DependenciesFirst(in_order, dependencies)
  <2>1. PICK s : s = in_order
    OBVIOUS
  <2>2. s \in Seq(All)
    <3>1. s \in Seq(Names) /\ Names \subseteq All
      BY <2>1 DEF IInv, Types, OutputTypes, All
    <3> QED BY <3>1
  <2>3. Elems(s) = Items /\ Distinct(s) /\ KnownFirst(s)
    BY <1>1, <2>1 DEF Sorted, NoErrors
  <2> QED BY <1>3, <2>1, <2>2, <2>3
<1>5. Reverses(reverse_dependencies, dependencies, Items)
  BY <1>1 DEF Reverses
<1>6. ASSUME NEW i \in Items, NEW s, s = sorted_dependencies[i]
      PROVE  /\ Enumerates(s, Reachable(i))
             /\ DependenciesFirst(s, dependencies)
             /\ s[Len(s)] = i
  <2>1. SortOf(i, s) /\ s \in Seq(All)
    BY <1>1, <1>6 DEF Sorted, Sorts, IInv, Types, OutputTypes
  <2>2. KnownFirst(s) /\ Distinct(s) /\ s[Len(s)] = i
    BY <1>1, <2>1 DEF SortOf, NoErrors
  <2>3. Elems(s) = Reachable(i)
    <3>1. Elems(s) \subseteq Reachable(i) /\ Elems(s) \in SUBSET Items
      BY <1>1, <2>1 DEF SortOf
    <3>2. i \in Elems(s)
      <4>1. Len(s) \in DOMAIN s
        BY <2>1 DEF SortOf
      <4> QED BY <2>2, <4>1 DEF Elems
    <3>3. Closed(Elems(s))
      BY <1>1, <2>1 DEF Closed, SortOf
    <3> QED BY <3>1, <3>2, <3>3, ReachesNoFurther
  <2>4. Reachable(i) \in SUBSET Items
    BY DEF Reachable
  <2> QED BY <1>3, <2>1, <2>2, <2>3, <2>4
<1>7. CheckedGraph([deps |-> dependencies, rdeps |-> reverse_dependencies,
                    in_order |-> in_order], Items)
  BY <1>2, <1>4, <1>5 DEF CheckedGraph
<1> QED BY <1>6, <1>7

LEMMA GenuineIfIInv == IInv => CyclesGenuine
<1> SUFFICES ASSUME IInv, Checked
             PROVE  /\ \A m, n \in DOMAIN cycles : cycles[m] = cycles[n] => m = n
                    /\ \A c \in Elems(cycles) :
                         /\ \A k \in DOMAIN c :
                              c[(k % Len(c)) + 1] \in Elems(dependencies[c[k]])
                         /\ \A k, l \in DOMAIN c : c[k] = c[l] => k = l
                         /\ \A k \in DOMAIN c : c[1] <= c[k]
  BY DEF CyclesGenuine
<1>1. CyclesAreGenuine
  BY DEF IInv, Phase, AfterCheck, Sorted
<1>2. \A m, n \in DOMAIN cycles : cycles[m] = cycles[n] => m = n
  BY <1>1 DEF CyclesAreGenuine, Distinct
<1>3. ASSUME NEW c \in Elems(cycles)
      PROVE  /\ \A k \in DOMAIN c :
                  c[(k % Len(c)) + 1] \in Elems(dependencies[c[k]])
             /\ \A k, l \in DOMAIN c : c[k] = c[l] => k = l
             /\ \A k \in DOMAIN c : c[1] <= c[k]
  <2>1. Genuine(c)
    BY <1>1 DEF CyclesAreGenuine, Elems
  <2>2. PICK L \in Nat \ {0} : L = Len(c)
    BY <2>1 DEF Genuine
  <2>3. DOMAIN c = 1..L
    BY <2>1, <2>2 DEF Genuine
  <2>4. ASSUME NEW k \in 1..L PROVE (k % L) + 1 = After(k, L)
    <3>1. CASE k = L
      BY <3>1 DEF After
    <3>2. CASE k # L
      <4>1. k \in 0..(L - 1)
        BY <3>2
      <4>2. k % L = k
        BY <4>1
      <4> QED BY <3>2, <4>2 DEF After
    <3> QED BY <3>1, <3>2
  <2>5. \A k \in 1..L : c[(k % L) + 1] \in Elems(dependencies[c[k]])
    <3> TAKE k \in 1..L
    <3>1. (k % L) + 1 = After(k, L)
      BY <2>4
    <3>2. c[After(k, L)] \in Elems(dependencies[c[k]])
      BY <2>1, <2>2 DEF Genuine
    <3> QED BY <3>1, <3>2
  <2>6. \A k \in DOMAIN c : c[(k % Len(c)) + 1] \in Elems(dependencies[c[k]])
    BY <2>2, <2>3, <2>5
  <2> QED BY <2>1, <2>2, <2>3, <2>6 DEF Genuine, Distinct
<1> QED BY <1>2, <1>3

LEMMA CompleteIfIInv == IInv => ReportsComplete
<1> SUFFICES ASSUME IInv, Checked
             PROVE  /\ DOMAIN unknowns \subseteq Items
                    /\ \A i \in Items :
                         Elems(ListAt(unknowns, i)) = Elems(dependencies[i]) \ Items
                    /\ \A i \in DOMAIN unknowns : \A m, n \in DOMAIN unknowns[i] :
                         unknowns[i][m] = unknowns[i][n] => m = n
                    /\ \A i \in Items : OnCycle(i) =>
                         \E c \in Elems(cycles) :
                           c[1] \in Reachable(i) /\ i \in Reachable(c[1])
  BY DEF ReportsComplete
<1>1. Sorted /\ UnknownsGenuine /\ CyclesAreGenuine /\ Known = Items
  BY DEF IInv, Phase, AfterCheck, Sorted, Items, Known
<1>2. DOMAIN unknowns \subseteq Items
  BY <1>1 DEF UnknownsGenuine
<1>3. ASSUME NEW i \in Items
      PROVE  Elems(ListAt(unknowns, i)) = Elems(dependencies[i]) \ Items
  <2>1. Elems(ListAt(unknowns, i)) \subseteq Elems(dependencies[i]) \ Items
    <3>1. CASE i \in DOMAIN unknowns
      BY <1>1, <3>1 DEF UnknownsGenuine, ListAt
    <3>2. CASE i \notin DOMAIN unknowns
      BY <3>2, ElemsOfEmpty DEF ListAt
    <3> QED BY <3>1, <3>2
  <2>2. PICK s : s = sorted_dependencies[i]
    OBVIOUS
  <2>3. SortOf(i, s) /\ s \in Seq(All)
    BY <1>1, <2>2 DEF Sorted, Sorts, IInv, Types, OutputTypes
  <2>4. i \in Elems(s)
    <3>1. Len(s) \in DOMAIN s /\ s[Len(s)] = i
      BY <2>3 DEF SortOf
    <3> QED BY <3>1 DEF Elems
  <2>5. Elems(dependencies[i]) \ Items \subseteq Elems(ListAt(unknowns, i))
    BY <1>1, <2>3, <2>4 DEF SortOf
  <2> QED BY <2>1, <2>5
<1>4. \A i \in DOMAIN unknowns : \A m, n \in DOMAIN unknowns[i] :
        unknowns[i][m] = unknowns[i][n] => m = n
  BY <1>1 DEF UnknownsGenuine, Distinct
<1>5. ASSUME NEW i \in Items, OnCycle(i)
      PROVE  \E c \in Elems(cycles) : c[1] \in Reachable(i) /\ i \in Reachable(c[1])
  <2>1. PICK n \in DOMAIN cycles : i \in Elems(cycles[n])
    BY <1>5, CycleIsReported DEF OnReportedCycle
  <2>2. PICK c : c = cycles[n]
    OBVIOUS
  <2>3. Genuine(c) /\ c \in Elems(cycles) /\ i \in Elems(c)
    BY <1>1, <2>1, <2>2 DEF CyclesAreGenuine, Elems
  <2>4. c[1] \in Elems(c)
    BY <2>3 DEF Genuine, Elems
  <2> QED BY <2>3, <2>4, CycleIsConnected
<1> QED BY <1>2, <1>3, <1>4, <1>5

LEMMA SetsExactIfIInv == IInv => IndependentSetsExact
<1> SUFFICES ASSUME IInv, pc = "done",
                    NEW sets, sets = {Elems(s) : s \in Elems(independent_sets)}
             PROVE  /\ UNION sets = Items
                    /\ \A m, n \in DOMAIN independent_sets :
                         Elems(independent_sets[m]) \cap Elems(independent_sets[n]) # {} => m = n
                    /\ \A S \in sets : \A i \in S, j \in Items : Linked(i, j) => j \in S
                    /\ \A S \in sets : \A T \in (SUBSET S) \ {{}, S} :
                         \E i \in T, j \in S \ T : Linked(i, j)
                    /\ \A s \in Elems(independent_sets) : DependenciesFirst(s, dependencies)
  BY DEF IndependentSetsExact, Linked
<1>1. Checked /\ Partitioning /\ Partitioned /\ graph_state = "gs_READY"
  BY DEF IInv, Phase, Checked, Partitioning
<1>2. /\ NoErrors /\ Sorted /\ Known = Items /\ Elems(in_order) = Items
      /\ \A i \in Items : Elems(dependencies[i]) \subseteq Items
  BY <1>1, Accepted
<1>3. in_order \in Seq(Names) /\ Distinct(in_order) /\ next_set \in Nat
      /\ KnownFirst(in_order)
  BY <1>2 DEF IInv, Types, OutputTypes, PartitionTypes, Sorted, NoErrors
<1>4. ASSUME NEW s \in 1..next_set
      PROVE  /\ Elems(independent_sets[s]) = {i \in Items : set_numbers[i] = s - 1}
             /\ DependenciesFirst(independent_sets[s], dependencies)
  <2>1. PICK S : S = {i \in Items : set_numbers[i] = s - 1}
    OBVIOUS
  <2>2. PICK list : list = SortedByOrder(S)
    OBVIOUS
  <2>3. independent_sets[s] = list
    BY <1>1, <2>1, <2>2 DEF Partitioned
  <2>4. S \in SUBSET Elems(in_order)
    BY <1>2, <2>1
  <2>5. PICK size \in Nat :
          /\ list \in [1..size -> S] /\ Elems(list) = S
          /\ \A m, n \in 1..size : m < n => item_order(list[m]) < item_order(list[n])
    BY <1>3, <2>2, <2>4, SortedListing
  <2>6. DOMAIN list = 1..size
    BY <2>5
  <2>7. DependenciesFirst(list, dependencies)
    <3> SUFFICES ASSUME NEW n \in DOMAIN list, NEW d \in Elems(dependencies[list[n]])
                 PROVE  \E m \in DOMAIN list : m < n /\ list[m] = d
      BY DEF DependenciesFirst
    <3>1. PICK v : v = list[n]
      OBVIOUS
    <3>2. v \in S /\ v \in Items /\ d \in Items /\ d \in Elems(dependencies[v])
      BY <1>2, <2>1, <2>5, <2>6, <3>1
    <3>3. d \in S
      <4>1. Linked(v, d)
        BY <3>2 DEF Linked
      <4>2. v \in DOMAIN set_numbers /\ nodes = <<>> /\ set_numbers[v] = s - 1
        BY <1>1, <2>1, <3>2 DEF Partitioned
      <4>3. d \in Group(set_numbers[v])
        BY <1>1, <3>2, <4>1, <4>2 DEF Partitioning
      <4>4. set_numbers[d] = s - 1
        BY <4>2, <4>3, ElemsOfEmpty DEF Group
      <4> QED BY <2>1, <3>2, <4>4
    <3>4. PICK m \in DOMAIN list : list[m] = d
      BY <2>5, <3>3 DEF Elems
    <3>5. item_order(d) < item_order(v)
      <4>1. PICK p \in DOMAIN in_order : in_order[p] = v
        BY <1>2, <3>2 DEF Elems
      <4>2. d \in Known
        BY <1>2, <3>2
      <4>3. PICK q \in DOMAIN in_order : q < p /\ in_order[q] = d
        BY <1>3, <3>2, <4>1, <4>2 DEF KnownFirst
      <4>4. item_order(v) = p /\ item_order(d) = q
        BY <1>3, <4>1, <4>3, PlaceInOrder
      <4> QED BY <4>3, <4>4
    <3>6. ~(n < m) /\ m # n
      <4>1. item_order(d) \in Nat /\ item_order(v) \in Nat
        BY <1>2, <1>3, <3>2, PlaceInOrder
      <4>2. n < m => item_order(v) < item_order(d)
        BY <2>5, <2>6, <3>1, <3>4
      <4>3. m = n => item_order(v) = item_order(d)
        BY <3>1, <3>4
      <4> QED BY <3>5, <4>1, <4>2, <4>3
    <3>7. m < n
      BY <2>6, <3>6
    <3> QED BY <3>4, <3>7
  <2> QED BY <2>1, <2>3, <2>5, <2>7
<1>5. DOMAIN independent_sets = 1..next_set
  BY <1>1 DEF Partitioned
<1>6. \A i \in Items : set_numbers[i] + 1 \in 1..next_set /\ set_numbers[i] \in Nat
  BY <1>1, <1>3 DEF Partitioned, Partitioning
<1>7. \A S \in sets : \E s \in 1..next_set : S = {i \in Items : set_numbers[i] = s - 1}
  BY <1>4, <1>5 DEF Elems
<1>8. \A s \in 1..next_set : {i \in Items : set_numbers[i] = s - 1} \in sets
  BY <1>4, <1>5 DEF Elems
<1>9. UNION sets = Items
  <2>1. UNION sets \subseteq Items
    BY <1>7
  <2>2. ASSUME NEW i \in Items PROVE i \in UNION sets
    <3>1. PICK s \in 1..next_set : s = set_numbers[i] + 1
      BY <1>6
    <3>2. i \in {k \in Items : set_numbers[k] = s - 1}
      BY <1>6, <3>1
    <3> QED BY <1>8, <3>2
  <2> QED BY <2>1, <2>2
<1>10. ASSUME NEW m \in DOMAIN independent_sets, NEW n \in DOMAIN independent_sets,
              Elems(independent_sets[m]) \cap Elems(independent_sets[n]) # {}
       PROVE  m = n
  <2>1. PICK i : i \in Elems(independent_sets[m]) /\ i \in Elems(independent_sets[n])
    BY <1>10
  <2>2. set_numbers[i] = m - 1 /\ set_numbers[i] = n - 1
    BY <1>4, <1>5, <2>1
  <2> QED BY <1>3, <1>5, <2>2
<1>11. ASSUME NEW S \in sets, NEW i \in S, NEW j \in Items, Linked(i, j) PROVE j \in S
  <2>1. PICK s \in 1..next_set : S = {k \in Items : set_numbers[k] = s - 1}
    BY <1>7
  <2>2. i \in DOMAIN set_numbers /\ nodes = <<>> /\ set_numbers[i] = s - 1
    BY <1>1, <2>1 DEF Partitioned
  <2>3. j \in Group(set_numbers[i])
    BY <1>1, <1>11, <2>2 DEF Partitioning
  <2> QED BY <2>1, <2>2, <2>3, ElemsOfEmpty DEF Group
<1>12. ASSUME NEW S \in sets, NEW T \in (SUBSET S) \ {{}, S}
       PROVE  \E i \in T, j \in S \ T : Linked(i, j)
  <2> SUFFICES ASSUME \A i \in T, j \in S \ T : ~Linked(i, j) PROVE FALSE
    OBVIOUS
  <2>1. PICK s \in 1..next_set : S = {k \in Items : set_numbers[k] = s - 1}
    BY <1>7
  <2>2. PICK i \in T, j \in S : j \notin T
    BY <1>12
  <2>3. T \in SUBSET Items /\ Unsplit(T)
    BY <1>11, <2>1 DEF Unsplit
  <2>4. PICK number : number = s - 1
    OBVIOUS
  <2>5. number \in 0..(next_set - 1)
    BY <1>3, <2>4
  <2>6. i \in Group(number) /\ j \in Group(number)
    BY <1>1, <2>1, <2>2, <2>4 DEF Group, Partitioned
  <2>7. Together(i, j)
    BY <1>1, <2>5, <2>6 DEF Partitioning
  <2> QED BY <2>2, <2>3, <2>7 DEF Together
<1>13. \A s \in Elems(independent_sets) : DependenciesFirst(s, dependencies)
  BY <1>4, <1>5 DEF Elems
<1> QED BY <1>9, <1>10, <1>11, <1>12, <1>13

\* check() returns true exactly if every dependency was added and no item
\* depends on itself.
THEOREM Exact == Spec => []CheckIsExact
BY Invariance, ExactIfIInv, PTL

\* What the clients of an accepted graph rely on, DependencyEvaluator first
\* of all: the sorts and the reverse table are what they are said to be.
THEOREM MeetsContract == Spec => []ReadyMeetsContract
BY Invariance, ContractIfIInv, PTL

\* Every reported cycle is one, starts at its first name, and is reported
\* once.
THEOREM NoFalseCycles == Spec => []CyclesGenuine
BY Invariance, GenuineIfIInv, PTL

\* Every unknown item is reported where it is needed, and every item that
\* depends on itself is on a cycle with the start of a reported one.
THEOREM NothingUnreported == Spec => []ReportsComplete
BY Invariance, CompleteIfIInv, PTL

\* getIndependentSets() returns the connected parts of the graph.
THEOREM Parts == Spec => []IndependentSetsExact
BY Invariance, SetsExactIfIInv, PTL
=============================================================================
