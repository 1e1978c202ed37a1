------------------------------ MODULE Forests ------------------------------
(***************************************************************************)
(* Traversal and validation of the build forests: Abuild-traverse.cc from  *)
(* traverse() to reportIntegrityErrors(), with BuildForest.cc,             *)
(* BuildTree.cc and the part of BuildItem.cc that they use.                *)
(*                                                                         *)
(* A forest holds trees and items, by name, and may name other forests as  *)
(* its backing areas.  The forests reachable from the local one are read,  *)
(* depth first, and then validated from the farthest back: a forest copies *)
(* from its backing areas what it does not have itself and has not marked  *)
(* as deleted, and resolves all names in the result.                       *)
(*                                                                         *)
(* Trees and items are numbers, and each depends on lower ones only:       *)
(* cycles are DependencyGraph's subject.  The code of compatibility level  *)
(* 1.0 is left out.  What the platform types of an item stand for is       *)
(* BuildGraph's subject.                                                   *)
(***************************************************************************)
EXTENDS Directories

CONSTANTS Trees, Items

ASSUME NamesInOrder == Trees \subseteq Nat /\ Items \subseteq Nat

VARIABLES
  forests,        \* those that have been traversed
  validated

traversal == <<reading, forests, stack, validated>>

-----------------------------------------------------------------------------
(* Traversal *)

BuildTree(root, conf) ==
  [home |-> root, dir |-> conf.dir, deps |-> conf.deps, optional |-> conf.optional,
   traits |-> conf.traits, plugins |-> conf.plugins \cup conf.global_plugins,
   expanded |-> {}, expanded_and_local |-> {}]

BuildItem(root, conf) ==
  [home |-> root, tree |-> conf.tree, deps |-> conf.deps,
   optional |-> conf.optional, build_also |-> conf.build_also,
   traits |-> conf.traits, flags |-> conf.flags, visible_to |-> conf.visible_to,
   supported_flags |-> conf.supported_flags, dir |-> conf.dir,
   platform_types |-> conf.platform_types,
   plugins |-> {}, expanded |-> {}, shadowed |-> {}]

\* What is read from the files of a forest
traverseItems(root) ==
  LET trees == declared.trees[root]
      items == declared.items[root]
  IN [backing |-> <<>>,
      trees |-> [t \in DOMAIN trees |-> BuildTree(root, trees[t])],
      items |-> [n \in DOMAIN items |-> BuildItem(root, items[n])],
      global_plugins |-> UNION {trees[t].global_plugins : t \in DOMAIN trees}]

InitForests ==
  /\ InitDirectories
  /\ forests = <<>>
  /\ validated = {}

visiting == {stack[n].root : n \in DOMAIN stack}
frame == stack[Len(stack)]
callers == SubSeq(stack, 1, Len(stack) - 1)
area == Head(frame.todo)

keepArea == [frame EXCEPT !.todo = Tail(@), !.kept = Append(@, area)]
dropArea == [frame EXCEPT !.todo = Tail(@)]

atArea ==
  /\ outcome = "running"
  /\ read
  /\ stack # <<>>
  /\ frame.todo # <<>>

backsToSelf ==
  /\ atArea
  /\ area = frame.root
  /\ stack' = Append(callers, dropArea)
  /\ errors' = TRUE
  /\ UNCHANGED <<reading, forests, validated, outcome>>

duplicateArea ==
  /\ atArea
  /\ area \in Range(frame.kept)
  /\ stack' = Append(callers, dropArea)
  /\ UNCHANGED <<reading, forests, validated, errors, outcome>>

\* An area on the way to which we are: no forest can be its own backing area.
backingCycle ==
  /\ atArea
  /\ area \in visiting \ {frame.root}
  /\ outcome' = "fatal"
  /\ errors' = TRUE
  /\ UNCHANGED traversal

\* Mutant: an area that has been traversed already is not recorded.
enterArea_new ==
  /\ atArea
  /\ area \notin visiting \cup Range(frame.kept)
  /\ stack' = IF area \in DOMAIN forests
              THEN Append(callers, dropArea)
              ELSE callers \o <<keepArea, Frame(area)>>
  /\ UNCHANGED <<reading, forests, validated, errors, outcome>>

enterArea ==
  /\ atArea
  /\ area \notin visiting \cup Range(frame.kept)
  /\ stack' = IF area \in DOMAIN forests
              THEN Append(callers, keepArea)
              ELSE callers \o <<keepArea, Frame(area)>>
  /\ UNCHANGED <<reading, forests, validated, errors, outcome>>

leaveForest ==
  /\ outcome = "running"
  /\ read
  /\ stack # <<>>
  /\ frame.todo = <<>>
  /\ forests' = frame.root :> [traverseItems(frame.root) EXCEPT !.backing = frame.kept]
                  @@ forests
  /\ stack' = callers
  /\ UNCHANGED <<reading, validated, errors, outcome>>

traverseForests ==
  backsToSelf \/ duplicateArea \/ backingCycle \/ enterArea \/ leaveForest

-----------------------------------------------------------------------------
(* Validation of one forest: every step takes the forest from the one before *)

\* The names that a table's entries depend on, directly or not.  A name that
\* is not in the table has been reported and is ignored.
expandedDeps(table) ==
  LET expanded[n \in DOMAIN table] ==
        LET deps == table[n].deps \cap DOMAIN table
        IN deps \cup UNION {expanded[d] : d \in deps}
  IN expanded

\* computeBackingGraph and getSortedDependencies: the areas behind one
behind(root) ==
  LET areas[r \in DOMAIN forests] ==
        LET direct == Range(forests[r].backing)
        IN direct \cup UNION {areas[b] : b \in direct}
  IN areas[root]


covered(root) == UNION {behind(b) : b \in Range(forests[root].backing)}

backingAreas(root) ==
  SelectSeq(forests[root].backing, LAMBDA b : b \notin covered(root))

\* What an area has that is not deleted
offeredTrees(root, b) ==
  LET trees == forests[b].trees
  IN [t \in DOMAIN trees \ declared.deleted_trees[root] |-> trees[t]]

\* Mutant: the items of a deleted tree are still there.
offeredItems_ofAnyTree(root, b) ==
  LET items == forests[b].items
  IN [n \in DOMAIN items \ declared.deleted_items[root] |-> items[n]]

offeredItems(root, b) ==
  LET items == forests[b].items
  IN [n \in {n \in DOMAIN items : /\ items[n].tree \notin declared.deleted_trees[root]
                                  /\ n \notin declared.deleted_items[root]} |-> items[n]]

\* What is there already is kept, so that the first area with a name has it.
inherit(own, offers) ==
  LET merged[n \in 0..Len(offers)] ==
        IF n = 0 THEN own ELSE merged[n - 1] @@ offers[n]
  IN merged[Len(offers)]

offersOf(root, offered(_, _)) ==
  [n \in DOMAIN backingAreas(root) |-> offered(root, backingAreas(root)[n])]

\* Names that two areas offer: how the homes of the copies compare decides
\* whether this is an error or a failed assertion.
clash(own, offers, compare(_, _)) ==
  \E m, n \in DOMAIN offers : \E name \in DOMAIN offers[m] \cap DOMAIN offers[n] :
    /\ m < n
    /\ name \notin DOMAIN own
    /\ compare(offers[n][name].home, inherit(own, offers)[name].home)

inBackingArea(root, name) ==
  \E b \in Range(backingAreas(root)) :
    /\ name \in DOMAIN forests[b].items
    /\ forests[b].items[name].tree \notin declared.deleted_trees[root]

deletionsValid(root) ==
  /\ \A t \in declared.deleted_trees[root] :
       \E b \in Range(backingAreas(root)) : t \in DOMAIN forests[b].trees
  /\ \A n \in declared.deleted_items[root] :
       inBackingArea(root, n) /\ n \notin DOMAIN forests[root].items

resolveFromBackingAreas(root) ==
  [forests[root] EXCEPT
     !.backing = backingAreas(root),
     !.trees = inherit(@, offersOf(root, offeredTrees)),
     !.items = inherit(@, offersOf(root, offeredItems))]

ambiguous(root, compare(_, _)) ==
  \/ clash(forests[root].trees, offersOf(root, offeredTrees), compare)
  \/ clash(forests[root].items, offersOf(root, offeredItems), compare)

\* BuildForest::propagateGlobals, for the trees that are in the forest itself
propagateGlobals(root, forest) ==
  LET trees == forest.trees
  IN [forest EXCEPT !.trees =
        [t \in DOMAIN trees |->
           IF trees[t].home = root
           THEN [trees[t] EXCEPT !.plugins = @ \cup forest.global_plugins] ELSE trees[t]]]

\* Optional dependencies that the forest lacks are forgotten ...
absent(table, name) == (table[name].deps \cap table[name].optional) \ DOMAIN table

\* ... which must be done before the dependencies are expanded.
forgetsTooLate(table) ==
  \E n \in DOMAIN table : absent(table, n) # {} /\ table[n].expanded # {}

dependenciesKnown(table) ==
  \A n \in DOMAIN table : table[n].deps \subseteq DOMAIN table \cup absent(table, n)

withoutAbsent(table) ==
  [n \in DOMAIN table |-> [table[n] EXCEPT !.deps = @ \ absent(table, n)]]

\* A tree that was copied has its set from before, to which is added.
checkTreeDependencies(forest) ==
  LET trees == withoutAbsent(forest.trees)
      expanded == expandedDeps(trees)
  IN [forest EXCEPT !.trees =
        [t \in DOMAIN trees |->
           [trees[t] EXCEPT !.expanded = expanded[t],
                            !.expanded_and_local = @ \cup expanded[t] \cup {t}]]]

\* tree_access_table
allowedTrees(forest, tree) == forest.trees[tree].expanded \cup {tree}

resolveTraits(forest) ==
  LET trees == forest.trees
  IN [forest EXCEPT !.trees =
        [t \in DOMAIN trees |->
           [trees[t] EXCEPT !.traits = UNION {trees[u].traits : u \in allowedTrees(forest, t)}]]]

localTo(root, table) == {n \in DOMAIN table : table[n].home = root}

pluginVisible(forest, tree, plugin) ==
  /\ plugin \in DOMAIN forest.items
  /\ \/ plugin \in forest.global_plugins
     \/ forest.items[plugin].tree \in allowedTrees(forest, tree)

\* An item without platform types is of target type "all".
pluginsValid(root, forest) ==
  /\ \A t \in localTo(root, forest.trees) : \A p \in forest.trees[t].plugins :
       /\ pluginVisible(forest, t, p)
       /\ forest.items[p].deps = {}
       /\ forest.items[p].build_also = {}
       /\ forest.items[p].platform_types = {}
  /\ \A n \in localTo(root, forest.items) :
       LET tree == forest.items[n].tree
       IN \A p \in forest.trees[tree].plugins :
            pluginVisible(forest, tree, p) => p \notin forest.items[n].deps

setPlugins(root, forest) ==
  LET items == forest.items
  IN [forest EXCEPT !.items =
        [n \in DOMAIN items |->
           IF items[n].home = root
           THEN [items[n] EXCEPT !.plugins = forest.trees[items[n].tree].plugins]
           ELSE items[n]]]

\* A name with components is private to the scope around it, unless the item is
\* visible to a wider scope.  What is in a scope has access, and so has the item
\* that the scope is named after.
scopeOf(forest, name) ==
  LET declared_scope == IF name \in DOMAIN forest.items THEN forest.items[name].visible_to ELSE {}
  IN IF declared_scope = {} THEN Front(Components[name]) ELSE CHOOSE s \in declared_scope : TRUE

accessibleFrom(forest, accessor, accessee) ==
  \/ Len(Components[accessee]) = 1
  \/ IsPrefix(scopeOf(forest, accessee), Components[accessor])

checkItemNames(forest) ==
  \A n \in DOMAIN forest.items : \A d \in forest.items[n].deps : accessibleFrom(forest, n, d)

checkFlags(forest) ==
  \A n \in DOMAIN forest.items : \A d \in DOMAIN forest.items[n].flags \cap DOMAIN forest.items :
    forest.items[n].flags[d] \subseteq forest.items[d].supported_flags

\* BuildItem::setOptionalDependencyPresence: a forgotten dependency is
\* forgotten in flags and traits, too.
checkItemDependencies(forest) ==
  LET items == withoutAbsent(forest.items)
      expanded == expandedDeps(items)
      forgotten(n) == absent(forest.items, n)
  IN [forest EXCEPT !.items =
        [n \in DOMAIN items |->
           [items[n] EXCEPT
              !.expanded = expanded[n],
              !.flags = [d \in DOMAIN items[n].flags \ forgotten(n) |-> items[n].flags[d]],
              !.traits = [trait \in DOMAIN items[n].traits |->
                            items[n].traits[trait] \ forgotten(n)]]]]

\* The checks of references by items of the forest itself
refersTo(forest, item, other) ==
  /\ other \in DOMAIN forest.items
  /\ forest.items[other].tree \in allowedTrees(forest, forest.items[item].tree)

buildAlsoValid(root, forest) ==
  \A n \in localTo(root, forest.items) : \A also \in forest.items[n].build_also :
    IF also.is_tree THEN also.name \in allowedTrees(forest, forest.items[n].tree)
    ELSE refersTo(forest, n, also.name)

checkDepTreeAccess(root, forest) ==
  \A n \in localTo(root, forest.items) :
    \A d \in forest.items[n].expanded : refersTo(forest, n, d)

traitsValid(root, forest) ==
  \A n \in localTo(root, forest.items) :
    LET item == forest.items[n]
    IN /\ DOMAIN item.traits \subseteq forest.trees[item.tree].traits
       /\ \A trait \in DOMAIN item.traits :
            \A m \in item.traits[trait] : accessibleFrom(forest, n, m) /\ refersTo(forest, n, m)

\* Mutant: plugins are forgotten.
getReferences_deps(item) == item.expanded

getReferences(item) == item.expanded \cup item.plugins

\* References that the item's own forest resolves to another copy.  What one
\* of the two does not know is passed over.
checkIntegrity(root, forest) ==
  LET shadowed(item) ==
        LET native == forests[item.home].items
        IN {n \in getReferences(item) \cap DOMAIN forest.items \cap DOMAIN native :
              forest.items[n].home # native[n].home}
      items == forest.items
  IN [forest EXCEPT !.items =
        [n \in DOMAIN items |->
           IF items[n].home = root THEN items[n]
           ELSE [items[n] EXCEPT !.shadowed = shadowed(items[n])]]]

\* reportIntegrityErrors for a set of names that are all known
integrityErrors(forest, names) == \E n \in names : forest.items[n].shadowed # {}

validateForest(root) ==
  LET resolved == propagateGlobals(root, resolveFromBackingAreas(root))
      withTrees == setPlugins(root, resolveTraits(checkTreeDependencies(resolved)))
      withItems == checkItemDependencies(withTrees)
      forest == checkIntegrity(root, withItems)
      aborts == \/ ambiguous(root, LAMBDA g, h : g = h)
                \/ forgetsTooLate(resolved.trees)
                \/ forgetsTooLate(withTrees.items)
      valid == /\ ~ambiguous(root, LAMBDA g, h : g # h)
               /\ deletionsValid(root)
               /\ dependenciesKnown(resolved.trees)
               /\ pluginsValid(root, withTrees)
               /\ checkItemNames(withTrees)
               /\ dependenciesKnown(withTrees.items)
               /\ buildAlsoValid(root, withItems)
               /\ checkDepTreeAccess(root, withItems)
               /\ checkFlags(withItems)
               /\ traitsValid(root, withItems)
               /\ on("full-integrity") => ~integrityErrors(forest, DOMAIN forest.items)
  IN /\ outcome = "running"
     /\ stack = <<>>
     /\ root \in DOMAIN forests \ validated
     /\ Range(forests[root].backing) \subseteq validated
     /\ IF aborts
        THEN outcome' = "aborted" /\ UNCHANGED <<forests, validated, errors>>
        ELSE /\ forests' = [forests EXCEPT ![root] = forest]
             /\ validated' = validated \cup {root}
             /\ errors' = (errors \/ ~valid)
             /\ UNCHANGED outcome
     /\ UNCHANGED <<reading, stack>>

AllValidated == stack = <<>> /\ validated = DOMAIN forests

\* computeValidTraits
validTraits ==
  UNION {UNION {forests[r].trees[t].traits : t \in DOMAIN forests[r].trees} :
           r \in DOMAIN forests}

-----------------------------------------------------------------------------
(* Properties *)

\* A forest's declared backing areas, without the forest itself
Backs(root) == Range(declared.backing[root]) \ {root}

\* The areas that a set of forests leads to
BackedBy(roots) ==
  LET found[n \in 0..Cardinality(Roots)] ==
        IF n = 0 THEN UNION {Backs(r) : r \in roots}
        ELSE LET last == found[n - 1] IN last \cup UNION {Backs(r) : r \in last}
  IN found[Cardinality(Roots)]

Reachable == {Local} \cup BackedBy({Local})
CyclicBacking == \E r \in Reachable : r \in BackedBy({r})

\* Traversal stops with "backing area cycle detected" (Abuild-traverse.cc:493)
\* exactly if a forest is behind itself; otherwise it reads every forest that
\* the local one leads to, and the backing graph is consistent whatever errors
\* there were ("Even if there were errors ...", Abuild-traverse.cc:474).
TraversalComplete ==
  /\ outcome = "fatal" => CyclicBacking \/ ~read
  /\ \A r \in DOMAIN forests : Range(forests[r].backing) \subseteq DOMAIN forests
  /\ stack = <<>> =>
       /\ ~CyclicBacking
       /\ DOMAIN forests = Reachable
       /\ \A r \in DOMAIN forests :
            LET backing == forests[r].backing
            IN /\ Len(backing) = Cardinality(Range(backing))
               /\ r \notin validated => Range(backing) = Backs(r)

\* The areas a forest inherits from: "Abuild will notice this relationship and
\* will ignore your mention of B" (manual.xml:4984).
InheritsFrom(root) == Backs(root) \ BackedBy(Backs(root))

\* By forest, the homes of the copies that it can see of something: its own if
\* it has the thing, or what it inherits and does not delete
Visible(has(_), deletes(_, _)) ==
  LET copies[r \in Reachable] ==
        IF has(r) THEN {r}
        ELSE {h \in UNION {copies[b] : b \in InheritsFrom(r)} : ~deletes(r, h)}
  IN copies

TreeCopies(name) ==
  Visible(LAMBDA r : name \in DOMAIN declared.trees[r],
          LAMBDA r, h : name \in declared.deleted_trees[r])

Copies(name) ==
  Visible(LAMBDA r : name \in DOMAIN declared.items[r],
          LAMBDA r, h : \/ name \in declared.deleted_items[r]
                        \/ declared.items[h][name].tree \in declared.deleted_trees[r])

\* In a validated forest a name means the forest's own item or the only copy
\* that can be inherited, through any number of forests none of which has
\* deleted it; a name with two copies is an error, which is found even if the
\* areas with the copies are far back (manual.xml:4975).
ResolvedAsDocumented ==
  (outcome = "running" /\ ~errors) =>
    \A r \in validated : \A n \in Items :
      LET items == forests[r].items
      IN Copies(n)[r] = IF n \in DOMAIN items THEN {items[n].home} ELSE {}

\* A forest inherits from two areas that back to the same one.
SharesBackingArea(root) ==
  \E b, c \in InheritsFrom(root) : b # c /\ BackedBy({b}) \cap BackedBy({c}) # {}

\* The items that a forest inherits, with their homes
InheritedItems(root) ==
  {inherited \in Roots \X Items : inherited[1] \in Copies(inherited[2])[root] \ {root}}

InheritedTrees(root) ==
  {inherited \in Roots \X Trees : inherited[1] \in TreeCopies(inherited[2])[root] \ {root}}

\* A forest has deleted what something that it inherits optionally depends on.
DeletesOptional(root) ==
  \/ \E inherited \in InheritedItems(root) :
       LET home == inherited[1]
           item == declared.items[home][inherited[2]]
       IN \E d \in item.optional \cap item.deps :
            Copies(d)[home] # {} /\ Copies(d)[root] = {}
  \/ \E inherited \in InheritedTrees(root) :
       LET home == inherited[1]
           tree == declared.trees[home][inherited[2]]
       IN \E d \in tree.optional \cap tree.deps :
            TreeCopies(d)[home] # {} /\ TreeCopies(d)[root] = {}

\* ... or what an item that it inherits has in its build-also
DeletesAlsoBuilt(root) ==
  \E inherited \in InheritedItems(root) :
    \E also \in declared.items[inherited[1]][inherited[2]].build_also :
      (IF also.is_tree THEN TreeCopies(also.name) ELSE Copies(also.name))[root] = {}

\* ... or a plugin that an item that it inherits uses
DeletesPlugin(root) ==
  \E inherited \in InheritedItems(root) :
    LET trees == declared.trees[inherited[1]]
        tree == trees[declared.items[inherited[1]][inherited[2]].tree]
    IN \E p \in tree.plugins \cup UNION {trees[t].global_plugins : t \in DOMAIN trees} :
         Copies(p)[root] = {}

=============================================================================
