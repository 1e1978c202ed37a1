----------------------------- MODULE BuildGraph -----------------------------
(***************************************************************************)
(* Which item is built on which platforms, and which of these builds       *)
(* depends on which: PlatformData.cc, the platform parts of BuildItem.cc   *)
(* and Abuild-traverse.cc, and addItemToBuildGraph in Abuild-build.cc.     *)
(*                                                                         *)
(* A build item declares platform types; one without any (target type      *)
(* "all") takes over those of its dependencies if they agree, and else is  *)
(* a pass-through, built on whatever platforms its dependents need.  An    *)
(* item is built on the platforms that are selected by default, and on     *)
(* further ones as needed by the items that depend on it, which is why     *)
(* items are added to the build graph in reverse dependency order.         *)
(*                                                                         *)
(* Items are numbered in dependency order.  A platform selector is the set *)
(* of platforms it matches, empty for "skip" and "default": the fields of  *)
(* platform names are left out.  All trees share one PlatformData, as      *)
(* trees with the same plugins do.                                         *)
(***************************************************************************)
EXTENDS Integers, Sequences, FiniteSets

CONSTANTS
  Items,
  Types,          \* platform types; one of them is Indep
  Indep,          \* the type "indep", and its platform
  Parent,         \* the parent type of a type, or NoType
  PlatformsOf,    \* by type, its platforms in order of priority
  ANY, NoType, NoPlatform,
  Inputs          \* see `input`

ASSUME ItemsInOrder == Items \subseteq Nat \ {0} /\ IsFiniteSet(Items)
ASSUME TypesAssumption ==
  /\ Indep \in Types
  /\ PlatformsOf[Indep] = <<Indep>>
  /\ Parent \in [Types -> Types \cup {NoType}]

VARIABLES
  input,             \* deps: the direct dependencies of every item
                     \* declared: its declared platform types
                     \* wants: selectors declared for some dependencies
                     \* selectors: those given by the user, by type or ANY
                     \* keep_going
  platform_types,
  build_platforms,
  current,           \* the item being added to the build graph
  todo,              \* dependencies and platforms still to be looked at
  nodes, dependencies,            \* build_graph
  errors, forced_failures

plan == <<input, platform_types>>
build_graph == <<nodes, dependencies>>
vars == <<plan, build_platforms, current, todo, build_graph, errors, forced_failures>>

Elements(seq) == {seq[n] : n \in DOMAIN seq}
Node(item, platform) == [item |-> item, platform |-> platform]

-----------------------------------------------------------------------------
(* Platform types *)

\* PlatformData::check: the ancestors of a type, nearest first
compatible_platform_types[type \in Types] ==
  IF Parent[type] = NoType THEN <<>>
  ELSE <<Parent[type]>> \o compatible_platform_types[Parent[type]]

TypeOf(platform) == CHOOSE type \in Types : platform \in Elements(PlatformsOf[type])

getCompatiblePlatformTypes(platform) ==
  compatible_platform_types[TypeOf(platform)]
    \o (IF platform = Indep THEN <<>> ELSE <<Indep>>)

IsAll(item) == platform_types[item] = {}       \* target type "all"
IsObjectCode(item) == ~IsAll(item) /\ Indep \notin platform_types[item]

\* updatePlatformTypes: from the most depended-on item on
updatePlatformTypes(deps, declared) ==
  LET types[i \in Items] ==
        IF /\ declared[i] = {}
           /\ deps[i] # {}
           /\ \A d, e \in deps[i] : types[d] = types[e]
        THEN types[CHOOSE d \in deps[i] : TRUE]
        ELSE declared[i]
  IN types

-----------------------------------------------------------------------------
(* Platform selection *)

\* The selector the user gave for a type, if any; general ones are only for
\* object code.
selectorFor(type) ==
  {input.selectors[key] : key \in
     IF type \in DOMAIN input.selectors THEN {type}
     ELSE (DOMAIN input.selectors \cap {ANY}) \ (IF type = Indep THEN {ANY} ELSE {})}

\* PlatformData::check: the platforms of a type that are built by default
selectedPlatforms(type) ==
  LET platforms == Elements(PlatformsOf[type])
      first == IF platforms = {} THEN {} ELSE {PlatformsOf[type][1]}
      matched == UNION {platforms \cap ps.matches : ps \in selectorFor(type)}
  IN IF \E ps \in selectorFor(type) : ps.skip THEN {}
     ELSE IF matched = {} THEN first ELSE matched

\* computeBuildablePlatforms
getBuildablePlatforms(item) ==
  UNION {Elements(PlatformsOf[type]) : type \in platform_types[item]}

defaultPlatforms(item) == UNION {selectedPlatforms(type) : type \in platform_types[item]}

\* The first platform that the selector matches, or else the first one.
getBestPlatformForType(item, platform_type, declared) ==
  LET selector == IF declared # {} THEN declared
                  ELSE {ps \in selectorFor(platform_type) : ~ps.skip}
      named == {ps.type : ps \in selector} \ {ANY}
      type == IF named = {} THEN platform_type ELSE CHOOSE t \in named : TRUE
      platforms == PlatformsOf[type]
      matching == {n \in DOMAIN platforms :
                     /\ IsObjectCode(item)
                     /\ \E ps \in selector : platforms[n] \in ps.matches}
  IN IF type \notin platform_types[item] \/ platforms = <<>> THEN NoPlatform
     ELSE IF matching = {} THEN platforms[1]
     ELSE platforms[CHOOSE n \in matching : \A m \in matching : n <= m]

\* The platform itself, or one of the first compatible type the item has.
getBestPlatformForPlatform(item, platform) ==
  LET compatible == getCompatiblePlatformTypes(platform)
      candidates == {n \in DOMAIN compatible : compatible[n] \in platform_types[item]}
  IN IF IsAll(item) \/ platform \in getBuildablePlatforms(item) THEN platform
     ELSE IF candidates = {} THEN NoPlatform
     ELSE getBestPlatformForType(
            item, compatible[CHOOSE n \in candidates : \A m \in candidates : n <= m], {})

\* getDepPlatformType: a dependency may be declared with a selector or with
\* a platform type alone.
isWanted(item, dep) == dep \in DOMAIN input.wants[item]

depPlatform(item, dep, platform) ==
  IF isWanted(item, dep)
  THEN LET want == input.wants[item][dep]
       IN getBestPlatformForType(dep, want.type, IF want.plain THEN {} ELSE {want})
  ELSE getBestPlatformForPlatform(dep, platform)

\* checkDependencyPlatformTypes: inputs that are refused
acceptable ==
  \A i \in Items : \A d \in DOMAIN input.wants[i] :
    /\ d \in input.deps[i]
    /\ ~IsAll(i)
    /\ input.wants[i][d].type \in platform_types[d] \ {Indep}

-----------------------------------------------------------------------------
(* Construction of the build graph *)

Last == CHOOSE i \in Items : \A j \in Items : j <= i

Init ==
  /\ input \in Inputs
  /\ platform_types = updatePlatformTypes(input.deps, input.declared)
  /\ acceptable
  /\ build_platforms = [i \in Items |-> defaultPlatforms(i)]
  /\ current = Last
  /\ todo = {}
  /\ nodes = {}
  /\ dependencies = {}
  /\ errors = FALSE
  /\ forced_failures = {}

\* An item without platforms is skipped: there is then nothing to do.
addItemToBuildGraph(item) ==
  /\ item = current
  /\ nodes' = nodes \cup {Node(item, p) : p \in build_platforms[item]}
  /\ todo' = {[item |-> item, dep |-> d, platform |-> p] :
                d \in input.deps[item], p \in build_platforms[item]}

nextItem ==
  /\ todo = {}
  /\ current # 0
  /\ \E item \in Items : addItemToBuildGraph(item)
  /\ current' = current - 1
  /\ UNCHANGED <<plan, build_platforms, dependencies, errors, forced_failures>>

\* Mutant: no further platforms are selected.
addDependency_asSelected(t, dep_platform) ==
  /\ dep_platform # NoPlatform
  /\ dependencies' = dependencies \cup
       {<<Node(t.item, t.platform), Node(t.dep, dep_platform)>>}
  /\ UNCHANGED <<build_platforms, errors, forced_failures>>

\* As-needed platform selection: the platform is added if the dependency is
\* not built on the dependent item's platform.
addDependency(t, dep_platform) ==
  /\ dep_platform # NoPlatform
  /\ build_platforms' =
       IF t.platform \notin build_platforms[t.dep]
       THEN [build_platforms EXCEPT ![t.dep] = @ \cup {dep_platform}]
       ELSE build_platforms
  /\ dependencies' = dependencies \cup
       {<<Node(t.item, t.platform), Node(t.dep, dep_platform)>>}
  /\ UNCHANGED <<errors, forced_failures>>

\* No platform of the wanted type.
noOverridePlatform(t) ==
  /\ isWanted(t.item, t.dep)
  /\ errors' = TRUE
  /\ UNCHANGED <<build_platforms, dependencies, forced_failures>>

\* "This is how pass-through build items work."
passThrough(t) ==
  /\ ~isWanted(t.item, t.dep)
  /\ IsAll(t.item)
  /\ UNCHANGED <<build_platforms, dependencies, errors, forced_failures>>

\* Mutant: a missing platform is not noted.
unmatchedPlatform_ignored(t) ==
  /\ ~isWanted(t.item, t.dep)
  /\ ~IsAll(t.item)
  /\ UNCHANGED <<build_platforms, dependencies, errors, forced_failures>>

unmatchedPlatform(t) ==
  /\ ~isWanted(t.item, t.dep)
  /\ ~IsAll(t.item)
  /\ \/ /\ input.keep_going
        /\ forced_failures' = forced_failures \cup {Node(t.item, t.platform)}
        /\ UNCHANGED errors
     \/ /\ ~input.keep_going
        /\ errors' = TRUE
        /\ UNCHANGED forced_failures
  /\ UNCHANGED <<build_platforms, dependencies>>

\* The next dependency on the next platform.  Their order is that of names
\* and is of no consequence.
lookAt(t) ==
  /\ LET dep_platform == depPlatform(t.item, t.dep, t.platform)
     IN \/ addDependency(t, dep_platform)
        \/ /\ dep_platform = NoPlatform
           /\ noOverridePlatform(t) \/ passThrough(t) \/ unmatchedPlatform(t)
  /\ todo' = todo \ {t}
  /\ UNCHANGED <<plan, current, nodes>>

Complete == current = 0 /\ todo = {}
Done == Complete /\ UNCHANGED vars

Next ==
  \/ nextItem
  \/ \E t \in todo : lookAt(t)
  \/ Done

Spec == Init /\ [][Next]_vars

-----------------------------------------------------------------------------
(* Properties *)

\* Dependents of a node come before it, so no platform is added to an item
\* whose nodes are in the graph already; and in the end every dependency is
\* a node, so that the check of the graph, whose failure would be an
\* "INTERNAL ERROR" (Abuild-build.cc:123), succeeds.  The exception is what
\* the code does: for a dependency declared with a platform type it asks
\* whether the dependency is built on the dependent item's platform, and not
\* whether it is built on the chosen one.
Overlooked(n, m) ==
  isWanted(n.item, m.item) /\ n.platform \in build_platforms[m.item]

BuildGraphChecks ==
  /\ \A i \in Items : i > current =>
       {n \in nodes : n.item = i} = {Node(i, p) : p \in build_platforms[i]}
  /\ (Complete /\ ~errors) =>
       \A edge \in dependencies : edge[2] \in nodes \/ Overlooked(edge[1], edge[2])

\* The regular items an item depends on, directly or through pass-throughs.
regularDependencies(item) ==
  LET regular[i \in Items] ==
        UNION {IF IsAll(d) THEN regular[d] ELSE {d} : d \in input.deps[i]}
  IN regular[item]

\* The builds of regular items that a build depends on in that way.
regularNodes(node) ==
  LET regular[n \in nodes] ==
        UNION {IF IsAll(edge[2].item) THEN regular[edge[2]] ELSE {edge[2]} :
                 edge \in {e \in dependencies : e[1] = n}}
  IN regular[node]

\* Code built on `platform` can use what is built on p.
suits(p, platform) ==
  p = platform \/ TypeOf(p) \in Elements(getCompatiblePlatformTypes(platform))

\* When a build is attempted, it depends on a build of each item that the
\* item depends on, on a platform of the declared type or on a suitable one:
\* the same platform if the dependency can be built there.  A pass-through
\* neither loses a dependency that has a suitable platform nor connects
\* builds that do not suit each other (Abuild-build.cc:365-380).
DependenciesHonoured ==
  (Complete /\ ~errors) =>
    \A n \in nodes \ forced_failures :
      ~IsAll(n.item) =>
        /\ \A d \in regularDependencies(n.item) :
             LET platforms == {m.platform : m \in {m \in regularNodes(n) : m.item = d}}
                 suitable == {p \in getBuildablePlatforms(d) : suits(p, n.platform)}
             IN /\ d \in input.deps[n.item] => platforms # {}
                /\ suitable # {} /\ ~isWanted(n.item, d) =>
                     platforms \cap suitable # {}
                /\ n.platform \in suitable /\ ~isWanted(n.item, d) =>
                     platforms = {n.platform}
                /\ platforms \subseteq suitable \/ isWanted(n.item, d)
        /\ \A d \in DOMAIN input.wants[n.item] :
             \E m \in regularNodes(n) :
               m.item = d /\ TypeOf(m.platform) = input.wants[n.item][d].type
=============================================================================
