------------------------------ MODULE BuildSet ------------------------------
(***************************************************************************)
(* Which items are built: computeBuildset in Abuild-buildset.cc, and what  *)
(* readConfigs in Abuild-traverse.cc does before and after it.  The build  *)
(* set is selected among the items of the local forest, expanded along     *)
(* dependencies and the other relations between items, and then checked    *)
(* for integrity.  Then it is built, which is ItemBuilder's subject, or    *)
(* cleaned.                                                                *)
(***************************************************************************)
EXTENDS Forests

VARIABLES
  buildset,
  explicit_target_items,    \* items built with the targets that were asked for
  phase,          \* "traverse", "populate", "expand", "expanded", "computed",
                  \* "checked", "used"
  first_pass,
  removed         \* the directories that have been removed

set == <<buildset, explicit_target_items, phase, first_pass, removed>>
vars == <<traversal, errors, outcome, set>>

items == forests[Local].items
buildtrees == forests[Local].trees

Init ==
  /\ InitForests
  /\ buildset = {}
  /\ explicit_target_items = {}
  /\ phase = "traverse"
  /\ first_pass = TRUE
  /\ removed = {}

-----------------------------------------------------------------------------
(* Selection *)

\* populateBuildset: a backed item is never selected.
eligible ==
  {n \in localTo(Local, items) : options.only_with_traits \subseteq DOMAIN items[n].traits}

inTrees(trees) == {n \in DOMAIN items : items[n].tree \in trees}

atOrBelow(path) == {n \in DOMAIN items : IsPrefix(path, items[n].dir)}

treeDepsAndLocal(trees) ==
  UNION {buildtrees[t].expanded_and_local : t \in trees \cap DOMAIN buildtrees}

set_name == IF options.buildset_name # "" THEN options.buildset_name ELSE options.cleanset_name

cleaning ==
  IF set_name # "" THEN options.cleanset_name # "" ELSE options.special_target = "clean"

\* "is invalid when the current build item is not part of any tree"
noTree == set_name \in {"local", "deptrees", "descdeptrees"} /\ declared.local_tree = {}

inSet(name) ==
  CASE name = "all"      -> eligible
    [] name = "local"    -> eligible \cap inTrees(declared.local_tree)
    [] name = "deptrees" -> eligible \cap inTrees(treeDepsAndLocal(declared.local_tree))
    [] name = "desc"     -> eligible \cap atOrBelow(options.current_directory)
    [] name = "descdeptrees" ->
         eligible \cap inTrees(treeDepsAndLocal(declared.local_tree))
                  \cap atOrBelow(options.current_directory)
    [] name = "deps"     -> UNION {items[n].expanded : n \in declared.this}
    [] name = "current"  -> declared.this

\* Names and a pattern that any option has given come before the set itself.
byNames == set_name # "" /\ ~noTree /\ options.buildset_named_items # {}

selected ==
  IF set_name = "" THEN declared.this
  ELSE IF noTree THEN {}
  ELSE IF byNames THEN eligible \cap options.buildset_named_items
  ELSE IF options.buildset_pattern # <<>> THEN eligible \cap options.buildset_pattern[1].names
  ELSE inSet(set_name)

\* "unable to add unknown build items"
selectionValid == ~noTree /\ (byNames => options.buildset_named_items \subseteq DOMAIN items)

alsoIn(members) == UNION {items[n].build_also : n \in members}

\* An entry that is not a name of the local forest is a null pointer.
known(also) == also.name \in IF also.is_tree THEN DOMAIN buildtrees ELSE DOMAIN items

\* With -desc, an entry stands for the items at its directory or below it.
itemIsInBuildAlso(also) ==
  LET place == IF also.is_tree THEN buildtrees[also.name].dir ELSE items[also.name].dir
      members == IF also.with_tree_deps THEN inTrees(treeDepsAndLocal({also.name}))
                 ELSE IF also.desc THEN DOMAIN items
                 ELSE IF also.is_tree THEN inTrees({also.name}) ELSE {also.name}
  IN IF ~known(also) THEN {} ELSE IF also.desc THEN members \cap atOrBelow(place) ELSE members

\* The items outside the set are compared with the entries in this order
\* (ItemConfig::BuildAlso::operator<) until one matches.
orderNum(also) == (IF also.is_tree THEN 1 ELSE 0) + (IF also.desc THEN 2 ELSE 0)
                  + IF also.with_tree_deps THEN 4 ELSE 0

before(a, b) ==
  \/ orderNum(a) < orderNum(b)
  \/ orderNum(a) = orderNum(b) /\ a.name < b.name

reachesUnknown(members) ==
  \E n \in DOMAIN items \ members, also \in alsoIn(members) :
    /\ ~known(also)
    /\ \A a \in alsoIn(members) : before(a, also) => n \notin itemIsInBuildAlso(a)

\* One round after the other, until one adds nothing
rounds(members) ==
  LET round[n \in 0..Cardinality(Items)] ==
        IF n = 0 THEN members
        ELSE LET last == round[n - 1]
             IN last \cup (eligible \cap UNION {itemIsInBuildAlso(a) : a \in alsoIn(last)})
  IN round

addBuildAlsoToBuildset(members) == rounds(members)[Cardinality(Items)]

buildAlsoCrashes(members) ==
  \E n \in 0..Cardinality(Items) : reachesUnknown(rounds(members)[n])

-----------------------------------------------------------------------------
(* Expansion *)

addDependencies ==
  ~cleaning \/ on("apply-targets-to-deps") \/ on("with-rdeps")

withDeps(members) == members \cup UNION {items[n].expanded : n \in members}

dependents(members) == {n \in DOMAIN items : items[n].deps \cap members # {}}


withRdeps(members) ==
  LET round[n \in 0..Cardinality(Items)] ==
        IF n = 0 THEN members ELSE LET last == round[n - 1] IN last \cup dependents(last)
  IN round[Cardinality(Items)]

\* Items that have all the traits and refer by each to some member
related(members) ==
  {n \in DOMAIN items :
     \A trait \in options.related_by_traits :
       /\ trait \in DOMAIN items[n].traits
       /\ items[n].traits[trait] \cap members # {}}

abort == outcome' = "aborted" /\ UNCHANGED <<traversal, errors, set>>

traitsKnown == options.only_with_traits \cup options.related_by_traits \subseteq validTraits

\* readConfigs, up to the build set
readConfigs ==
  /\ outcome = "running"
  /\ phase = "traverse"
  /\ AllValidated
  /\ IF errors \/ ~traitsKnown
     THEN errors' = TRUE /\ outcome' = "failed" /\ UNCHANGED phase
     ELSE IF showsOnly(options) THEN outcome' = "done" /\ UNCHANGED <<errors, phase>>
     ELSE phase' = "populate" /\ UNCHANGED <<errors, outcome>>
  /\ UNCHANGED <<traversal, buildset, explicit_target_items, first_pass, removed>>

populate ==
  /\ outcome = "running"
  /\ phase = "populate"
  /\ IF ~(declared.this \subseteq DOMAIN items)
     THEN outcome' = "fatal" /\ UNCHANGED <<traversal, errors, set>>
     ELSE IF buildAlsoCrashes(selected) THEN abort
     ELSE LET members == addBuildAlsoToBuildset(selected)
              only_initial == ~on("apply-targets-to-deps") /\ options.related_by_traits = {}
          IN /\ buildset' = members
             /\ explicit_target_items' = IF only_initial THEN members ELSE {}
             /\ phase' = "expand"
             /\ errors' = ~selectionValid
             /\ UNCHANGED <<traversal, first_pass, removed, outcome>>

\* One pass of the loop
expand ==
  /\ outcome = "running"
  /\ phase = "expand"
  /\ LET members == IF addDependencies THEN withDeps(buildset) ELSE buildset
         closed == addBuildAlsoToBuildset(members)
         second_phase == on("repeat-expansion") \/ first_pass
         rdeps == IF second_phase /\ on("with-rdeps") THEN withRdeps(closed) ELSE closed
         by_trait == IF second_phase /\ options.related_by_traits # {} THEN related(rdeps) ELSE {}
     IN IF buildAlsoCrashes(members) THEN abort
        ELSE /\ buildset' = rdeps \cup by_trait
             /\ explicit_target_items' = explicit_target_items \cup
                  IF on("apply-targets-to-deps") THEN {} ELSE by_trait
             /\ first_pass' = FALSE
             /\ phase' = IF buildset' = buildset THEN "expanded" ELSE "expand"
             /\ UNCHANGED <<traversal, errors, outcome, removed>>

\* The plugins, and whatever is still to do about the explicit targets.  A
\* plugin that is not an item of the local forest enters as a null pointer.
addPlugins ==
  /\ outcome = "running"
  /\ phase = "expanded"
  /\ buildset' = buildset \cup
       IF addDependencies THEN UNION {items[n].plugins : n \in buildset} ELSE {}
  /\ explicit_target_items' =
       IF on("apply-targets-to-deps") THEN buildset' ELSE explicit_target_items
  /\ phase' = "computed"
  /\ UNCHANGED <<traversal, errors, outcome, first_pass, removed>>

null == buildset \ DOMAIN items

\* reportIntegrityErrors looks up a shadowed reference in the build set, which
\* need not have it when dependencies were not added.
missing == \E n \in buildset \ null : ~(items[n].shadowed \subseteq buildset)

\* With --full-integrity the whole forests have been checked before.
reportIntegrityErrors ==
  /\ outcome = "running"
  /\ phase = "computed"
  /\ IF ~on("full-integrity") /\ (null # {} \/ missing)
     THEN outcome' = "aborted" /\ UNCHANGED <<errors, phase>>
     ELSE /\ errors' = (errors \/ (~on("full-integrity")
                                   /\ integrityErrors(forests[Local], buildset)))
          /\ outcome' = IF errors' THEN "failed"
                        ELSE IF set_name # "" /\ buildset = {} THEN "done" ELSE "running"
          /\ phase' = "checked"
  /\ UNCHANGED <<traversal, buildset, explicit_target_items, first_pass, removed>>

-----------------------------------------------------------------------------
(* What is done with it *)

ready == outcome = "running" /\ phase = "checked"

default_targets == <<[kind |-> "word", word |-> "all"]>>

\* buildItem: the targets that an item is built with
targetsOf(n) ==
  CASE options.special_target = "no-op" -> <<[kind |-> "word", word |-> "no-op"]>>
    [] options.special_target # "no-op" /\ n \in explicit_target_items -> options.targets
    [] OTHER -> default_targets

\* A null pointer in the set is followed when the set is cleaned or built.
usesSet == set_name # "" \/ ~cleaning

remove(paths) ==
  /\ removed' \in removeFileRecursively(fs, paths)
  /\ errors' = (removed' # paths)
  /\ phase' = "used"
  /\ outcome' = "done"

\* cleanPath or cleanOutputDir
cleanHere ==
  /\ ready
  /\ ~usesSet
  /\ remove(IF options.this_platform # "" THEN cleanOutputDir(fs, options)
            ELSE cleanPath(fs, options, options.current_directory))
  /\ UNCHANGED <<traversal, buildset, explicit_target_items, first_pass>>

isWritable(n) ==
  items[n].home = Local /\ isBuildItemWritable(options, items[n].dir)

cleanBuildset ==
  /\ ready
  /\ usesSet
  /\ cleaning
  /\ null = {}
  /\ remove(UNION {cleanPath(fs, options, items[n].dir) : n \in {n \in buildset : isWritable(n)}})
  /\ UNCHANGED <<traversal, buildset, explicit_target_items, first_pass>>

buildBuildset ==
  /\ ready
  /\ ~cleaning
  /\ null = {}
  /\ phase' = "used"
  /\ outcome' = "done"
  /\ UNCHANGED <<traversal, buildset, explicit_target_items, first_pass, removed, errors>>

useNull == ready /\ usesSet /\ null # {} /\ abort

traverse ==
  /\ \/ readDirectories /\ UNCHANGED <<forests, validated>>
     \/ traverseForests
     \/ \E root \in Roots : validateForest(root)
  /\ UNCHANGED set

Stopped == outcome # "running" /\ UNCHANGED vars

Next ==
  \/ traverse \/ readConfigs \/ populate \/ expand \/ addPlugins
  \/ reportIntegrityErrors
  \/ cleanHere \/ cleanBuildset \/ buildBuildset \/ useNull
  \/ Stopped

Spec == Init /\ [][Next]_vars

-----------------------------------------------------------------------------
(* Properties *)

Manual == INSTANCE CommandContract

asked == input.asked
Asked(option) == Manual!Switched(asked, option)

WorkingDirectory == Manual!WorkingDirectory(fs, input.start, asked)
InOutput == \E d \in WorkingDirectory \cap DOMAIN fs : Manual!OutputDirectory(fs, d)

\* What the build uses of backing areas is what it would use if they were built
\* by themselves: each reference of an item in the build set means the same copy
\* in the local forest as in the forest the item is from, and is in the build
\* set, too, unless dependencies are not added to a clean set (manual.xml:5089;
\* Abuild-traverse.cc:2659).  With full integrity checks, no item at all has a
\* shadowed reference.
IntegrityGuaranteed ==
  (phase = "used" /\ usesSet) =>
    \A n \in buildset \cup IF Asked("full-integrity") THEN DOMAIN items ELSE {} :
      LET native == forests[items[n].home].items
      IN \A m \in native[n].expanded \cup native[n].plugins :
           /\ m \in DOMAIN items => items[m].home = native[m].home
           /\ n \in buildset /\ addDependencies => m \in buildset \ null

\* Whether the set has the dependencies of its members, too (manual.xml:3698)
DependenciesAdded ==
  ~Manual!Cleaning(asked) \/ Asked("apply-targets-to-deps") \/ Asked("with-rdeps")


\* The items that a set means (manual.xml:3568), without those that lack a trait
Means(text) ==
  CASE text.kind \in {"name:", "pattern:"} -> eligible \cap text.names
    [] Manual!IsWord(text, {"down", "descending"}) -> inSet("desc")
    [] OTHER -> inSet(text.word)

Chosen ==
  LET sets == Manual!SetAsked(InOutput, asked)
  IN IF sets = {} THEN declared.this ELSE UNION {Means(text) : text \in sets}

TraitsAsked(option) ==
  UNION {asked[n].args[1].names : n \in Manual!LastUse(asked, {option})}

\* The relations of manual.xml, "Construction of the Build Set", one step each
Dependencies(members) ==
  IF DependenciesAdded THEN UNION {items[n].deps : n \in members} ELSE {}
AlsoBuilt(members) == eligible \cap UNION {itemIsInBuildAlso(a) : a \in alsoIn(members)}
Plugins(members) ==
  IF DependenciesAdded THEN UNION {items[n].plugins : n \in members} ELSE {}

\* The least set that has the members and all that a step adds to it
Closure(members, step(_)) ==
  LET closed[n \in 0..Cardinality(Items)] ==
        IF n = 0 THEN members ELSE LET last == closed[n - 1] IN last \cup step(last)
  IN closed[Cardinality(Items)]

PhaseOne(members) == Closure(members, LAMBDA s : Dependencies(s) \cup AlsoBuilt(s))

Rdeps(members) == IF Asked("with-rdeps") THEN Closure(members, dependents) ELSE members
Related(members) == IF Asked("related-by-traits") THEN related(members) ELSE {}
PhaseTwo(members) == Rdeps(members) \cup Related(Rdeps(members))

\* At least and at most these items are built with the targets that were given.
TargetsApplied(least, most) ==
  \A n \in buildset :
    /\ n \in least => targetsOf(n) = Manual!TargetsGiven(asked)
    /\ n \notin most => targetsOf(n) = <<[kind |-> "word", word |-> "all"]>>

Everything(members) == Closure(members, LAMBDA s : PhaseOne(s) \cup PhaseTwo(s))


\* What a clean command is to remove: the wanted output directories of the
\* writable items in the set, or of the directory abuild is started in, or the
\* contents of that directory (manual.xml:3698, 5403, 5671).
ToRemove ==
  IF Manual!CleanSet(asked)
  THEN UNION {Manual!RemovedFrom(fs, items[n].dir, asked) :
                n \in {n \in buildset : /\ items[n].home = Local
                                        /\ ~Manual!ReadOnly(items[n].dir, asked)}}
  ELSE IF InOutput THEN UNION {Manual!Emptied(fs, d) : d \in WorkingDirectory}
  ELSE UNION {Manual!RemovedFrom(fs, d, asked) : d \in WorkingDirectory}

\* Nothing is ever removed but what a clean command is to remove, in output
\* directories that are marked as abuild's own, and all of that is gone unless
\* an error was reported.  (Without a set, "clean" does not ask whether the
\* directory is read-only, nor, in an output directory, for --clean-platforms.)
CleanedAsDocumented ==
  /\ removed # {} => Manual!Cleaning(asked)
  /\ \A p \in removed : \E d \in Manual!Above(p) \cap DOMAIN fs : Manual!OutputDirectory(fs, d)
  /\ phase = "used" /\ Manual!Cleaning(asked) =>
       removed \subseteq ToRemove /\ (~errors => removed = ToRemove)
=============================================================================
