----------------------------- MODULE ItemBuilder -----------------------------
(***************************************************************************)
(* Abuild-build.cc: what abuild does with one item of the build graph.     *)
(* The dependency runner calls itemBuilder for every item that becomes     *)
(* ready, on a worker thread: it creates the item's interface out of the   *)
(* interfaces of its direct dependencies and its own interface file, runs  *)
(* the backend, and adds the after-build files, which the backend may have *)
(* written, to the interface.  The evaluator's change callback calls it,   *)
(* on the runner's thread, for every item that a failed dependency keeps   *)
(* from being built.                                                       *)
(*                                                                         *)
(* itemBuilder holds build_mutex throughout, except while the backend      *)
(* runs, so each of its two sections is one action.  The runner and its    *)
(* pool, modelled in DependencyRunner, appear here as what they promise:   *)
(* at most num_workers items at a time, in an order the evaluator allows.  *)
(*                                                                         *)
(* An item of the graph is a build item on one of its platforms: two of    *)
(* them may share their item's name and files.                             *)
(***************************************************************************)
EXTENDS InterfaceParser

CONSTANTS
  Items, Graphs,   \* as in DependencyEvaluator
  num_workers,
  Inputs,          \* what `option` and `config` may be, in pairs
  BaseFile,        \* abuild's own private/base.interface
  Trees            \* by name, what there is to be built, see `tree`

VARIABLES
  graph, states, propagate_failure, num_running, pending,
  option,          \* keep_going, no_dep_failures, no_op
  config,          \* the sets of items that
                   \*   have a build_file,
                   \*   are to be built: selected by the filter and writable,
                   \*   are in forced_failures;
                   \* and the tree, a name
  interfaces,      \* by item, once it has one, with its parser
  thread,          \* where itemBuilder is with an item
  failed_builds,
  dep_failure,     \* the item the change callback is called for, if any
  stop, any_errors,
  pc,              \* where buildBuildset is
  crash            \* what the process has died of

E == INSTANCE DependencyEvaluator

ASSUME ItemsAssumption == Items \subseteq Nat /\ IsFiniteSet(Items)
\* The evaluator's constructor asserts graph.check().
ASSUME GraphsAssumption == \A g \in Graphs : E!CheckedGraph(g, Items)
\* The pool asserts num_workers >= 1.
ASSUME num_workersAssumption == num_workers \in Nat \ {0}

evaluator == <<graph, states, propagate_failure, num_running, pending>>
input == <<option, config>>
runner == <<dep_failure, stop, any_errors, pc>>
vars == <<evaluator, input, interfaces, thread, failed_builds, runner, crash>>

NoItem == -1
NoInterface == [i \in {} |-> {}]

\* Of every item its name, platform, type, plugins, optional dependencies
\* with whether they are there, supported flags, and the flags it sets; the
\* files by their paths, and what the plugins' interface files contain.
tree == Trees[config.tree]

Init ==
  /\ E!Init
  /\ \E chosen \in Inputs : option = chosen[1] /\ config = chosen[2]
  /\ option.no_dep_failures => option.keep_going
  /\ config.forced_failures # {} => option.keep_going
  /\ interfaces = NoInterface
  /\ thread = [i \in Items |-> "none"]
  /\ failed_builds = <<>>
  /\ dep_failure = NoItem
  /\ stop = FALSE
  /\ any_errors = FALSE
  /\ pc = "start"
  /\ crash = "none"

-----------------------------------------------------------------------------
(* The interfaces that all items start from *)

base_interface ==
  parse(NewParser(NewInterface(":base", ":base", <<"/", "private">>), {}),
        <<"/", "private">>, BaseFile, FALSE).interface

\* Read before the global variables are set.
pluginInterface(plugin) ==
  LET dir == <<"/", plugin>>
      interface == NewInterface(plugin, "plugin", dir)
  IN parse(NewParser(importInterface(interface, base_interface), {}),
           dir, tree.plugin_files[plugin], FALSE).interface

pluginErrors ==
  \E plugin \in DOMAIN tree.plugin_files : pluginInterface(plugin).errors > 0

stdout_is_tty == True

withGlobals(interface) ==
  assignVariable(interface, "ABUILD_STDOUT_IS_TTY",
    ownAssignment(interface, Location("global-initialization", 0, 0), "normal",
                  NoFlag, <<stdout_is_tty>>))

-----------------------------------------------------------------------------
(* createItemInterface *)

itemDir(i) == <<"/", tree.item_name[i]>>
interfaceFile(i) == itemDir(i) \o <<"/", "Abuild.interface">>
dirname(path) == SubSeq(path, 1, Len(path) - 2)

\* getInterface() dereferences what find() returns, whatever it is.
getInterface(i) == interfaces[i].interface

\* The direct dependencies' interfaces "already include the interfaces of
\* our indirect dependencies".
importAll(i, interface) ==
  LET plugins == tree.plugins[i]
      deps == graph.deps[i]
  IN FoldLeft(importInterface, interface,
              <<withGlobals(base_interface)>>
                \o [n \in DOMAIN plugins |-> pluginInterface(plugins[n])]
                \o [n \in DOMAIN deps |-> getInterface(deps[n])])

assignInterfaceVariable(i, interface, name, word, assignment_type) ==
  assignVariable(interface, name,
    ownAssignment(interface, Location("internal", i, 0), assignment_type, NoFlag, <<word>>))

\* The other variables that describe the item are assigned in the same way.
describeItem(i, interface) ==
  FoldLeft(LAMBDA acc, v : assignInterfaceVariable(i, acc, v[1], <<v[2]>>, "override"),
           interface,
           << <<"ABUILD_ITEM_NAME", tree.item_name[i]>>,
              <<"ABUILD_PLATFORM", tree.platform[i]>> >>)

haveOptionalDep(dep) == "ABUILD_HAVE_OPTIONAL_DEP_" \o dep

declareOptionalDeps(i, interface) ==
  LET location == Location("internal", i, 0)
  IN FoldSet(LAMBDA dep, acc :
               assignInterfaceVariable(i,
                 declareVariable(acc, acc.target_type,
                   Declaration(location, haveOptionalDep(dep[1]), "local", "boolean", "scalar")),
                 haveOptionalDep(dep[1]), IF dep[2] THEN True ELSE False, "normal"),
             interface, tree.optional_deps[i])

loadInterfaceFile(i, parser) ==
  IF interfaceFile(i) \in DOMAIN tree.files
  THEN parse(parser, itemDir(i), tree.files[interfaceFile(i)], TRUE)
  ELSE parser

\* The parser with the item's interface after its own file has been read.
createItemInterface(i) ==
  LET interface == NewInterface(tree.item_name[i], tree.platform[i], itemDir(i))
  IN loadInterfaceFile(i,
       NewParser(declareOptionalDeps(i, describeItem(i, importAll(i, interface))),
                 tree.supported_flags[i]))

-----------------------------------------------------------------------------
(* itemBuilder on a worker's thread: up to the backend *)

use_interfaces(i) == ~option.no_op /\ i \notin config.forced_failures

setInterface(i, parser) ==
  /\ interfaces' = [j \in DOMAIN interfaces \cup {i} |->
                     IF j = i THEN parser ELSE interfaces[j]]
  /\ crash' = IF parser.interface.assertion THEN "none" ELSE "assertion"

\* The end of itemBuilder.
returns(i, status) ==
  /\ thread' = [thread EXCEPT ![i] = IF status THEN "succeeded" ELSE "failed"]
  /\ failed_builds' = IF status THEN failed_builds ELSE Append(failed_builds, i)

\* "build suppressed because of earlier errors"
suppressed(i) ==
  /\ i \in config.forced_failures
  /\ returns(i, FALSE)
  /\ UNCHANGED <<interfaces, crash>>

\* Without interfaces nothing can go wrong.
noOp(i) ==
  /\ i \notin config.forced_failures
  /\ option.no_op
  /\ returns(i, TRUE)
  /\ UNCHANGED <<interfaces, crash>>

importsMissing(i) ==
  /\ use_interfaces(i)
  /\ ~(E!Deps(i) \subseteq DOMAIN interfaces)
  /\ crash' = "missing interface"
  /\ UNCHANGED <<interfaces, thread, failed_builds>>

\* Whatever has been read before an error stays in the interface.
interfaceError(i, parser) ==
  /\ parser.interface.errors > 0
  /\ setInterface(i, parser)
  /\ returns(i, FALSE)

\* Such items may not load after-build files.
noBuildFile(i, parser) ==
  /\ parser.interface.errors = 0
  /\ i \notin config.build_file
  /\ setInterface(i, parser)
  /\ returns(i, parser.after_builds = <<>>)

readFiles(parser, files) ==
  FoldLeft(LAMBDA acc, f : parse(acc, dirname(f), tree.files[f], FALSE), parser, files)

filesRead(i, read, all) ==
  /\ setInterface(i, read)
  /\ returns(i, all /\ read.interface.errors = 0)

\* Mutant: a missing after-build file is no error.
readAfterBuilds_lenient(i, parser) ==
  \E missing \in SUBSET ToSet(parser.after_builds) :
    LET files == SelectSeq(parser.after_builds,
                           LAMBDA f : f \in DOMAIN tree.files \ missing)
    IN filesRead(i, readFiles(parser, files), TRUE)

\* Any of the files may be missing.  They may not name others.
readAfterBuilds(i, parser) ==
  \E missing \in SUBSET ToSet(parser.after_builds) :
    LET files == SelectSeq(parser.after_builds,
                           LAMBDA f : f \in DOMAIN tree.files \ missing)
    IN filesRead(i, readFiles(parser, files), files = parser.after_builds)

\* An item that is not to be built has been built before.
assumedBuilt(i, parser) ==
  /\ parser.interface.errors = 0
  /\ i \in config.build_file \ config.selected
  /\ readAfterBuilds(i, parser)

\* build_mutex is unlocked.
invokeBackend(i, parser) ==
  /\ parser.interface.errors = 0
  /\ i \in config.build_file \cap config.selected
  /\ setInterface(i, parser)
  /\ thread' = [thread EXCEPT ![i] = "backend"]
  /\ UNCHANGED failed_builds

afterInterface(i, parser) ==
  \/ interfaceError(i, parser)
  \/ noBuildFile(i, parser)
  \/ assumedBuilt(i, parser)
  \/ invokeBackend(i, parser)

withInterface(i) ==
  /\ use_interfaces(i)
  /\ E!Deps(i) \subseteq DOMAIN interfaces
  /\ afterInterface(i, createItemInterface(i))

itemBuilder(i) ==
  /\ thread[i] = "started"
  /\ \/ suppressed(i)
     \/ noOp(i)
     \/ importsMissing(i)
     \/ withInterface(i)
  /\ UNCHANGED <<evaluator, input, runner>>

-----------------------------------------------------------------------------
(* itemBuilder from the backend on *)

backendReturns(i) ==
  /\ thread[i] = "backend"
  /\ \E result \in {"backend succeeded", "backend failed"} :
       thread' = [thread EXCEPT ![i] = result]
  /\ UNCHANGED <<evaluator, input, interfaces, failed_builds, runner, crash>>

\* Mutant: the function returns before it has noted the failure.
backendFailed_unnoted(i) ==
  /\ thread[i] = "backend failed"
  /\ thread' = [thread EXCEPT ![i] = "failed"]
  /\ UNCHANGED <<interfaces, failed_builds>>

\* build_mutex is locked again.
backendFailed(i) ==
  /\ thread[i] = "backend failed"
  /\ returns(i, FALSE)
  /\ UNCHANGED interfaces

backendSucceeded(i) ==
  /\ thread[i] = "backend succeeded"
  /\ readAfterBuilds(i, interfaces[i])

backendEnds(i) ==
  /\ \/ backendFailed(i) /\ UNCHANGED crash
     \/ backendSucceeded(i)
  /\ UNCHANGED <<evaluator, input, runner>>

-----------------------------------------------------------------------------
(* The runner's thread *)

\* "errors detected in plugin interface files"
pluginsFail ==
  /\ pc = "start"
  /\ pluginErrors
  /\ pc' = "fatal"
  /\ UNCHANGED <<evaluator, input, interfaces, thread, failed_builds, dep_failure,
                 stop, any_errors, crash>>

start ==
  /\ pc = "start"
  /\ ~pluginErrors
  /\ pc' = "building"
  /\ IF option.no_dep_failures
     THEN E!disableFailurePropagation
     ELSE UNCHANGED evaluator
  /\ UNCHANGED <<input, interfaces, thread, failed_builds, dep_failure, stop,
                 any_errors, crash>>

Calm == pc = "building" /\ pending = <<>> /\ dep_failure = NoItem

dispatch(i) ==
  /\ Calm
  /\ ~stop
  /\ num_running < num_workers
  /\ E!setRunning(i)
  /\ thread' = [thread EXCEPT ![i] = "started"]
  /\ UNCHANGED <<input, interfaces, failed_builds, runner, crash>>

finished(i) ==
  /\ Calm
  /\ \/ /\ thread[i] = "succeeded"
        /\ E!setCompleted(i)
        /\ UNCHANGED <<stop, any_errors>>
     \/ /\ thread[i] = "failed"
        /\ E!setFailed(i)
        /\ any_errors' = TRUE
        /\ stop' = ~option.keep_going
  /\ thread' = [thread EXCEPT ![i] = "none"]
  /\ UNCHANGED <<input, interfaces, failed_builds, dep_failure, pc, crash>>

evaluate ==
  /\ dep_failure = NoItem
  /\ E!evaluate
  /\ LET item == Head(pending)
     IN dep_failure' = IF states'[item] = "depfailed" /\ states[item] # "depfailed"
                       THEN item ELSE NoItem
  /\ UNCHANGED <<input, interfaces, thread, failed_builds, stop, any_errors, pc,
                 crash>>

\* stateChangeCallback: itemBuilder(dep_failure, filter, true)
stateChangeCallback ==
  /\ dep_failure # NoItem
  /\ failed_builds' = IF dep_failure \in config.forced_failures
                      THEN Append(failed_builds, dep_failure)
                      ELSE failed_builds
  /\ dep_failure' = NoItem
  /\ UNCHANGED <<evaluator, input, interfaces, thread, stop, any_errors, pc,
                 crash>>

buildComplete ==
  /\ Calm
  /\ \A i \in Items : thread[i] = "none" /\ (states[i] = "ready" => stop)
  /\ pc' = "complete"
  /\ UNCHANGED <<evaluator, input, interfaces, thread, failed_builds, dep_failure,
                 stop, any_errors, crash>>

Over ==
  /\ pc \in {"complete", "fatal"} \/ crash # "none"
  /\ UNCHANGED vars

Next ==
  \/ /\ crash = "none"
     /\ \/ \E i \in Items : itemBuilder(i)
        \/ \E i \in Items : backendReturns(i)
        \/ \E i \in Items : backendEnds(i)
        \/ pluginsFail
        \/ start
        \/ \E i \in Items : dispatch(i)
        \/ \E i \in Items : finished(i)
        \/ evaluate
        \/ stateChangeCallback
        \/ buildComplete
  \/ Over

Spec == Init /\ [][Next]_vars

-----------------------------------------------------------------------------
(* Properties *)

IsAssignment(block, name) == block.block = "assignment" /\ block.identifier = name

BlocksOf(t) == UNION {ToSet(t.files[f]) : f \in DOMAIN t.files}
BlocksWithin(blocks) ==
  UNION {ToSet(clause.blocks) :
           clause \in UNION {ToSet(b.clauses) : b \in {b \in blocks : b.block = "if"}}}

AbuildsVariables == {"ABUILD_STDOUT_IS_TTY", "ABUILD_ITEM_NAME", "ABUILD_PLATFORM"}

\* The variables that only items assign, literal words, without conditions.
PlainVariables(t) ==
  {name \in {b.identifier : b \in {b \in BlocksOf(t) : b.block = "assignment"}} :
     /\ \A b \in BlocksOf(t) : IsAssignment(b, name) =>
          \A n \in DOMAIN b.words : \A m \in DOMAIN b.words[n] : b.words[n][m].kind = "string"
     /\ \A b \in BlocksWithin(BlocksOf(t)) : ~IsAssignment(b, name)
     /\ \A plugin \in DOMAIN t.plugin_files :
          \A b \in ToSet(t.plugin_files[plugin]) : ~IsAssignment(b, name)
     /\ \A b \in ToSet(BaseFile) : ~IsAssignment(b, name)
     /\ name \notin AbuildsVariables}

Plain == [name \in DOMAIN Trees |-> PlainVariables(Trees[name])]

\* The trees whose files assign variables unconditionally, and add to LIBS.
OnlyAssigning ==
  {name \in DOMAIN Trees :
     /\ \A b \in BlocksOf(Trees[name]) :
          /\ b.block \in {"assignment", "declaration", "after-build"}
          /\ b.block = "assignment" => b.flag = NoFlag
     /\ "LIBS" \in Plain[name]}

\* An item with its direct and indirect dependencies.
Closure(item) ==
  LET closure[i \in Items] == {i} \cup UNION {closure[dep] : dep \in E!Deps(i)}
  IN closure[item]

\* An item whose backend runs, or that has been built, all of whose
\* dependencies have been built.
IsBuilt(i) == states[i] = "completed" /\ ~option.no_op
HasInterface(i) ==
  /\ crash = "none"
  /\ thread[i] = "backend" \/ IsBuilt(i)
  /\ \A j \in Closure(i) \ {i} : IsBuilt(j)

\* What the item's backend is given.
Value(i, name) == getVariable(getInterface(i), name, tree.flags[i]).value

\* The words of an assignment or an after-build statement are literal ones.
literal(word) == FlattenSeq([n \in DOMAIN word |-> word[n].pieces])

\* File names are relative to the directory of the file they are in.
In(dir, word) == IF isAbsolutePath(word) THEN word ELSE dir \o <<"/">> \o word

AfterBuilds(i) ==
  LET statements == SelectSeq(tree.files[interfaceFile(i)],
                              LAMBDA b : b.block = "after-build")
  IN [n \in DOMAIN statements |->
        In(itemDir(i), literal(statements[n].argument))]

\* The files of item j that item i is given the contents of: an item's
\* backend runs before its own after-build files are read.
FilesFor(i, j) ==
  LET own == IF interfaceFile(j) \in DOMAIN tree.files
             THEN <<interfaceFile(j)>> ELSE <<>>
  IN IF own = <<>> \/ (j = i /\ thread[i] = "backend") THEN own
     ELSE own \o AfterBuilds(j)

Libs(i, j) ==
  UNION {{literal(Head(b.words)) :
            b \in {b \in ToSet(tree.files[f]) : IsAssignment(b, "LIBS")}} :
         f \in ToSet(FilesFor(i, j))}

LibsComplete(i, libs) ==
  LET Before(a, b) == \E m, n \in DOMAIN libs : m < n /\ libs[m] = a /\ libs[n] = b
  IN /\ ToSet(libs) = UNION {Libs(i, j) : j \in Closure(i)}
     /\ \A j \in Closure(i) : \A k \in Closure(j) :
          \A a \in Libs(i, j) \ Libs(i, k), b \in Libs(i, k) : Before(a, b)

\* With failure propagation, an item's backend runs against an interface
\* that contains what the interface and after-build files of all its direct
\* and indirect dependencies say, built in whatever order, and a completed
\* item passes on all of that with its own: no import came too early.  And
\* in LIBS, a prepend list, "the dependent library must come before the
\* library on which it depends" (manual.xml:7411).
InterfacesComplete ==
  (propagate_failure /\ config.tree \in OnlyAssigning) =>
    \A i \in {j \in Items : HasInterface(j)} : LibsComplete(i, Value(i, "LIBS"))

-----------------------------------------------------------------------------
(* Reading the files of all dependencies, one after the other *)

\* An item's statements in the order in which they are read.
Statements(i, j) ==
  LET files == FilesFor(i, j)
      Of(f) == [n \in DOMAIN tree.files[f] |->
                  [block |-> tree.files[f][n], dir |-> dirname(f), item |-> j]]
  IN FlattenSeq([n \in DOMAIN files |-> Of(files[n])])

IsReset(block) == block.block = "reset" /\ ~block.negate

\* A reset that is not the first one after a no-reset of that variable.
Clears(statements, n, name) ==
  /\ IsReset(statements[n].block)
  /\ statements[n].block.identifier \in {name, ""}
  /\ \A m \in 1..(n - 1) :
       LET block == statements[m].block
       IN (block.block = "reset" /\ block.negate /\ block.identifier = name) =>
            \E k \in (m + 1)..(n - 1) : IsReset(statements[k].block)

\* A statement is read once, on each platform.
Same(s, t) ==
  /\ s.block.location = t.block.location
  /\ tree.platform[s.item] = tree.platform[t.item]

Merge(read, more) ==
  read \o SelectSeq(more, LAMBDA s : ~\E n \in DOMAIN read : Same(read[n], s))

\* What an importer sees of what the item itself sees.
Passed(j, read, scope) ==
  CASE scope = "recursive" -> read
    [] scope = "non-recursive" ->
         SelectSeq(read, LAMBDA s : tree.item_name[s.item] = tree.item_name[j])
    [] scope = "local" -> <<>>

\* What an item adds to what it has been passed, or replaces it by.
Added(passed, own, clears, name) ==
  Merge(IF clears = {} THEN passed ELSE <<>>,
        SelectSeq(SubSeq(own, Max(clears \cup {0}) + 1, Len(own)),
                  LAMBDA s : IsAssignment(s.block, name)))

ReadBy(passed, own, name) ==
  Added(passed, own, {n \in DOMAIN own : Clears(own, n, name)}, name)

\* The assignments to the variable that count for the item, of all the
\* items' statements.
AssignmentsRead(i, statements, name, scope) ==
  LET read[j \in Items] ==
        ReadBy(FoldLeft(LAMBDA acc, dep : Merge(acc, Passed(dep, read[dep], scope)),
                        <<>>, graph.deps[j]),
               statements[j], name)
  IN SelectSeq(read[i],
       LAMBDA s : \/ s.block.flag = NoFlag
                  \/ <<tree.item_name[s.item], s.block.flag>> \in tree.flags[i])

WordsOf(s, type) ==
  [n \in DOMAIN s.block.words |->
     IF type = "filename" THEN In(s.dir, literal(s.block.words[n]))
     ELSE literal(s.block.words[n])]

\* The assignments of which one makes the value of a scalar: the last
\* override, the normal one, or else the first fallback.  Where the code
\* departs from that (a normal assignment that comes after an override
\* replaces it, an import turns fallbacks around, and a fallback hides a
\* normal assignment from the check for another one), it is one of those.
Candidates(read) ==
  LET Of(type) == {n \in DOMAIN read : read[n].block.assignment_type = type}
  IN CASE Of("override") # {} ->
            LET last == Max(Of("override"))
            IN IF \E n \in Of("normal") : n > Min(Of("override"))
               THEN Of("normal") \cup Of("override") ELSE {last}
       [] Of("override") = {} /\ Of("normal") # {} -> Of("normal")
       [] Of("override") = {} /\ Of("normal") = {} -> Of("fallback")

ValueAsDocumented(variable, read) ==
  LET Values(list) == FlattenSeq([n \in DOMAIN list |-> WordsOf(list[n], variable.type)])
  IN /\ variable.initialized <=> read # <<>>
     /\ read # <<>> =>
          CASE variable.list_type = "append" -> variable.value = Values(read)
            [] variable.list_type = "prepend" -> variable.value = Values(Reverse(read))
            [] variable.list_type = "scalar" ->
                 \E n \in Candidates(read) : variable.value = WordsOf(read[n], variable.type)

ValuesAsDocumented(i, interface, statements) ==
  \A name \in Plain[config.tree] \cap getVariableNames(interface) :
    ValueAsDocumented(
      getVariable(interface, name, tree.flags[i]),
      AssignmentsRead(i, statements, name, interface.symbol_table[name].declaration.scope))

\* The assignments of a clause that have been made for the item.
Made(i, interface, clause) ==
  SelectSeq(clause.blocks,
    LAMBDA b :
      /\ b.block = "assignment"
      /\ \E a \in ToSet(interface.symbol_table[b.identifier].assignment_history) :
           a.location = b.location /\ a.item_platform = tree.platform[i])
AllMade(made, clause) == made = SelectSeq(clause.blocks, LAMBDA b : b.block = "assignment")

\* Of an if block, at most one clause is carried out, and it is carried out
\* as a whole; with an else, one is.
ClauseAsDocumented(made, clauses) ==
  \/ \E n \in DOMAIN clauses :
       /\ AllMade(made[n], clauses[n])
       /\ \A m \in DOMAIN clauses \ {n} : made[m] = <<>>
  \/ /\ \A n \in DOMAIN clauses : made[n] = <<>>
     /\ Last(clauses).conditional # NoConditional

ClausesAsDocumented(i, interface, statements) ==
  \A b \in {s.block : s \in ToSet(statements)} : b.block = "if" =>
    ClauseAsDocumented([n \in DOMAIN b.clauses |-> Made(i, interface, b.clauses[n])], b.clauses)

\* So are the variables that abuild itself assigns.
NameAsDocumented(i, statements) ==
  \/ Value(i, "ABUILD_ITEM_NAME") = << <<tree.item_name[i]>> >>
  \/ \E n \in DOMAIN statements : Clears(statements, n, "ABUILD_ITEM_NAME")

InterfaceAsDocumented(i, interface, statements) ==
  /\ ValuesAsDocumented(i, interface, statements)
  /\ ClausesAsDocumented(i, interface, statements[i])
  /\ NameAsDocumented(i, statements[i])

\* abuild reads an interface file once for each platform and passes on what
\* it found, but the effect is that it "recursively reads the interface
\* files of all its dependencies" (manual.xml:17154): an item is given the
\* words that they assign, in the order of their dependencies, each
\* statement once however many paths lead to it, and only those that the
\* variable's scope, resets, and the item's flags leave in effect.
InterfacesAsDocumented ==
  \A i \in {j \in Items : HasInterface(j)} :
    InterfaceAsDocumented(i, getInterface(i), [j \in Items |-> Statements(i, j)])

\* "This function must not return failure without adding the failed
\* builder_string to the failed_builds list" (Abuild-build.cc:759): the list
\* from which the final summary is made contains every item whose build
\* failed or was suppressed, and no other, once each, and is empty exactly
\* if the build succeeds, as Abuild-init.cc:279 asserts.
FailuresReported ==
  /\ \A m, n \in DOMAIN failed_builds :
       failed_builds[m] = failed_builds[n] => m = n
  /\ \A i \in Items :
       (\E n \in DOMAIN failed_builds : failed_builds[n] = i) <=>
         \/ thread[i] = "failed"
         \/ states[i] = "failed"
         \/ /\ states[i] = "depfailed"
            /\ i \in config.forced_failures
            /\ dep_failure # i
  /\ pc = "complete" => (any_errors <=> failed_builds # <<>>)

\* An interface that is imported exists, because "items become ready once
\* all their dependencies have completed whether successfully or otherwise"
\* (DependencyEvaluator.hh:54).
ImportsExist == crash # "missing interface"

\* With failure propagation that is so: getInterface is only called for an
\* item that has been built, and whose thread has left its interface there.
ImportsReady == propagate_failure => ImportsExist

\* An item's interface is the work of its own thread, between its start and
\* its end: the interface of any other item stays what it is, whoever
\* imports it and whenever, and an item that is not built never gets one.
InterfacesKept ==
  [][/\ DOMAIN interfaces \subseteq DOMAIN interfaces'
     /\ \A i \in DOMAIN interfaces' :
          states[i] # "running" =>
            i \in DOMAIN interfaces /\ interfaces'[i] = interfaces[i]]_vars

\* A build, whatever itemBuilder comes across in an item's files, is still
\* what BuildSchedule says of a parallel build: an item has its outcome once
\* itemBuilder has returned, none is given to a thread before its
\* dependencies have succeeded (without failure propagation, before all of
\* them have an outcome or one has failed), and a build that is complete has
\* left out nothing but for an error it was to stop at.  A build that dies
\* does not return.
Schedule ==
  INSTANCE BuildSchedule WITH
    stop_on_first_error <- ~option.keep_going,
    propagate_failure <- ~option.no_dep_failures,
    executing <- {i \in Items : /\ states[i] = "running"
                                /\ thread[i] \notin {"succeeded", "failed"}},
    outcome <- [i \in Items |->
                  CASE states[i] = "completed" \/ thread[i] = "succeeded" -> "succeeded"
                    [] states[i] = "failed" \/ thread[i] = "failed" -> "failed"
                    [] states[i] = "depfailed" -> "skipped"
                    [] OTHER -> "none"],
    returned <- pc = "complete"

ImplementsSchedule == Schedule!Spec
=============================================================================
