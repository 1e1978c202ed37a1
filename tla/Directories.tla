----------------------------- MODULE Directories -----------------------------
(***************************************************************************)
(* From the command to what the local forest declares: parseArgv, and      *)
(* readConfigs, findTop and traverseItems in Abuild-traverse.cc.           *)
(*                                                                         *)
(* First the way up is climbed to the directory that is the root of the    *)
(* forest, and then all directories that its Abuild.conf files list are    *)
(* visited, breadth first.  An Abuild.conf is read once: what was found    *)
(* out about the directory on the way up stays as it is on the way down.   *)
(*                                                                         *)
(* An input gives the local forest by its directories, or else all forests *)
(* by what they declare.                                                   *)
(***************************************************************************)
EXTENDS Cleaning

CONSTANTS
  Roots,          \* the roots of all forests there are
  Local,          \* the root of the local forest
  Inputs          \* a sequence of sets of inputs, see `input`

ASSUME LocalIsARoot == Local \in Roots

VARIABLES
  input,          \* directories: a file system, or empty
                  \* start: the directory abuild is started in
                  \* asked: the command, as in CommandContract
                  \* argv: its words
                  \* declared: see below
  options,        \* what parseArgv makes of the command
  declared,       \* by root, backing: the backing areas in its Abuild.backing
                  \* deleted_trees, deleted_items: likewise
                  \* trees, items: what its Abuild.conf files declare
                  \* this, local_tree: the item and the tree of the directory
                  \* that abuild is started in, in sets of at most one
  walk,           \* top: the root that was found, in a set of at most one
                  \* dirs: the directories to visit
                  \* parent_dirs: the directory that each was found from
                  \* dir_trees: the tree of each, in a set of at most one
                  \* configs: what was read so far
  stack,          \* active calls of traverseForests, innermost last
  errors,         \* some error has been reported
  outcome         \* "starting"; "running"; "refused": the command was wrong;
                  \* "fatal": exit at once; "aborted": a failed assertion or a
                  \* null pointer; "failed"; "done"

reading == <<input, options, declared, walk>>

fs == input.directories

Frame(root) == [root |-> root, todo |-> declared.backing[root], kept |-> <<>>]

InitDirectories ==
  /\ \E n \in DOMAIN Inputs : input \in Inputs[n]
  /\ declared = input.declared
  /\ options = NoSettings
  /\ walk = [top |-> {}, parent_dirs |-> <<>>, dir_trees |-> <<>>, configs |-> <<>>, dirs |-> <<>>]
  /\ stack = <<[root |-> Local, todo |-> input.declared.backing[Local], kept |-> <<>>]>>
  /\ errors = FALSE
  /\ outcome = "starting"

\* The last word asks for help or for the version, or the only one for where
\* abuild is installed, and no other word is looked at.  Options of one letter
\* have one dash here and the others two: which form a word has is not kept.
shortCircuits(argv) ==
  /\ argv # <<>>
  /\ Last(argv).attached = <<>>
  /\ \/ Last(argv).option \in {"help", "H", "version", "V"}
     \/ Len(argv) = 1 /\ Last(argv).option = "print-abuild-top"

showAndStop ==
  /\ outcome = "starting"
  /\ shortCircuits(input.argv)
  /\ outcome' = "done"
  /\ UNCHANGED <<reading, stack, errors>>

\* runInternal, up to readConfigs
startUp ==
  /\ outcome = "starting"
  /\ ~shortCircuits(input.argv)
  /\ options' = parseArgv(fs, input.start, input.argv)
  /\ outcome' = IF ~options'.valid THEN "refused"
                ELSE IF helpOnly(options') THEN "done" ELSE "running"
  /\ walk' = [walk EXCEPT !.dirs = IF DOMAIN fs = {} THEN <<>> ELSE <<options'.this_config_dir>>]
  /\ UNCHANGED <<input, declared, stack, errors>>

on(option) == option \in options.flags

read == walk.dirs = <<>>
dir == Head(walk.dirs)

readConfig(given) ==
  IF dir \in DOMAIN walk.configs THEN walk.configs[dir] ELSE ItemConfig(fs, dir, given)

withConfig(config) == [walk EXCEPT !.configs = (dir :> config) @@ @]

-----------------------------------------------------------------------------
(* Up *)

climbing == outcome = "running" /\ ~read /\ walk.top = {}

\* "Abuild.conf not found", or "unable to find root of local forest"
rootless(config) == ~config.is_forest_root /\ config.parent_dir = {}

noTop ==
  /\ climbing
  /\ isFile(fs, dir, Conf) => rootless(readConfig({}))
  /\ errors' = TRUE
  /\ outcome' = "fatal"
  /\ UNCHANGED <<reading, stack>>

thisItem(config) == IF dir = options.this_config_dir THEN config.name ELSE declared.this

toParent(config) ==
  /\ ~config.is_forest_root
  /\ config.parent_dir # {}
  /\ declared' = [declared EXCEPT !.this = thisItem(config)]
  /\ walk' = [withConfig(config) EXCEPT !.dirs = <<CHOOSE p \in config.parent_dir : TRUE>>]
  /\ errors' = (errors \/ ~config.ok)

stepUp ==
  /\ climbing
  /\ isFile(fs, dir, Conf)
  /\ toParent(readConfig({}))
  /\ UNCHANGED <<input, options, stack, outcome>>

\* appendBackingData, at the beginning of traverseItems
backingData ==
  IF isFile(fs, dir, Backing) THEN BackingConfig(fs[dir].backing)
  ELSE [areas |-> <<>>, deleted_items |-> {}, deleted_trees |-> {}, ok |-> TRUE]

rootFound(config, backing) ==
  /\ config.is_forest_root
  /\ declared' = [declared EXCEPT !.this = thisItem(config),
                                  !.backing[Local] = backing.areas,
                                  !.deleted_items[Local] = backing.deleted_items,
                                  !.deleted_trees[Local] = backing.deleted_trees]
  /\ walk' = [withConfig(config) EXCEPT !.top = {dir}]
  /\ errors' = (errors \/ ~config.ok \/ ~backing.ok)
  /\ stack' = <<[root |-> Local, todo |-> backing.areas, kept |-> <<>>]>>

findTop ==
  /\ climbing
  /\ isFile(fs, dir, Conf)
  /\ rootFound(readConfig({}), backingData)
  /\ UNCHANGED <<input, options, outcome>>

-----------------------------------------------------------------------------
(* Down *)

parent_dir == IF dir \in DOMAIN walk.parent_dirs THEN {walk.parent_dirs[dir]} ELSE {}

treeOf(config) ==
  IF config.is_root THEN config.tree_name ELSE UNION {walk.dir_trees[p] : p \in parent_dir}

TreeOfConfig(config) ==
  [dir |-> config.dir, deps |-> config.tree_deps, optional |-> config.optional_tree_deps,
   traits |-> config.supported_traits, plugins |-> config.plugins,
   global_plugins |-> config.global_plugins]

ItemOfConfig(config, tree) ==
  [dir |-> config.dir, tree |-> tree, deps |-> config.deps, optional |-> config.optional_deps,
   build_also |-> config.build_also, traits |-> config.traits, flags |-> config.flags,
   visible_to |-> config.visible_to, supported_flags |-> config.supported_flags,
   platform_types |-> config.platform_types]

\* addTreeToForest and addItemToForest: the first with a name is kept, and
\* another one is an error unless it is the same directory again.
elsewhere(table, names) == \E n \in names \cap DOMAIN table : table[n].dir # dir

add(table, names, conf) == [n \in names \ DOMAIN table |-> conf] @@ table

\* When the last directory has been visited, nothing is looked up again.
visited(config, tree, found) ==
  IF Tail(walk.dirs) \o found = <<>>
  THEN [walk EXCEPT !.dirs = <<>>, !.parent_dirs = <<>>, !.dir_trees = <<>>, !.configs = <<>>]
  ELSE [walk EXCEPT !.dirs = Tail(@) \o found,
                    !.parent_dirs = [p \in Range(found) |-> dir] @@ @,
                    !.dir_trees = (dir :> tree) @@ @,
                    !.configs = (dir :> config) @@ @]

childValid(config, child) ==
  LET path == dir \o child.path
      has_backing_area == \A top \in walk.top : isFile(fs, top, Backing)
  IN IF path \in DOMAIN fs THEN isFile(fs, path, Conf)
     ELSE has_backing_area \/ child \in config.optional_children

\* A tree without a name is an assertion that fails.
visit(config, tree) ==
  LET trees == declared.trees[Local]
      items == declared.items[Local]
      tree_names == IF config.is_root THEN config.tree_name ELSE {}
      paths == [n \in DOMAIN config.children |-> dir \o config.children[n].path]
      found == SelectSeq(paths, LAMBDA p : isFile(fs, p, Conf))
  IN IF config.is_root /\ config.tree_name = {}
     THEN outcome' = "aborted" /\ UNCHANGED <<reading, errors>>
     ELSE /\ declared' = [declared EXCEPT
               !.trees[Local] = add(@, tree_names, TreeOfConfig(config)),
               !.items[Local] = IF tree = {} THEN @
                 ELSE add(@, config.name, ItemOfConfig(config, CHOOSE t \in tree : TRUE)),
               !.local_tree = IF dir = options.this_config_dir THEN tree ELSE @]
          /\ walk' = visited(config, tree, found)
          /\ errors' = \/ errors \/ ~config.ok
                       \/ elsewhere(trees, tree_names)
                       \/ elsewhere(items, config.name)
                       \/ tree = {} /\ ~(config.name \subseteq DOMAIN items)
                       \/ \E n \in DOMAIN config.children :
                            ~childValid(config, config.children[n])
          /\ UNCHANGED <<input, options, outcome>>

visitInTree(config) == visit(config, treeOf(config))

visitDirectory ==
  /\ outcome = "running"
  /\ ~read
  /\ walk.top # {}
  /\ visitInTree(readConfig(parent_dir))
  /\ UNCHANGED stack

readDirectories == showAndStop \/ startUp \/ noTop \/ stepUp \/ findTop \/ visitDirectory

-----------------------------------------------------------------------------
(* Properties *)

Contract == INSTANCE ConfigContract

\* The local forest has been read, and nothing else has been done yet.
JustRead == read /\ walk.top # {} /\ stack = <<Frame(Local)>>

\* Where the way up from a directory ends
Climb(path) ==
  LET at[n \in 0..Len(path)] ==
        IF n = 0 THEN {path}
        ELSE UNION {LET parent == findParentDir(fs, p) IN IF parent = {} THEN {p} ELSE parent :
                      p \in at[n - 1]}
  IN at[Len(path)]

\* An error is reported about the files of a forest if, and only if, they break
\* a rule of the manual.  If they do not, the forest declares what the manual
\* says that they mean, and whichever of its directories abuild is started in,
\* the way up ends at the same root (manual.xml:1926).
FilesAsDocumented ==
  JustRead =>
    \A top \in walk.top :
      /\ ~errors <=> Contract!ForestRight(fs, top)
      /\ Contract!IsTop(fs, top)
      /\ ~errors =>
           /\ declared.backing[Local] = Contract!BackingAreas(fs, top)
           /\ declared.trees[Local] = Contract!TreesFound(fs, top)
           /\ declared.items[Local] = Contract!ItemsFound(fs, top)
           /\ options.this_config_dir \in Contract!Forest(fs, top)
           /\ \A path \in Contract!Forest(fs, top) : Climb(path) = {top}

\* The one way to read files that ends in a failed assertion
treeWithoutName(path) ==
  Contract!Value(fs[path].conf, "tree-name") = <<>> /\ Contract!KeysAt(fs, path) \cap {"tree-name"} # {}
=============================================================================
