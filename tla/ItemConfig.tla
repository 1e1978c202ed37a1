------------------------------ MODULE ItemConfig ------------------------------
(***************************************************************************)
(* Abuild.conf and Abuild.backing: ItemConfig.cc, FlagData.cc,             *)
(* TraitData.cc and BackingConfig.cc, without compatibility level 1.0.     *)
(*                                                                         *)
(* A file system is a function from paths, sequences of names, to          *)
(* directories:                                                            *)
(*   files: the names of those of abuild's files that are there            *)
(*   conf, backing: the lines of Abuild.conf and Abuild.backing            *)
(*   symlink: the directory is a symbolic link                             *)
(* Names of items, trees, traits, flags and platform types are numbers.    *)
(* Words have a kind and what the kind needs:                              *)
(*   name, tree: a valid name; "tree:" and a name                          *)
(*   flag, platform, item: "-flag=", "-platform=", "-item=" and a name     *)
(*   optional, desc, with-tree-deps, global, serial: the word itself       *)
(*   child: a path, its form: "plain", "slash" (at the end), "absolute"    *)
(*   scope: a path of components, star: with "*" as its last               *)
(*   area: the root of a forest, as the place of a backing area            *)
(*   selector: "-platform=" and an invalid platform selector               *)
(*   other: anything that is not valid anywhere                            *)
(***************************************************************************)
EXTENDS KeyVal, FiniteSets

CONSTANT Components   \* the components of an item's name, "a", "b" for a.b

Conf == "Abuild.conf"
Backing == "Abuild.backing"
Interface == "Abuild.interface"
BuildFiles == <<"Abuild.mk", "Abuild-ant.properties", "Abuild-ant.xml", "Abuild.groovy">>

valid_keys ==
  {"name", "tree-name", "description", "child-dirs", "build-also", "deps", "tree-deps",
   "visible-to", "platform-types", "supported-flags", "supported-traits", "traits",
   "plugins", "attributes"}

isFile(fs, path, file) == path \in DOMAIN fs /\ file \in fs[path].files

\* Util::canonicalizePath
Resolved(path) ==
  FoldLeft(LAMBDA at, step : IF step = ".." THEN IF at = <<>> THEN at ELSE Front(at)
                             ELSE Append(at, step),
           <<>>, path)

readKeyVal(fs, dir) == readFile(fs[dir].conf, {}, valid_keys)

-----------------------------------------------------------------------------
(* Where a directory belongs *)

\* The nearest directory above with an Abuild.conf, in a set of at most one
parentCandidate(fs, dir) ==
  LET above == {n \in 0..(Len(dir) - 1) : isFile(fs, SubSeq(dir, 1, n), Conf)}
  IN {SubSeq(dir, 1, n) : n \in {n \in above : \A m \in above : m <= n}}

\* Mutant: a directory is its parent's child whatever the parent says.
findParentDir_nearest(fs, dir) == parentCandidate(fs, dir)

findParentDir(fs, dir) ==
  {p \in parentCandidate(fs, dir) :
     \E word \in Range(readKeyVal(fs, p).data["child-dirs"]) :
       word.kind = "child" /\ Resolved(p \o word.path) = dir}

\* detectRoot
is_root(kv) == "tree-name" \in kv.explicit_keys
is_child_only(kv) == kv.explicit_keys = {"child-dirs"}
is_forest_root(kv, parent) == parent = {} /\ (is_root(kv) \/ is_child_only(kv))

keysAbsent(kv, keys) == keys \cap kv.explicit_keys = {}

unnamedKeys ==
  {"build-also", "deps", "platform-types", "supported-flags", "traits", "description"}

rootKeys == {"tree-deps", "supported-traits", "plugins"}

checkRoot(fs, dir, kv, parent) ==
  /\ isFile(fs, dir, Backing) => is_forest_root(kv, parent)
  /\ ~is_root(kv) => keysAbsent(kv, rootKeys)

\* A name, in a set of at most one.  0 is any name that is not valid.
isNameValid(words) == Len(words) = 1 /\ words[1].kind = "name"
getName(words) ==
  IF words = <<>> THEN {} ELSE IF isNameValid(words) THEN {words[1].name} ELSE {0}

namesIn(words) == {w.name : w \in {w \in Range(words) : w.kind = "name"}}

checkName(kv) ==
  IF kv.data["name"] = <<>> THEN keysAbsent(kv, unnamedKeys) ELSE isNameValid(kv.data["name"])

checkTreeName(kv) == kv.data["tree-name"] = <<>> \/ isNameValid(kv.data["tree-name"])

-----------------------------------------------------------------------------
(* Lists of words, some of which are options of the word before.  A list is
   read from left to right, and `last` is the name that an option is for, in a
   set of at most one. *)

\* Any word that is not an option is a path.
asChild(word) ==
  IF word.kind \in {"child", "optional"} THEN word
  ELSE [kind |-> "child", path |-> <<"?">>, form |-> "plain"]

stripTrailingSlash(child) == [child EXCEPT !.form = "plain"]

prefixesOf(dir, path) == {dir \o SubSeq(path, 1, n) : n \in 1..Len(path)}

hasSymlinks(fs, dir, path) ==
  \E p \in prefixesOf(dir, path) : p \in DOMAIN fs /\ fs[p].symlink

interleaved(fs, dir, path) ==
  \E p \in prefixesOf(dir, path) \ {dir \o path} : isFile(fs, p, Conf)

readChild(fs, dir, found, word) ==
  CASE word.kind = "optional" ->
         [found EXCEPT !.optional = @ \cup found.last, !.ok = @ /\ found.last # {}]
    [] word.kind # "optional" /\ ".." \in Range(word.path) ->
         [found EXCEPT !.last = {word}, !.ok = FALSE]
    [] OTHER ->
         [found EXCEPT !.children = Append(@, stripTrailingSlash(word)),
                       !.last = {word},
                       !.ok = @ /\ ~hasSymlinks(fs, dir, word.path)
                                /\ ~interleaved(fs, dir, word.path)]

\* Absolute paths are dropped first.
checkChildren(fs, dir, kv) ==
  LET words == [n \in DOMAIN kv.data["child-dirs"] |-> asChild(kv.data["child-dirs"][n])]
      relative == SelectSeq(words, LAMBDA w : w.kind = "child" => w.form # "absolute")
      found == FoldLeft(LAMBDA f, w : readChild(fs, dir, f, w),
                        [children |-> <<>>, optional |-> {}, last |-> {}, ok |-> TRUE], relative)
  IN [found EXCEPT !.ok = @ /\ relative = words]

readBuildAlso(found, word) ==
  LET n == Len(found.also)
  IN CASE word.kind \in {"name", "tree"} ->
            [found EXCEPT !.also = Append(@, [is_tree |-> word.kind = "tree", name |-> word.name,
                                              desc |-> FALSE, with_tree_deps |-> FALSE])]
       [] word.kind = "desc" /\ n > 0 -> [found EXCEPT !.also[n].desc = TRUE]
       [] word.kind = "with-tree-deps" /\ n > 0 /\ found.also[n].is_tree ->
            [found EXCEPT !.also[n].with_tree_deps = TRUE]
       [] OTHER -> [found EXCEPT !.ok = FALSE]

checkBuildAlso(kv) ==
  FoldLeft(readBuildAlso, [also |-> <<>>, ok |-> TRUE], kv.data["build-also"])

\* FlagData::addFlag and TraitData::addTraitItem
addTo(table, name, elements) ==
  (name :> (elements \cup IF name \in DOMAIN table THEN table[name] ELSE {})) @@ table

\* A dependency that was seen already is dropped with a warning, and must not
\* have, nor be given, a platform then.
readDep(found, word) ==
  LET dep == CHOOSE d \in found.last : TRUE
  IN CASE word.kind = "name" ->
            [found EXCEPT !.deps = IF word.name \in Range(@) THEN @ ELSE Append(@, word.name),
                          !.repeated = IF word.name \in Range(found.deps) THEN @ \cup {word.name}
                                       ELSE @,
                          !.last = {word.name},
                          !.ok = @ /\ (word.name \in Range(found.deps) =>
                                         word.name \notin DOMAIN found.platforms)]
       [] word.kind = "flag" /\ found.last # {} ->
            [found EXCEPT !.flags = addTo(@, dep, {word.name})]
       [] word.kind \in {"platform", "selector"} /\ found.last # {} ->
            [found EXCEPT !.platforms = (dep :> word.name) @@ @,
                          !.ok = /\ @
                                 /\ dep \notin DOMAIN found.platforms \cup found.repeated
                                 /\ word.kind = "platform"]
       [] word.kind = "optional" /\ found.last # {} ->
            [found EXCEPT !.optional = @ \cup found.last]
       [] OTHER -> [found EXCEPT !.ok = FALSE]

checkDeps(kv) ==
  FoldLeft(readDep,
           [deps |-> <<>>, optional |-> {}, flags |-> <<>>, platforms |-> <<>>,
            repeated |-> {}, last |-> {}, ok |-> TRUE],
           kv.data["deps"])

readTreeDep(found, word) ==
  CASE word.kind = "name" ->
         [found EXCEPT !.deps = IF word.name \in Range(@) THEN @ ELSE Append(@, word.name),
                       !.last = {word.name}]
    [] word.kind = "optional" /\ found.last # {} ->
         [found EXCEPT !.optional = @ \cup found.last]
    [] OTHER -> [found EXCEPT !.ok = FALSE]

checkTreeDeps(kv) ==
  FoldLeft(readTreeDep, [deps |-> <<>>, optional |-> {}, last |-> {}, ok |-> TRUE],
           kv.data["tree-deps"])

readTrait(found, word) ==
  CASE word.kind = "name" ->
         [found EXCEPT !.traits = addTo(@, word.name, {}), !.last = {word.name}]
    [] word.kind = "item" /\ found.last # {} ->
         [found EXCEPT !.traits = addTo(@, CHOOSE t \in found.last : TRUE, {word.name})]
    [] OTHER -> [found EXCEPT !.ok = FALSE]

checkTraits(kv) ==
  FoldLeft(readTrait, [traits |-> <<>>, last |-> {}, ok |-> TRUE], kv.data["traits"])

\* Words that are no names are plugins, too, with the name 0: that they are
\* unknown is reported later.
readPlugin(found, word) ==
  IF word.kind = "global"
  THEN [found EXCEPT !.global = @ \cup found.last,
                     !.plugins = IF found.last = {} THEN Append(@, 0) ELSE @,
                     !.ok = @ /\ found.last # {}]
  ELSE LET plugin == IF word.kind = "name" THEN word.name ELSE 0
       IN [found EXCEPT !.plugins = Append(@, plugin),
                        !.last = {plugin},
                        !.ok = @ /\ plugin \notin Range(found.plugins)]

checkPlugins(kv) ==
  FoldLeft(readPlugin, [plugins |-> <<>>, global |-> {}, last |-> {}, ok |-> TRUE],
           kv.data["plugins"])

-----------------------------------------------------------------------------
(* Other values *)

\* checkDuplicates and filterInvalidNames
checkNames(words) == [names |-> namesIn(words),
                      ok |-> IsInjective(words) /\ \A n \in DOMAIN words : words[n].kind = "name"]

\* The scope, in a set of at most one.  A scope that is too long or not above
\* the item is reported but kept: the flag that says so is another variable of
\* the same name.
checkVisibleTo(kv) ==
  LET words == kv.data["visible-to"]
      name == getName(kv.data["name"])
      components == IF name = {} THEN <<>> ELSE Components[CHOOSE n \in name : TRUE]
      starred == Len(words) = 1 /\ words[1].kind = "scope" /\ words[1].star
      scoped == words # <<>> /\ Len(components) > 1 /\ starred
  IN [scope |-> IF scoped THEN {words[1].path} ELSE {},
      ok |-> words # <<>> =>
               /\ scoped
               /\ Len(words[1].path) <= Len(components) - 2
               /\ IsPrefix(words[1].path, components)]

\* The first of the build files that is there
buildfiles(files) == SelectSeq(BuildFiles, LAMBDA f : f \in files)

checkPlatforms(kv, files) ==
  LET types == kv.data["platform-types"]
      any_platform_files == Interface \in files \/ buildfiles(files) # <<>>
  IN /\ IF any_platform_files THEN kv.data["name"] # <<>> /\ types # <<>> ELSE types = <<>>
     /\ IsInjective(types)

checkAttributes(kv, files) ==
  \A word \in Range(kv.data["attributes"]) :
    word.kind = "serial" /\ buildfiles(files) # <<>> /\ Head(buildfiles(files)) = "Abuild.mk"

-----------------------------------------------------------------------------
(* The configuration of a directory *)

\* What the constructor and validate make of a file.  parent: the directory's
\* parent, in a set of at most one.  ok: no error was reported.
validate(fs, dir, parent, kv) ==
  LET files == fs[dir].files
      children == checkChildren(fs, dir, kv)
      also == checkBuildAlso(kv)
      deps == checkDeps(kv)
      tree_deps == checkTreeDeps(kv)
      visible == checkVisibleTo(kv)
      flags == checkNames(kv.data["supported-flags"])
      supported == checkNames(kv.data["supported-traits"])
      traits == checkTraits(kv)
      plugins == checkPlugins(kv)
  IN [dir |-> dir, parent_dir |-> parent,
      is_root |-> is_root(kv), is_forest_root |-> is_forest_root(kv, parent),
      name |-> getName(kv.data["name"]), tree_name |-> getName(kv.data["tree-name"]),
      children |-> children.children, optional_children |-> children.optional,
      build_also |-> Range(also.also),
      deps |-> Range(deps.deps), optional_deps |-> deps.optional, flags |-> deps.flags,
      tree_deps |-> Range(tree_deps.deps), optional_tree_deps |-> tree_deps.optional,
      visible_to |-> visible.scope, supported_flags |-> flags.names,
      supported_traits |-> supported.names, traits |-> traits.traits,
      platform_types |-> Range(kv.data["platform-types"]),
      plugins |-> Range(plugins.plugins), global_plugins |-> plugins.global,
      ok |-> /\ kv.ok
             /\ checkName(kv)
             /\ checkTreeName(kv)
             /\ checkRoot(fs, dir, kv, parent)
             /\ children.ok
             /\ also.ok
             /\ deps.ok
             /\ tree_deps.ok
             /\ visible.ok
             /\ Len(buildfiles(files)) <= 1
             /\ checkPlatforms(kv, files)
             /\ flags.ok
             /\ supported.ok
             /\ traits.ok
             /\ plugins.ok
             /\ checkAttributes(kv, files)]

\* given: the parent if the directory was found from there, in a set of at most
\* one.  Otherwise the file of the candidate is read, and may have errors.
ItemConfig(fs, dir, given) ==
  LET parent == IF given # {} THEN given ELSE findParentDir(fs, dir)
      candidates == IF given # {} THEN {} ELSE parentCandidate(fs, dir)
      candidatesRight == \A p \in candidates : readKeyVal(fs, p).ok
  IN [validate(fs, dir, parent, readKeyVal(fs, dir)) EXCEPT !.ok = @ /\ candidatesRight]

-----------------------------------------------------------------------------
(* Abuild.backing.  An area must be a directory with an Abuild.conf, from which
   the root of its forest can be found. *)

BackingConfig(lines) ==
  LET kv == readFile(lines, {"backing-areas"}, {"deleted-items", "deleted-trees"})
      words == kv.data["backing-areas"]
      areas == SelectSeq(words, LAMBDA w : w.kind = "area")
  IN IF ~kv.ok THEN [areas |-> <<>>, deleted_items |-> {}, deleted_trees |-> {}, ok |-> FALSE]
     ELSE [areas |-> [n \in DOMAIN areas |-> areas[n].root],
           deleted_items |-> namesIn(kv.data["deleted-items"]),
           deleted_trees |-> namesIn(kv.data["deleted-trees"]),
           ok |-> areas = words /\ areas # <<>>]
=============================================================================
