---------------------------- MODULE ConfigContract ----------------------------
(***************************************************************************)
(* What the manual says of Abuild.conf files ("The Abuild.conf File",      *)
(* manual.xml:6480, "Build Trees", "Build Forests"): which files are       *)
(* right, and what the trees and items of a forest are then.  A file       *)
(* system is as in ItemConfig.                                             *)
(***************************************************************************)
EXTENDS Naturals, Sequences, FiniteSets, SequencesExt

CONSTANT Components

Keys ==
  {"attributes", "build-also", "child-dirs", "deps", "description", "name", "platform-types",
   "plugins", "supported-flags", "supported-traits", "traits", "tree-deps", "tree-name",
   "visible-to"}
OnlyNamed == {"build-also", "deps", "description", "platform-types", "supported-flags", "traits"}
OnlyRoot == {"plugins", "supported-traits", "tree-deps"}
Build == {"Abuild.mk", "Abuild-ant.properties", "Abuild-ant.xml", "Abuild.groovy"}

-----------------------------------------------------------------------------
(* Lines: "Lines that start with # are ignored.  Long lines may be continued" *)

Text(lines) == {n \in DOMAIN lines : ~lines[n].comment}
Before(lines, n) == {m \in Text(lines) : m < n /\ \A k \in Text(lines) : k < n => k <= m}
Continued(lines, n) == \E m \in Before(lines, n) : lines[m].more
Starts(lines) == {n \in Text(lines) : ~Continued(lines, n)}
Blank(line) == line.key = {} /\ line.words = <<>> /\ ~line.more

FileRight(lines, keys) ==
  /\ \A n \in Starts(lines) : Blank(lines[n]) \/ (lines[n].key # {} /\ lines[n].key \subseteq keys)
  /\ \A m, n \in Starts(lines) : m < n => lines[m].key \cap lines[n].key = {}
  /\ \A n \in Text(lines) : lines[n].more => \E m \in Text(lines) : m > n

KeysOf(lines) == UNION {lines[n].key : n \in Starts(lines)}

\* The words after a key, up to the end of its long line
Value(lines, key) ==
  LET begins == {n \in Starts(lines) : key \in lines[n].key}
      within(n) == \E b \in begins : b <= n /\ \A s \in Starts(lines) : ~(b < s /\ s <= n)
      words(n) == IF n \in begins \/ lines[n].key = {} THEN lines[n].words
                  ELSE <<[kind |-> "other", name |-> 0]>> \o lines[n].words
  IN FlattenSeq([n \in DOMAIN lines |->
                   IF n \in Text(lines) /\ within(n) THEN words(n) ELSE <<>>])

-----------------------------------------------------------------------------
(* Lists of names and the like, each followed by its options *)

\* The place of what an option at place n is for
Owner(words, subjects, n) ==
  LET before == {m \in 1..n : words[m].kind \in subjects}
  IN {m \in before : \A k \in before : k <= m}

ListRight(words, subjects, options) ==
  \A n \in DOMAIN words :
    words[n].kind \in subjects
      \/ (words[n].kind \in options /\ Owner(words, subjects, n) # {})

Places(words, kinds) == {n \in DOMAIN words : words[n].kind \in kinds}

\* The places of the options of some kind for a name
OptionsFor(words, name, kind) ==
  {n \in Places(words, {kind}) : \E m \in Owner(words, {"name"}, n) : words[m].name = name}

Names(words, places) == {words[n].name : n \in places}
Listed(words) == Names(words, Places(words, {"name"}))
With(words, kind) == {d \in Listed(words) : OptionsFor(words, d, kind) # {}}

\* By name, what the options of some kind say
Table(words, names, kind) == [d \in names |-> Names(words, OptionsFor(words, d, kind))]

\* At most one platform is given for a dependency, and none for one that is
\* repeated.
PlatformsRight(words) ==
  \A d \in Listed(words) :
    LET given == OptionsFor(words, d, "platform")
        places == {n \in Places(words, {"name"}) : words[n].name = d}
    IN Cardinality(given) <= IF Cardinality(places) = 1 THEN 1 ELSE 0

Also(words) ==
  LET entries == {"name", "tree"}
      has(n, option) == \E o \in Places(words, {option}) : n \in Owner(words, entries, o)
  IN {[is_tree |-> words[n].kind = "tree", name |-> words[n].name,
       desc |-> has(n, "desc"), with_tree_deps |-> has(n, "with-tree-deps")] :
        n \in Places(words, entries)}

\* Any word of a list of plugins that is not an option is the name of one.
AsPlugins(words) ==
  [n \in DOMAIN words |->
     IF words[n].kind \in {"name", "global"} THEN words[n] ELSE [kind |-> "name", name |-> 0]]

NamesRight(words) == IsInjective(words) /\ ListRight(words, {"name"}, {})

-----------------------------------------------------------------------------
(* Directories *)

HasConf(fs, path) == path \in DOMAIN fs /\ "Abuild.conf" \in fs[path].files
ValueAt(fs, path, key) == Value(fs[path].conf, key)
KeysAt(fs, path) == KeysOf(fs[path].conf)

Children(fs, path) ==
  LET words == ValueAt(fs, path, "child-dirs")
  IN {path \o words[n].path : n \in Places(words, {"child"})}

\* The directories of the forest with some root
Forest(fs, top) ==
  LET confs == {p \in DOMAIN fs : HasConf(fs, p)}
      found[n \in 0..Cardinality(confs)] ==
        IF n = 0 THEN {top}
        ELSE LET last == found[n - 1]
             IN last \cup (confs \cap UNION {Children(fs, q) : q \in last})
  IN found[Cardinality(confs)]

Between(upper, lower) == {SubSeq(lower, 1, n) : n \in (Len(upper) + 1)..(Len(lower) - 1)}

\* Everything points down, nothing is skipped, and what is missing may be
\* missing, with the option or in a forest with backing areas.  The option has
\* no effect on a directory that is written with a slash at the end.
ChildrenRight(fs, top, path) ==
  LET words == ValueAt(fs, path, "child-dirs")
  IN /\ ListRight(words, {"child"}, {"optional"})
     /\ \A n \in Places(words, {"child"}) :
          LET child == path \o words[n].path
          IN /\ words[n].form # "absolute"
             /\ \A step \in Range(words[n].path) : step # ".."
             /\ \A p \in Between(path, child) : ~HasConf(fs, p)
             /\ \A p \in Between(path, child) \cup {child} : p \in DOMAIN fs => ~fs[p].symlink
             /\ child \in DOMAIN fs => HasConf(fs, child)
             /\ child \notin DOMAIN fs =>
                  \/ "Abuild.backing" \in fs[top].files
                  \/ \E m \in Places(words, {"child"}) :
                       /\ words[m] = [words[n] EXCEPT !.form = "plain"]
                       /\ \E o \in Places(words, {"optional"}) : m \in Owner(words, {"child"}, o)

NameAt(fs, path, key) == Listed(ValueAt(fs, path, key))

VisibleRight(fs, path) ==
  LET words == ValueAt(fs, path, "visible-to")
  IN words # <<>> =>
       /\ Len(words) = 1
       /\ words[1].kind = "scope"
       /\ words[1].star
       /\ \E n \in NameAt(fs, path, "name") :
            \E k \in 0..(Len(Components[n]) - 2) : words[1].path = SubSeq(Components[n], 1, k)

FilesRight(fs, path) ==
  LET build == fs[path].files \cap Build
      types == ValueAt(fs, path, "platform-types")
      serial == ValueAt(fs, path, "attributes")
  IN /\ Cardinality(build) <= 1
     /\ types # <<>> <=> build # {} \/ "Abuild.interface" \in fs[path].files
     /\ NamesRight(types)
     /\ types # <<>> => NameAt(fs, path, "name") # {}
     /\ ListRight(serial, {"serial"}, {})
     /\ serial # <<>> => build = {"Abuild.mk"}

ConfRight(fs, top, path) ==
  LET value(key) == ValueAt(fs, path, key)
  IN /\ FileRight(fs[path].conf, Keys)
     /\ \A key \in {"name", "tree-name"} : NamesRight(value(key)) /\ Len(value(key)) <= 1
     /\ NameAt(fs, path, "name") = {} => KeysAt(fs, path) \cap OnlyNamed = {}
     /\ "tree-name" \notin KeysAt(fs, path) => KeysAt(fs, path) \cap OnlyRoot = {}
     /\ path # top => "Abuild.backing" \notin fs[path].files
     /\ ChildrenRight(fs, top, path)
     /\ ListRight(value("deps"), {"name"}, {"flag", "platform", "optional"})
     /\ PlatformsRight(value("deps"))
     /\ ListRight(value("tree-deps"), {"name"}, {"optional"})
     /\ ListRight(value("build-also"), {"name", "tree"}, {"desc", "with-tree-deps"})
     /\ \A also \in Also(value("build-also")) : also.with_tree_deps => also.is_tree
     /\ ListRight(value("traits"), {"name"}, {"item"})
     /\ ListRight(AsPlugins(value("plugins")), {"name"}, {"global"})
     /\ IsInjective(SelectSeq(AsPlugins(value("plugins")), LAMBDA w : w.kind = "name"))
     /\ NamesRight(value("supported-flags"))
     /\ NamesRight(value("supported-traits"))
     /\ VisibleRight(fs, path)
     /\ FilesRight(fs, path)

-----------------------------------------------------------------------------
(* Forests *)

TreeRoots(fs, top) == {p \in Forest(fs, top) : "tree-name" \in KeysAt(fs, p)}

\* The root of the tree that a directory is in: the nearest one above
TreeRootOf(fs, top, path) ==
  LET above == {p \in TreeRoots(fs, top) : IsPrefix(p, path)}
  IN {p \in above : \A q \in above : Len(q) <= Len(p)}

Named(fs, top, key) == {p \in Forest(fs, top) : NameAt(fs, p, key) # {}}

BackingKeys == {"backing-areas", "deleted-items", "deleted-trees"}
BackingAreas(fs, top) ==
  LET areas == Value(fs[top].backing, "backing-areas")
  IN IF "Abuild.backing" \in fs[top].files THEN [n \in DOMAIN areas |-> areas[n].root] ELSE <<>>

BackingRight(fs, top) ==
  "Abuild.backing" \in fs[top].files =>
    /\ FileRight(fs[top].backing, BackingKeys)
    /\ Value(fs[top].backing, "backing-areas") # <<>>
    /\ ListRight(Value(fs[top].backing, "backing-areas"), {"area"}, {})

\* The nearest file above must be a right file, which does not list the root.
NearestAbove(fs, path) ==
  LET above == {p \in {SubSeq(path, 1, n) : n \in 0..(Len(path) - 1)} : HasConf(fs, p)}
  IN {p \in above : \A q \in above : Len(q) <= Len(p)}

IsTop(fs, top) == \A p \in NearestAbove(fs, top) : top \notin Children(fs, p)

ForestRight(fs, top) ==
  LET forest == Forest(fs, top)
  IN /\ \A p \in NearestAbove(fs, top) : FileRight(fs[p].conf, Keys)
     /\ BackingRight(fs, top)
     /\ \A p \in forest : ConfRight(fs, top, p)
     /\ \A key \in {"name", "tree-name"} : \A p, q \in Named(fs, top, key) :
          p # q => NameAt(fs, p, key) \cap NameAt(fs, q, key) = {}
     /\ \A p \in Named(fs, top, "name") : TreeRootOf(fs, top, p) # {}

TreesFound(fs, top) ==
  LET at(t) == CHOOSE p \in Named(fs, top, "tree-name") : t \in NameAt(fs, p, "tree-name")
      tree(path) ==
        LET value(key) == ValueAt(fs, path, key)
        IN [dir |-> path, deps |-> Listed(value("tree-deps")),
            optional |-> With(value("tree-deps"), "optional"),
            traits |-> Listed(value("supported-traits")),
            plugins |-> Listed(AsPlugins(value("plugins"))),
            global_plugins |-> With(AsPlugins(value("plugins")), "global")]
  IN [t \in UNION {NameAt(fs, p, "tree-name") : p \in Forest(fs, top)} |-> tree(at(t))]

ItemsFound(fs, top) ==
  LET at(n) == CHOOSE p \in Named(fs, top, "name") : n \in NameAt(fs, p, "name")
      tree(path) == UNION {NameAt(fs, p, "tree-name") : p \in TreeRootOf(fs, top, path)}
      item(path) ==
        LET value(key) == ValueAt(fs, path, key)
            flags == Listed(value("supported-flags"))
            scope == value("visible-to")
        IN [dir |-> path, tree |-> CHOOSE t \in tree(path) : TRUE,
            deps |-> Listed(value("deps")), optional |-> With(value("deps"), "optional"),
            build_also |-> Also(value("build-also")),
            traits |-> Table(value("traits"), Listed(value("traits")), "item"),
            flags |-> Table(value("deps"), With(value("deps"), "flag"), "flag"),
            visible_to |-> IF scope = <<>> THEN {} ELSE {scope[1].path},
            supported_flags |-> flags,
            platform_types |-> Range(value("platform-types"))]
  IN [n \in UNION {NameAt(fs, p, "name") : p \in Forest(fs, top)} |-> item(at(n))]
=============================================================================
