---------------------------- MODULE SmallForests ----------------------------
(* File systems with a local forest at /t, of at most five directories:
   its directories and who lists whom, the words of each key, and the lines
   of a file. *)
EXTENDS Naturals, Sequences, FiniteSets, SequencesExt, TLC

Conf == "Abuild.conf"

Name(n) == [kind |-> "name", name |-> n]
OptionWord(which) == [kind |-> which]
NamedOption(which, n) == [kind |-> which, name |-> n]
Child(path) == [kind |-> "child", path |-> path, form |-> "plain"]
Scope(path) == [kind |-> "scope", path |-> path, star |-> TRUE]
Area(root) == [kind |-> "area", root |-> root]
Other == [kind |-> "other", name |-> 0]
Optional == OptionWord("optional")

Key(key, words) == [comment |-> FALSE, key |-> {key}, words |-> words, more |-> FALSE]
Line(words) == [comment |-> FALSE, key |-> {}, words |-> words, more |-> FALSE]
More(line) == [line EXCEPT !.more = TRUE]
Comment == [comment |-> TRUE, key |-> {}, words |-> <<>>, more |-> FALSE]

Directory(files, conf) == [files |-> files, conf |-> conf, backing |-> <<>>, symlink |-> FALSE]
WithConf(conf) == Directory({Conf}, conf)
Empty == Directory({}, <<>>)

T == <<"t">>
X == <<"t", "x">>
Y == <<"t", "x", "y">>
Z == <<"t", "z">>

-----------------------------------------------------------------------------
(* Structure: tree 1 at /t, with item 1 in /t/x and item 2 in /t/x/y *)

Above == {Empty, WithConf(<<Key("child-dirs", <<Child(T)>>)>>),
          WithConf(<<Key("child-dirs", <<Child(<<"z">>)>>)>>),
          WithConf(<<Key("tree-name", <<Name(3)>>), Key("child-dirs", <<Child(T)>>)>>),
          WithConf(<<Line(<<Other>>)>>)}

x == <<"x">>
xy == <<"x", "y">>
z == <<"z">>
TopLists ==
  {<<>>, <<Child(x)>>, <<Child(xy)>>, <<Child(x), Child(xy)>>, <<Child(x), Child(z)>>,
   <<Child(x), Child(z), Optional>>, <<Child(x), Optional, Child(x)>>, <<Optional, Child(x)>>,
   <<Child(x), [Child(z) EXCEPT !.form = "slash"], Optional>>,
   <<[Child(x) EXCEPT !.form = "slash"]>>, <<[Child(x) EXCEPT !.form = "absolute"]>>,
   <<Child(x), [Child(z) EXCEPT !.form = "absolute"], Optional>>,
   <<Child(<<"..", "t", "x">>)>>, <<Child(x), Other>>}

TopKeys ==
  {<<>>, <<Key("tree-name", <<>>)>>, <<Key("tree-name", <<Name(1)>>)>>,
   <<Key("tree-name", <<Name(1)>>), Key("name", <<Name(1)>>)>>,
   <<Key("tree-name", <<Name(1)>>), Key("name", <<Name(4)>>)>>}

XKeys ==
  {<<Key("name", <<Name(1)>>)>>,
   <<Key("name", <<Name(1)>>), Key("tree-name", <<Name(2)>>)>>, <<Key("tree-name", <<Name(1)>>)>>,
   <<>>}

XLists == {<<>>, <<Key("child-dirs", <<Child(<<"y">>)>>)>>}

YConf == <<Key("name", <<Name(2)>>), Key("deps", <<Name(1), Optional>>)>>

FewLists == {<<>>, <<Child(x)>>, <<Child(x), Child(xy)>>, <<[Child(x) EXCEPT !.form = "slash"]>>}

WithLists(aboves, lists) ==
  {(<<>> :> above) @@ (T :> WithConf(keys \o <<Key("child-dirs", children)>>))
     @@ (X :> WithConf(xkeys \o xlist)) @@ (Y :> WithConf(YConf)) :
     above \in aboves, keys \in TopKeys, children \in lists, xkeys \in XKeys, xlist \in XLists}

Structures == WithLists(Above, FewLists) \cup WithLists({Empty}, TopLists)

Plainly ==
  (<<>> :> Empty)
    @@ (T :> WithConf(<<Key("tree-name", <<Name(1)>>), Key("child-dirs", <<Child(x)>>)>>))
    @@ (X :> WithConf(<<Key("name", <<Name(1)>>), Key("child-dirs", <<Child(<<"y">>)>>)>>))
    @@ (Y :> WithConf(YConf))

\* Output directories, something in one of them, and directories that are not
\* output directories for want of the mark or the prefix
YP == <<"t", "x", "y", "abuild-p">>
Marked == Directory({".abuild"}, <<>>)

WithOutput ==
  [Plainly EXCEPT ![T].conf = @ \o <<Key("supported-traits", <<Name(1)>>)>>,
                  ![Y].conf = @ \o <<Key("traits", <<Name(1)>>)>>]
    @@ (<<"t", "abuild-p">> :> Empty) @@ (<<"t", "abuild-q">> :> Marked)
    @@ (<<"t", "x", "abuild-p">> :> Marked) @@ (<<"t", "x", "other">> :> Marked)
    @@ (YP :> Marked) @@ (<<"t", "x", "y", "abuild-p", "sub">> :> Empty)
    @@ (<<"t", "x", "y", "abuild-q">> :> Marked)

\* Something is missing, a link, or a file where it does not belong.
BackingFiles ==
  {<<>>, <<Key("backing-areas", <<>>)>>, <<Key("backing-areas", <<Area("B")>>)>>,
   <<Key("backing-areas", <<Area("B"), Area("C")>>), Key("deleted-items", <<Name(4)>>)>>,
   <<Key("deleted-trees", <<Name(3)>>), Key("backing-areas", <<Area("B")>>)>>,
   <<Key("backing-areas", <<Area("B")>>), Key("name", <<Name(1)>>)>>,
   <<Key("backing-areas", <<Other, Area("B")>>)>>}

Damaged ==
  {[Plainly EXCEPT ![p].symlink = TRUE] : p \in {T, X, Y}}
  \cup {[Plainly EXCEPT ![p] = Empty] : p \in {T, X, Y}}
  \cup {[Plainly EXCEPT ![p].files = @ \cup {"Abuild.backing"}, ![p].backing = backing] :
          p \in {T, X}, backing \in BackingFiles}
  \cup {[d \in (DOMAIN Plainly) \ {Y} |->
           IF d = T THEN [Plainly[T] EXCEPT !.files = @ \cup {"Abuild.backing"}, !.backing = backing]
           ELSE Plainly[d]] : backing \in BackingFiles}

-----------------------------------------------------------------------------
(* Words: trees 1 at /t and 2 at /t/z; item 1 in /t/x, which supports flag 1 and
   refers to tests of trait 1, item 2 in /t/z, and an item in /t/x/y *)

WordForest(ttree, xitem, yitem, yfiles) ==
  (T :> WithConf(ttree \o <<Key("child-dirs", <<Child(x), Child(z)>>)>>))
    @@ (X :> WithConf(xitem \o <<Key("child-dirs", <<Child(<<"y">>)>>)>>))
    @@ (Y :> Directory({Conf} \cup yfiles, yitem))
    @@ (Z :> WithConf(<<Key("tree-name", <<Name(2)>>), Key("name", <<Name(2)>>)>>))

Tree(keys) == <<Key("tree-name", <<Name(1)>>)>> \o keys
Item(n, keys) == <<Key("name", <<Name(n)>>)>> \o keys

Lists(words, length) == UNION {[1..n -> words] : n \in 0..length}

WithItem(ykeys, files) ==
  WordForest(Tree(<<Key("supported-traits", <<Name(1)>>), Key("tree-deps", <<Name(2)>>)>>),
             Item(1, <<Key("supported-flags", <<Name(1)>>)>>), Item(3, ykeys), files)

DepLists ==
  Lists({Name(1), Name(2), NamedOption("flag", 1), NamedOption("platform", 1), Optional}, 3)
  \cup {<<Name(1), NamedOption("platform", 1), Name(2), Name(1)>>,
        <<Name(1), NamedOption("flag", 1), Name(1), NamedOption("flag", 2)>>,
        <<Name(1), NamedOption("selector", 1)>>, <<Name(1), Other>>,
        <<Name(4), Optional, Name(1), NamedOption("flag", 1)>>}

Deps == {WithItem(<<Key("deps", words)>>, {}) : words \in DepLists}

Alsos ==
  {WithItem(<<Key("build-also", words)>>, {}) :
     words \in Lists({Name(1), NamedOption("tree", 1), OptionWord("desc"),
                      OptionWord("with-tree-deps")}, 3)}

TraitLists ==
  {WithItem(<<Key("traits", words)>>, {}) :
     words \in Lists({Name(1), Name(2), NamedOption("item", 1), NamedOption("item", 2), Other}, 3)}

TreeLists ==
  {WordForest(Tree(<<Key(key, words)>>), Item(1, <<>>), Item(3, <<>>), {}) :
     key \in {"tree-deps", "plugins", "supported-traits"},
     words \in Lists({Name(2), Name(4), Optional, OptionWord("global")}, 3)}

FlagLists ==
  {WithItem(<<Key("supported-flags", words)>>, {}) : words \in Lists({Name(1), Name(2), Other}, 2)}

\* Item 5 is a.b and item 6 is a.b.c.
Scopes ==
  {WordForest(Tree(<<>>), Item(1, <<>>), <<Key("name", name), Key("visible-to", words)>>, {}) :
     name \in {<<Name(5)>>, <<Name(6)>>, <<Name(3)>>, <<Other>>, <<Name(5), Name(6)>>, <<>>},
     words \in Lists({Scope(<<>>), Scope(<<"a">>), Scope(<<"a", "b">>), Scope(<<"b">>), Other}, 1)
               \cup {<<[Scope(<<"a">>) EXCEPT !.star = FALSE]>>, <<Scope(<<>>), Scope(<<>>)>>}}
  \cup {WordForest(Tree(<<>>), Item(user, <<Key("deps", <<Name(6)>>)>>),
                   Item(6, <<Key("visible-to", words)>>), {}) :
          user \in {1, 5, 7, 8}, words \in {<<>>, <<Scope(<<>>)>>, <<Scope(<<"a">>)>>}}
  \cup {WordForest(Tree(<<Key("supported-traits", <<Name(1)>>)>>),
                   Item(user, <<Key("traits", <<Name(1), NamedOption("item", 6)>>)>>),
                   Item(6, <<Key("visible-to", words)>>), {}) :
          user \in {1, 5}, words \in {<<>>, <<Scope(<<>>)>>}}

Files ==
  {WordForest(Tree(<<>>), Item(1, <<>>),
              name \o <<Key("platform-types", types), Key("attributes", attributes)>>, files) :
     name \in {<<>>, <<Key("name", <<Name(3)>>)>>},
     types \in {<<>>, <<Name(1)>>, <<Name(1), Name(2)>>, <<Name(1), Name(1)>>},
     attributes \in {<<>>, <<OptionWord("serial")>>, <<OptionWord("serial"), Other>>},
     files \in {{}, {"Abuild.mk"}, {"Abuild.groovy"}, {"Abuild.mk", "Abuild-ant.xml"},
                {"Abuild.interface"}, {"Abuild.interface", "Abuild-ant.properties"}}}
  \cup {WordForest(Tree(<<Key("plugins", <<Name(3)>>)>>), Item(1, <<>>),
                   Item(3, <<Key("platform-types", types)>>), files) :
          types \in {<<>>, <<Name(1)>>}, files \in {{}, {"Abuild.mk"}}}

-----------------------------------------------------------------------------
(* Lines *)

LineForest(lines) == WordForest(Tree(<<>>), Item(1, <<>>), lines, {})

AnyLine ==
  {Comment, Line(<<>>), Line(<<Name(1)>>), More(Line(<<Name(1)>>)), More(Line(<<>>)),
   Key("name", <<Name(3)>>), More(Key("description", <<>>)),
   Key("supported-flags", <<>>), More(Key("supported-flags", <<Name(1)>>)), Key("unknown", <<Name(1)>>)}

LineForests ==
  {LineForest(<<Key("name", <<Name(3)>>)>> \o lines) : lines \in Lists(AnyLine, 3)}
=============================================================================
