----------------------------- MODULE MCBuildSet -----------------------------
(* Inputs of five kinds: how forests back to each other, how references
   cross from one forest to another, build sets of a single forest, the files
   of a forest, and commands. *)
EXTENDS BuildSet, SequencesExt

F == INSTANCE SmallForests
C == INSTANCE SmallCommands

\* A record, which TLC evaluates at once
Each(conf(_)) == [A |-> conf("A"), B |-> conf("B"), C |-> conf("C"), D |-> conf("D")]

None == Each(LAMBDA r : {})
Nothing == Each(LAMBDA r : <<>>)
At(root, x) == [None EXCEPT ![root] = x]

TreeConf(deps, traits) ==
  [dir |-> <<>>, deps |-> deps, optional |-> deps, traits |-> traits, plugins |-> {}, global_plugins |-> {}]

ItemConf(tree, deps) ==
  [dir |-> <<>>, tree |-> tree, deps |-> deps, optional |-> {}, build_also |-> {},
   traits |-> <<>>, flags |-> <<>>, visible_to |-> {}, supported_flags |-> {},
   platform_types |-> {}]

Plain == <<C!Build("all")>>

\* Forests that are given by what they declare
Given(backing_of, deletions, trees_of, items_of, place, command) ==
  [directories |-> <<>>, start |-> <<>>, asked |-> command, argv |-> C!Words(command),
   declared |-> [backing |-> backing_of, deleted_trees |-> deletions.trees,
                 deleted_items |-> deletions.items, trees |-> trees_of, items |-> items_of,
                 this |-> place.this, local_tree |-> place.tree]]

Nowhere == [this |-> {}, tree |-> {}]
AtItem3 == [this |-> {3}, tree |-> {4}]

-----------------------------------------------------------------------------
(* Up to four forests, each with tree 1 and with or without item 1 *)

BackingOf ==
  [A : {<<>>, <<"A", "B">>, <<"B", "C">>, <<"C", "B", "C">>, <<"B", "D">>},
   B : {<<>>, <<"C">>, <<"D">>, <<"C", "D">>},
   C : {<<>>, <<"D">>, <<"A">>},
   D : {<<>>, <<"B">>}]

Shapes(withs, deletions) ==
  {Given(b, [trees |-> None, items |-> deleted], Each(LAMBDA r : 1 :> TreeConf({}, {})),
         Each(LAMBDA r : IF r \in with THEN 1 :> ItemConf(1, {}) ELSE <<>>), Nowhere, Plain) :
     b \in BackingOf, with \in withs, deleted \in deletions}

-----------------------------------------------------------------------------
(* Item 3 depends on 2, and item 2 refers to item 1 in some way.  The forests
   A, B and C have trees 4, 3 and 2, which depend on the trees behind them, and
   copies of items 1 to 3; item 4 is in A. *)

TreeOf == [A |-> 4, B |-> 3, C |-> 2, D |-> 1]
Copied == {<<"A">>, <<"B">>, <<"A", "B">>}
CopiedFar == {<<"A">>, <<"C">>, <<"A", "C">>, <<"B", "C">>}

ConfOf(n, root, refers) ==
  LET base == ItemConf(TreeOf[root], IF n = 3 THEN {2} ELSE {})
  IN IF n # 2 THEN base
     ELSE CASE refers = "dep" -> [base EXCEPT !.deps = {1}]
            [] refers = "optional" -> [base EXCEPT !.deps = {1}, !.optional = {1}]
            [] refers = "also" ->
                 [base EXCEPT !.build_also =
                    {[is_tree |-> FALSE, name |-> 1, desc |-> FALSE, with_tree_deps |-> FALSE]}]
            [] OTHER -> base

Present(conf(_), names) == FoldSet(LAMBDA n, table : (n :> conf(n)) @@ table, <<>>, names)

Crossing(chain, copied, deletions, refs, place, command) ==
  {Given(
    chain, d,
    Each(LAMBDA r :
                TreeOf[r] :> [TreeConf(1..(TreeOf[r] - 1), {}) EXCEPT
                                !.plugins = IF refers = r THEN {1} ELSE {},
                                !.global_plugins = IF refers = "global" /\ r = "B"
                                                   THEN {1} ELSE {}]),
    Each(LAMBDA r : Present(LAMBDA n : ConfOf(n, r, refers),
                            {n \in 1..4 : r \in Range(homes[n])})),
    place, command) :
     homes \in {h \o <<<<"A">>>> :
                  h \in {h \in [1..3 -> copied] : place = Nowhere \/ "A" \in Range(h[3])}},
     d \in deletions, refers \in refs}

NoDeletion == [trees |-> None, items |-> None]
Deletions ==
  {NoDeletion, [trees |-> None, items |-> At("A", {1})],
   [trees |-> None, items |-> At("A", {2})], [trees |-> At("A", {3}), items |-> None]}

Near(place, command) ==
  Crossing([A |-> <<"B">>, B |-> <<>>, C |-> <<>>, D |-> <<>>], Copied, Deletions,
           {"dep", "optional", "also", "B", "global"}, place, command)

Far ==
  Crossing([A |-> <<"B">>, B |-> <<"C">>, C |-> <<>>, D |-> <<>>], CopiedFar,
           {NoDeletion, [trees |-> None, items |-> At("B", {1})]}, {"dep", "C"}, Nowhere, Plain)

CrossingInputs ==
  <<Near(Nowhere, Plain), Near(Nowhere, Plain \o <<C!Switch("full-integrity")>>),
    Near(AtItem3, <<>>), Near(AtItem3, <<C!Clean("deps")>>), Far>>

-----------------------------------------------------------------------------
(* One forest with items 1, 2 and 3 in tree 1 and item 4 in tree 2 *)

DepsOf == {<<{}, {1}, {2}, {}>>, <<{}, {1}, {1}, {3}>>, <<{}, {}, {2}, {1, 2}>>}

Also(is_tree, name, with_deps) ==
  [is_tree |-> is_tree, name |-> name, desc |-> FALSE, with_tree_deps |-> with_deps]
AlsoOf == {<<{}, {}, {}, {}>>, <<{Also(FALSE, 3, FALSE)}, {}, {}, {Also(TRUE, 1, FALSE)}>>,
           <<{}, {Also(FALSE, 1, FALSE)}, {}, {Also(TRUE, 2, TRUE)}>>}

Testers == {(3 :> {1} @@ 4 :> {2}), (4 :> {1, 3})}

\* The commands, each with the place where abuild is started
Wrong ==
  {<<Nowhere, <<C!Build("local")>>>>, <<Nowhere, <<C!Use("build", <<C!ItemNames({2, 9})>>)>>>>,
   <<Nowhere, Plain \o <<C!Use("related-by-traits", <<C!TraitNames({9})>>)>>>>}

DepTrees ==
  {<<[this |-> {}, tree |-> {1}], C!Word("local")>>, <<[this |-> {}, tree |-> {2}], C!Word("deptrees")>>}

Places ==
  DepTrees \cup
  {<<Nowhere, C!Word("all")>>, <<Nowhere, C!ItemNames({1})>>,
   <<[this |-> {4}, tree |-> {2}], C!Word("deps")>>, <<[this |-> {1}, tree |-> {1}], C!Word("current")>>}

Sometimes(use) == {<<>>, <<use>>}
Only1 == C!Use("only-with-traits", <<C!TraitNames({1})>>)
Related1 == C!Use("related-by-traits", <<C!TraitNames({1})>>)

Expansions ==
  {rel \o rdeps \o again :
     rel \in Sometimes(Related1), rdeps \in Sometimes(C!Switch("with-rdeps")),
     again \in Sometimes(C!Switch("repeat-expansion"))} \ {<<C!Switch("repeat-expansion")>>}

Buildings == {<<place[1], C!Use("build", <<place[2]>>)>> : place \in Places}
Cleanings == {<<place[1], C!Use("clean", <<place[2]>>)>> : place \in Places \ DepTrees}

Check == C!Plainly(C!Word("check"))
Applied == C!Switch("apply-targets-to-deps")

SetCommands ==
  Wrong \cup
  {<<use[1], <<use[2]>> \o expansion \o more>> :
     use \in Cleanings, expansion \in Expansions, more \in {<<>>, <<Only1>>, <<Applied>>}}
  \cup
  {<<use[1], <<use[2]>> \o expansion \o more>> :
     use \in Buildings, expansion \in Expansions,
     more \in {<<Check>>, <<Only1, Check>>, <<Applied, Check>>, <<C!Plainly(C!Word("no-op"))>>}}

OnlyLocal(x) == [A |-> x, B |-> <<>>, C |-> <<>>, D |-> <<>>]

ItemsOf(deps, also, testers) ==
  [n \in 1..4 |-> [ItemConf(IF n = 4 THEN 2 ELSE 1, deps[n]) EXCEPT
                    !.build_also = also[n],
                    !.traits = IF n \in DOMAIN testers THEN 1 :> testers[n] ELSE <<>>]]

OneForest(commands) ==
  {Given(Nothing, NoDeletion, OnlyLocal(1 :> TreeConf({}, {1}) @@ 2 :> TreeConf({1}, {})),
         OnlyLocal(ItemsOf(deps, also, testers)), command[1], command[2]) :
     deps \in DepsOf, also \in AlsoOf, testers \in Testers, command \in commands}

-----------------------------------------------------------------------------
(* The local forest by its files.  B is a plain forest with tree 3 and item 4. *)

AtDirectory(directories, start, command) ==
  [directories |-> directories, start |-> start, asked |-> command, argv |-> C!Words(command),
   declared |-> [backing |-> Nothing, deleted_trees |-> None, deleted_items |-> None,
                 trees |-> [Nothing EXCEPT !.B = 3 :> TreeConf({}, {})],
                 items |-> [Nothing EXCEPT !.B = 4 :> ItemConf(3, {})],
                 this |-> {}, local_tree |-> {}]]

Started(forests_of, starts, sets) ==
  {AtDirectory(f, start, <<C!Build(name)>>) : f \in forests_of, start \in starts, name \in sets}

MCComponents ==
  (0 :> <<"?">> @@ 1 :> <<"p">> @@ 2 :> <<"q">> @@ 3 :> <<"r">> @@ 4 :> <<"s">>
     @@ 5 :> <<"a", "b">> @@ 6 :> <<"a", "b", "c">> @@ 7 :> <<"a", "d">> @@ 8 :> <<"a">>)

DirectoryInputs ==
  <<Started(F!Structures, {F!Y}, {"all"}), Started(F!Damaged, {F!T, F!X, F!Y}, {"all", "deps"}),
    Started({F!Plainly}, {<<>>, F!T, F!X, F!Y}, {"desc", "descdeptrees", "current", "local"}),
    Started(F!Deps, {F!Y}, {"deps"}), Started(F!Alsos, {F!Y}, {"current"}),
    Started(F!TraitLists, {F!Y}, {"all"}), Started(F!TreeLists, {F!X}, {"descdeptrees"}),
    Started(F!FlagLists, {F!Y}, {"all"}), Started(F!Scopes, {F!Y}, {"all"}),
    Started(F!Files, {F!T}, {"all"}), Started(F!LineForests, {F!Y}, {"current"})>>

-----------------------------------------------------------------------------
(* Commands, in a forest with output directories: any two options, and any
   three of those that bear on each other *)

MCPlatforms == ("abuild-p" :> "p") @@ ("abuild-q" :> "q")

Menu ==
  C!Sets \cup C!Targets \cup C!ExpandingOptions \cup C!CleanPlatforms \cup C!Shows
    \cup C!BackendArguments \cup C!Places(F!Y, F!YP, F!Z)

CommandsAt(start, menu, length) ==
  {AtDirectory(F!WithOutput, start, command) : command \in C!Commands(menu, length)}

CommandInputs ==
  <<CommandsAt(F!X, Menu, 2), CommandsAt(F!X, C!Settings, 2), CommandsAt(F!YP, Menu, 1), CommandsAt(F!T, Menu, 1),
    CommandsAt(F!Y, C!Together(F!Y), 3), CommandsAt(F!YP, C!Together(F!Y), 2)>>

MCInputs ==
  <<Shapes(SUBSET Roots, {None}),
    Shapes({{"B"}, {"C"}, {"A", "C"}, {"B", "D"}}, {At("A", {1}), At("B", {1})}),
    OneForest(SetCommands)>>
  \o CrossingInputs \o DirectoryInputs \o CommandInputs
=============================================================================
