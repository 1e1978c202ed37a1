---------------------------- MODULE MCItemBuilder ----------------------------
(* All shapes of graphs over three items, two workers, and items of every  *)
(* sort: to be built or built before, with and without a build file and an *)
(* after-build file, one of them perhaps a forced failure; and trees with  *)
(* interface files of every sort.                                          *)
EXTENDS ItemBuilder, SmallGraphs

Option(k, d, n) == [keep_going |-> k, no_dep_failures |-> d, no_op |-> n]
KeepGoing == Option(TRUE, FALSE, FALSE)
NoDepFailures == Option(TRUE, TRUE, FALSE)
AllOptions == {Option(FALSE, FALSE, FALSE), KeepGoing, NoDepFailures, Option(TRUE, FALSE, TRUE)}

Config(b, s, f, t) == [build_file |-> b, selected |-> s, forced_failures |-> f, tree |-> t]

MCEnvironment == "HOME" :> <<"home">>
MCParameters == "LEVEL" :> <<"9">>

-----------------------------------------------------------------------------
(* Blocks *)

W(piece) == <<String(<<piece>>)>>
V(name) == <<VariableToken(name)>>
Call(f, arguments) == FunctionCall(f, arguments)
Var(name) == WordsArgument(<<V(name)>>)
Str(piece) == WordsArgument(<<W(piece)>>)

At(file, line) == Location("interface", file, line)
Assign(file, line, name, word) == AssignmentBlock(At(file, line), name, <<word>>)
Declare(file, line, name, scope, type, list_type) ==
  DeclarationBlock(Declaration(At(file, line), name, scope, type, list_type), NoWords)

MCBaseFile ==
  LET D(line, name, type, list) == Declare(0, line, name, "recursive", type, list)
  IN <<TargetTypeBlock(FALSE, "all"),
       D(1, "ABUILD_STDOUT_IS_TTY", "boolean", "scalar"),
       D(2, "ABUILD_ITEM_NAME", "string", "scalar"),
       D(3, "ABUILD_PLATFORM", "string", "scalar"),
       TargetTypeBlock(FALSE, "object-code"),
       D(4, "INCLUDES", "filename", "prepend"),
       D(5, "LIBS", "string", "prepend"),
       D(6, "XCFLAGS", "string", "append")>>

-----------------------------------------------------------------------------
(* Trees *)

Names == <<"A", "B", "C">>
Path(name, file) == <<"/", name, "/", file>>

NoPlugin == [p \in {} |-> <<>>]

\* Items with these interface files, and other files.
Tree(blocks, others) ==
  [item_name |-> Names, platform |-> <<"p", "p", "p">>,
   plugins |-> [i \in MCItems |-> <<>>], plugin_files |-> NoPlugin,
   optional_deps |-> [i \in MCItems |-> {}],
   supported_flags |-> [i \in MCItems |-> {}], flags |-> [i \in MCItems |-> {}],
   files |-> [f \in {Path(Names[i], "Abuild.interface") : i \in MCItems} |->
                blocks[CHOOSE i \in MCItems : Names[i] = f[2]]] @@ others]

AfterBuild == AfterBuildBlock(W("after"))
After(name) == Path(name, "after")
Lib(i) == Assign(i, 1, "LIBS", W(Names[i]))
LateLib(i, word) == Assign(10 + i, 1, "LIBS", W(word))

\* Items some of which have an after-build file.
Late(items) ==
  Tree([i \in MCItems |->
          <<Lib(i), Assign(i, 2, "INCLUDES", W("include"))>> \o
            (IF i \in items THEN <<AfterBuild>> ELSE <<>>)],
       [f \in {After(Names[i]) : i \in items} |->
          LET i == CHOOSE i \in items : f = After(Names[i])
          IN <<LateLib(i, Names[i] \o "-late")>>])

\* Items that assign a scalar that a plugin declares.
ModePlugin == <<Declare(20, 1, "MODE", "recursive", "string", "scalar")>>
Typed(type, assignment) ==
  CASE type = "normal" -> assignment
    [] type = "fallback" -> Fallback(assignment)
    [] type = "override" -> Override(assignment)

WithPlugin(file, t) == [t EXCEPT !.plugins = [i \in MCItems |-> <<"plugin">>],
                                 !.plugin_files = ("plugin" :> file)]
Modes(types) ==
  WithPlugin(ModePlugin,
    Tree([i \in MCItems |->
            IF types[i] = "none" THEN <<>>
            ELSE <<Typed(types[i], Assign(i, 1, "MODE", W(Names[i])))>>], <<>>))

ModeTrees ==
  LET types == {"none", "normal", "fallback", "override"}
  IN [name \in types \X types \X {"none", "fallback"} |-> Modes(name)]

\* Conditions of every form; A decides what B and C find.
Out(i, line) == Assign(i, line, "XCFLAGS", W("f"))
Conditional ==
  LET files ==
        <<<<Lib(1), Override(Assign(1, 2, "FAST", W("true"))),
            Assign(1, 3, "NAME", <<EnvironmentToken("HOME", NoDefault)>>)>>,
          <<IfBlock(<<If(Var("FAST"), <<Out(2, 1), Out(2, 2)>>),
                      If(Call("not", <<Call("equals", <<Var("NAME"), Str("home")>>)>>),
                         <<Out(2, 3)>>),
                      Else(<<Out(2, 4)>>)>>),
            IfBlock(<<If(Call("matches", <<Var("NAME"), WordsArgument(<<<<String(AnyWord)>>>>)>>),
                         <<Out(2, 5), IfBlock(<<If(Var("FAST"), <<Out(2, 6)>>)>>)>>)>>)>>,
          <<IfBlock(<<If(Call("contains", <<Var("LIBS"), Str("A")>>), <<Out(3, 1)>>),
                      If(Call("and", <<Call("not", <<Var("FAST")>>), Var("FAST")>>), <<Out(3, 2)>>),
                      If(Call("containsmatch", <<Var("XCFLAGS"), Str("f")>>), <<Out(3, 3)>>)>>),
            IfBlock(<<If(Call("or", <<Var("FAST"), Call("not", <<Var("FAST")>>)>>), <<Out(3, 4)>>),
                      Else(<<Out(3, 5)>>)>>)>>>>
      plugin == <<Declare(20, 1, "FAST", "recursive", "boolean", "scalar"),
                  Fallback(Assign(20, 2, "FAST", W("0"))),
                  Declare(20, 3, "NAME", "recursive", "string", "scalar"),
                  Fallback(Assign(20, 4, "NAME", W("none"))),
                  Assign(20, 5, "XCFLAGS", W("g")), Assign(20, 6, "LIBS", W("g"))>>
  IN WithPlugin(plugin, Tree(files, <<>>))

\* Conditions with errors: none of the clauses is carried out.
BadConditional(conditional) ==
  WithPlugin(ModePlugin,
    Tree([i \in MCItems |->
            IF i = 2 THEN <<IfBlock(<<If(conditional, <<Out(i, 1)>>), Else(<<Out(i, 2)>>)>>)>>
            ELSE <<Lib(i)>>], <<>>))

BadConditionals ==
  <<Var("MODE"), Var("NONE"), Var("LIBS"), NoConditional,
    Call("not", <<Str("x")>>), Call("both", <<Call("not", <<>>)>>),
    Call("equals", <<Str("x"), WordsArgument(<<W("x"), W("y")>>)>>),
    Call("matches", <<Str("x"), WordsArgument(<<<<String(BadExpression)>>>>)>>),
    Call("matches", <<Var("LIBS"), Str("x")>>),
    Call("contains", <<Call("not", <<Var("ABUILD_STDOUT_IS_TTY")>>), Str("x")>>),
    Call("contains", <<Str("x"), Var("LIBS")>>)>>
BadConditionalTrees ==
  [name \in {<<"conditional", n>> : n \in DOMAIN BadConditionals} |->
     BadConditional(BadConditionals[name[2]])]

\* Assignments that count for those who set a flag of A.
Flags ==
  [Tree([i \in MCItems |-> <<Lib(i), Flag("f", Assign(i, 2, "LIBS", W("f")))>>], <<>>)
     EXCEPT !.supported_flags = [i \in MCItems |-> IF i = 2 THEN {} ELSE {"f"}],
            !.flags = [i \in MCItems |-> IF i = 3 THEN {<<"A", "f">>} ELSE {}]]

\* All three support it, and one assigns the list by a flag alone.
SupportedFlags ==
  [Tree([i \in MCItems |-> <<Flag("f", Assign(i, 2, "LIBS", W(Names[i])))>>], <<>>)
     EXCEPT !.supported_flags = [i \in MCItems |-> {"f"}],
            !.flags = [i \in MCItems |->
                         IF i = 3 THEN {<<"A", "f">>, <<"C", "f">>} ELSE {<<"B", "f">>}]]

Resets ==
  Tree(<< <<Lib(1), Assign(1, 2, "XCFLAGS", W("a"))>>,
          <<Lib(2), Reset(At(2, 2), "LIBS", FALSE), Assign(2, 3, "LIBS", W("B2")),
            Assign(2, 4, "XCFLAGS", W("b"))>>,
          <<Lib(3), Reset(At(3, 2), "LIBS", TRUE), Assign(3, 3, "XCFLAGS", W("c")),
            ResetAll(At(3, 4)), Assign(3, 5, "XCFLAGS", W("c2")),
            Reset(At(3, 6), "LIBS", FALSE), Assign(3, 7, "LIBS", W("C2"))>> >>, <<>>)

BadReset(name, negate) ==
  Tree([i \in MCItems |-> <<Lib(i)>> \o
          IF i = 2 THEN <<Reset(At(2, 2), name, negate)>> ELSE <<>>], <<>>)

\* Variables of every scope, a duplicate declaration, and optional
\* dependencies.
Scopes ==
  [WithPlugin(<<Declare(20, 1, "OWN", "non-recursive", "string", "append")>>,
     Tree([i \in MCItems |->
             <<Assign(i, 1, "OWN", W(Names[i])),
               Declare(i, 2, "HERE", "local", "string", "scalar"),
               Assign(i, 3, "HERE", W(Names[i])),
               Declare(i, 4, "ONLY" \o Names[i], "recursive", "filename", "append"),
               Assign(i, 5, "ONLY" \o Names[i], W("x")),
               IfBlock(<<If(Var(haveOptionalDep("B")), <<Out(i, 6)>>), Else(<<Out(i, 7)>>)>>)>>],
          <<>>))
     EXCEPT !.optional_deps = [i \in MCItems |-> {<<"B", i = 2>>, <<"C", TRUE>>}]]

DeclaredTwice ==
  Tree([i \in MCItems |->
          <<Declare(i, 1, "MODE", "recursive", "boolean", "scalar"),
            Assign(i, 2, "MODE", W("0"))>>], <<>>)

\* A on two platforms and an item between: each instance assigns by itself.
Platforms(block) ==
  WithPlugin(ModePlugin,
    [Tree(<< <<Lib(1), block>>, <<Lib(2)>>, <<>> >>, <<>>)
       EXCEPT !.item_name = <<"A", "B", "A">>, !.platform = <<"p", "p", "q">>])

\* What cannot be assigned.
Failing(blocks) ==
  WithPlugin(ModePlugin,
    Tree([i \in MCItems |-> <<Lib(i)>> \o (IF i = 2 THEN blocks ELSE <<>>)], <<>>))
FailingBlocks ==
  << <<Assign(2, 2, "NONE", W("x"))>>,
     <<Override(Assign(2, 2, "LIBS", W("x")))>>,
     <<AssignmentBlock(At(2, 2), "MODE", <<W("x"), W("y")>>)>>,
     <<Assign(2, 2, "ABUILD_STDOUT_IS_TTY", W("x"))>>,
     <<Assign(2, 2, "INCLUDES", <<String(<<>>)>>)>>,
     <<Unparsable>>, <<TargetTypeBlock(FALSE, "x")>>, <<TargetTypeBlock(TRUE, "NONE")>>,
     <<TargetTypeBlock(TRUE, "LIBS")>>, <<AfterBuildBlock(<<String(<<>>)>>)>>,
     <<AfterBuildBlock(V("LIBS"))>>,
     <<Assign(2, 2, "LIBS", <<EnvironmentToken("NONE", NoDefault)>>)>>,
     <<Assign(2, 2, "LIBS", <<ParameterToken("NONE", NoDefault)>>)>> >>
FailingTrees ==
  [name \in {<<"failing", n>> : n \in DOMAIN FailingBlocks} |-> Failing(FailingBlocks[name[2]])]

\* Words put together from variables, and two fallbacks in one file.
Expansions ==
  WithPlugin(ModePlugin,
    Tree([i \in MCItems |->
       <<Lib(i), Fallback(Assign(i, 2, "MODE", W("1"))), Fallback(Assign(i, 3, "MODE", W("2"))),
         TargetTypeBlock(TRUE, "ABUILD_TARGET"),
         DeclarationBlock(Declaration(At(i, 4), "FROM" \o Names[i], "recursive", "string", "append"),
                          << <<ParameterToken("LEVEL", NoDefault), VariableToken("LIBS")>>,
                             <<EnvironmentToken("NONE", <<"d">>), ParameterToken("NONE", <<>>)>> >>),
         IfBlock(<<If(Call("equals", <<Var("MODE"), Str("1")>>),
                      <<Out(i, 5), TargetTypeBlock(FALSE, "java"), Reset(At(i, 6), "LIBS", FALSE),
                        Declare(i, 7, "J", "local", "string", "scalar"), AfterBuild>>)>>)>>],
       [f \in {After(n) : n \in ToSet(Names)} |-> <<Unparsable>>]))

\* An after-build file for all: they find different values in it, or not.
Shared(word) ==
  Tree([i \in MCItems |->
          <<Lib(i), AfterBuildBlock(<<String(<<"/", "common", "/", "after">>)>>)>>],
       Path("common", "after") :> <<AssignmentBlock(Location("shared", 0, 1), "XCFLAGS", <<word>>)>>)

PluginError == WithPlugin(<<Unparsable>>, Late({}))

OtherTrees ==
  <<"flags">> :> Flags @@ <<"supported">> :> SupportedFlags @@ <<"resets">> :> Resets @@
  <<"reset">> :> BadReset("NONE", FALSE) @@ <<"no-reset">> :> BadReset("NONE", TRUE) @@
  <<"scopes">> :> Scopes @@ <<"declared">> :> DeclaredTwice @@
  <<"platforms", "same">> :> Platforms(Assign(1, 2, "MODE", W("x"))) @@
  <<"platforms", "differ">> :> Platforms(Assign(1, 2, "MODE", V("ABUILD_PLATFORM"))) @@
  <<"expansions">> :> Expansions @@ <<"conditions">> :> Conditional @@
  <<"shared", "same">> :> Shared(W("x")) @@
  <<"shared", "differ">> :> Shared(V("ABUILD_ITEM_NAME")) @@
  <<"plugin">> :> PluginError @@
  <<"empty">> :> [Late({}) EXCEPT !.files = Path("B", "Abuild.interface") :> <<Lib(2)>>]

LateTrees == <<"late", "A">> :> Late({1}) @@ <<"late", "BC">> :> Late({2, 3})
MCTrees == ModeTrees @@ BadConditionalTrees @@ FailingTrees @@ OtherTrees @@ LateTrees

-----------------------------------------------------------------------------
(* Inputs *)

\* Everything is to be built, or all but item 1, or an item has no build file.
MCInputs ==
  {<<o, Config(MCItems \ s[1], MCItems \ s[2], s[3], t)>> :
     o \in AllOptions, t \in DOMAIN LateTrees,
     s \in {<<{}, {}, {}>>, <<{2}, {}, {}>>, <<{}, {1}, {}>>, <<{}, {1}, {2}>>}} \cup
  {<<KeepGoing, Config(MCItems, {}, {}, t)>> : t \in DOMAIN ModeTrees} \cup
  {<<KeepGoing, Config(MCItems, {3}, {}, t)>> :
     t \in DOMAIN BadConditionalTrees \cup DOMAIN FailingTrees \cup DOMAIN OtherTrees}

NoDepFailuresInputs == {<<NoDepFailures, Config(MCItems, MCItems, {}, <<"late", "A">>)>>}
=============================================================================
