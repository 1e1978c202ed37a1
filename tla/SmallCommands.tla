---------------------------- MODULE SmallCommands ----------------------------
(* Commands as CommandContract reads them, their words, and menus of options
   to put together. *)
EXTENDS Naturals, Sequences, SequencesExt, TLC

Word(w) == [kind |-> "word", word |-> w]
Number(n) == [kind |-> "number", n |-> n]
ItemNames(names) == [kind |-> "name:", names |-> names, valid |-> TRUE]
Pattern(names, valid) == [kind |-> "pattern:", names |-> names, valid |-> valid]
TraitNames(names) == [kind |-> "list", names |-> names]
Level(level) == [kind |-> "level", level |-> level]
Glob(platforms, valid) == [kind |-> "glob", platforms |-> platforms, valid |-> valid]
Path(path) == [kind |-> "path", path |-> path]
Definition == [kind |-> "definition"]
Dashed == [kind |-> "dashed"]

\* Options are written as --option=argument, or else as `spelled` with the
\* argument in a word of its own.
Use(option, args) ==
  [option |-> option, args |-> args, spelled |-> option, attached |-> args # <<>>]
Switch(option) == Use(option, <<>>)
Short(letter, option, args) ==
  [option |-> option, args |-> args, spelled |-> letter, attached |-> FALSE]
Plainly(text) == Use("", <<text>>)

WordOf(text) == [option |-> "", attached |-> <<>>, text |-> text]

JvmLists == {"jvm-append-args", "jvm-replace-args"}

WordsOf(use) ==
  IF use.option = "" THEN <<WordOf(use.args[1])>>
  ELSE LET first == IF use.attached THEN 1 ELSE 0
           separate == [n \in 1..(Len(use.args) - first) |-> WordOf(use.args[n + first])]
           option(name) == [option |-> name, attached |-> SubSeq(use.args, 1, first), text |-> Dashed]
           end == [option |-> "end-jvm-args", attached |-> <<>>, text |-> Dashed]
       IN <<option(use.spelled)>> \o separate \o IF use.option \in JvmLists THEN <<end>> ELSE <<>>

Words(asked) == FlattenSeq([n \in DOMAIN asked |-> WordsOf(asked[n])])

\* Whether each option takes the words that are meant for it
Separable(asked) ==
  \A n \in 1..(Len(asked) - 1) :
    LET next == asked[n + 1].option
    IN /\ asked[n].option = "help" => next # ""
       /\ asked[n].option = "make" => next = "ant"
       /\ asked[n].option = "ant" => next = "make"
       /\ asked[n].option = "build" => asked[n].args # <<>>

Commands(menu, length) ==
  {asked \in UNION {[1..n -> menu] : n \in 0..length} : Separable(asked)}

-----------------------------------------------------------------------------
(* Menus *)

Build(set) == Use("build", <<Word(set)>>)
Clean(set) == Use("clean", <<Word(set)>>)

Sets ==
  {Build("all"), Short("b", "build", <<Word("desc")>>), Build("down"), Build("nowhere"),
   Use("build", <<ItemNames({1})>>), Use("build", <<ItemNames({2, 9})>>),
   Use("build", <<Pattern({2}, TRUE)>>), Use("clean", <<Pattern({2}, FALSE)>>),
   Clean("all"), Short("c", "clean", <<Word("current")>>), Clean("descending"),
   Switch("no-deps"), Short("d", "with-deps", <<>>)}

Targets == {Plainly(Word("clean")), Plainly(Word("no-op")), Plainly(Word("check")), Plainly(Definition)}

ExpandingOptions ==
  {Switch("with-rdeps"), Switch("apply-targets-to-deps"), Switch("repeat-expansion"),
   Use("only-with-traits", <<TraitNames({1})>>), Use("related-by-traits", <<TraitNames({1})>>),
   Use("related-by-traits", <<TraitNames({9})>>)}

Places(inner, output, nowhere) ==
  {Use("C", <<Path(inner)>>), Short("C", "C", <<Path(output)>>), Use("C", <<Path(nowhere)>>),
   Switch("find-conf"),
   Use("ro-path", <<Path(inner)>>), Use("rw-path", <<Path(Front(inner))>>),
   Use("rw-path", <<Path(nowhere)>>)}

CleanPlatforms ==
  {Use("clean-platforms", <<Glob({"p"}, TRUE)>>), Use("clean-platforms", <<Glob({"p"}, FALSE)>>)}

Settings ==
  {Short("H", "help", <<>>), Switch("version"), Short("j", "jobs", <<Number(0)>>), Use("jobs", <<Number(4)>>), Use("jobs", <<Word("many")>>),
   Switch("make-jobs"), Use("make-jobs", <<Number(2)>>),
   Use("verbose", <<Number(1)>>), Switch("?"), Use("build", <<>>),
   Use("platform-selector", <<Word("?")>>),
   Use("compat-level", <<Level("1.1")>>), Use("compat-level", <<Level("2.0")>>),
   Switch("raw-output"), Use("output-prefix", <<Word("out")>>), Use("error-prefix", <<Word("")>>)}

Shows ==
  {Switch("help"), Short("V", "version", <<>>), Switch("print-abuild-top"),
   Use("help", <<Word("rules")>>), Short("H", "help", <<Word("rules"), Word("list")>>),
   Short("H", "help", <<Word("a"), Word("b"), Word("c")>>),
   Switch("dump-data"), Use("find", <<Word("item")>>)}

BackendArguments ==
  {Short("make", "make", <<Word("s")>>), Switch("ant"), Short("ant", "ant", <<Word("s"), Word("t")>>)}
  \cup {Use(list, <<Word("s")>>) : list \in JvmLists}

\* Options of which it matters whether, and in which order, they come together
Together(inner) ==
  {Plainly(Word("clean")), Plainly(Word("check")), Clean("all"), Build("desc"),
   Use("build", <<ItemNames({1})>>), Switch("no-deps"), Switch("with-rdeps"),
   Switch("apply-targets-to-deps"), Use("clean-platforms", <<Glob({"q"}, TRUE)>>),
   Use("ro-path", <<Path(inner)>>), Use("rw-path", <<Path(Front(inner))>>),
   Use("ro-path", <<Path(Front(Front(inner)))>>)}
=============================================================================
