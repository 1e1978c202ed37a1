------------------------------ MODULE CommandLine ------------------------------
(***************************************************************************)
(* What abuild is asked to do: parseArgv in Abuild-init.cc with its        *)
(* callbacks, and where it is to be done.                                  *)
(*                                                                         *)
(* `valid` turns false where the code calls usage() or reports an error    *)
(* that exitIfErrors meets before anything is read: nothing is done then.  *)
(* Compatibility level 1.0, and what is only handed on to backends, is     *)
(* left out.                                                               *)
(***************************************************************************)
EXTENDS ItemConfig

CONSTANT Platforms   \* by directory name that begins with "abuild-", the rest

-----------------------------------------------------------------------------
(* The options *)

switches ==
  {"find-conf", "keep-going", "no-dep-failures", "raw-output", "interleaved-output",
   "buffered-output", "n", "emacs", "full-integrity", "deprecation-is-error", "verbose",
   "silent", "monitored", "dump-interfaces", "no-deps", "with-deps", "with-rdeps",
   "apply-targets-to-deps", "repeat-expansion", "dump-build-graph", "list-traits",
   "list-platforms", "dump-data"}

strings ==
  {"C", "output-prefix", "error-prefix", "platform-selector", "clean-platforms", "ro-path",
   "rw-path", "build", "clean", "only-with-traits", "related-by-traits", "find"}

lists ==
  [help |-> {}, make |-> {"ant"}, ant |-> {"make"}]
    @@ [o \in {"jvm-append-args", "jvm-replace-args"} |-> {"end-jvm-args"}]

synonyms ==
  [H |-> "help", j |-> "jobs", k |-> "keep-going", e |-> "emacs", p |-> "platform-selector",
   d |-> "with-deps", b |-> "build", c |-> "clean"]

arguments ==
  LET kind(type) == [type |-> type, ends |-> {}, discard |-> FALSE, default |-> 0]
      registered ==
        [o \in switches |-> kind("none")] @@ [o \in strings |-> kind("string")]
          @@ [o \in DOMAIN lists |-> [kind("list") EXCEPT !.ends = lists[o],
                                                          !.discard = "end-jvm-args" \in lists[o]]]
          @@ ("jobs" :> kind("numeric")) @@ ("compat-level" :> kind("level"))
          @@ ("make-jobs" :> [kind("optional numeric") EXCEPT !.default = -1])
  IN [o \in DOMAIN synonyms |-> registered[synonyms[o]]] @@ registered

Parser == INSTANCE OptionParser

-----------------------------------------------------------------------------
(* The callbacks *)

NoSettings ==
  [valid |-> TRUE, start_dir |-> <<>>, flags |-> {}, max_workers |-> 1, make_njobs |-> 1,
   output_mode |-> "unset", output_prefix |-> FALSE, error_prefix |-> FALSE,
   buildset_name |-> "", cleanset_name |-> "", explicit_buildset |-> FALSE,
   buildset_named_items |-> {}, buildset_pattern |-> <<>>,
   only_with_traits |-> {}, related_by_traits |-> {},
   special_target |-> "", targets |-> <<>>, ro_paths |-> {}, rw_paths |-> {},
   default_writable |-> TRUE, clean_platforms |-> <<>>, platform_selectors |-> <<>>,
   jvm_xargs |-> 1, ant_args |-> 0, compat_level |-> "1.1", help |-> <<>>, to_find |-> FALSE,
   this_platform |-> "", current_directory |-> <<>>, this_config_dir |-> <<>>]
  \* buildset_pattern, clean_platforms, platform_selectors, help: texts
  \* start_dir: a sequence of at most one path
  \* jvm_xargs, ant_args: how many; the prefixes: whether they are not empty

isWord(text, words) == text.kind = "word" /\ text.word \in words
empty(text) == isWord(text, {""})

valid_buildsets == {"all", "deptrees", "descdeptrees", "local", "desc", "deps", "current"}
buildset_aliases == [down |-> "desc", descending |-> "desc"]

checkBuildsetName(s, text) ==
  CASE text.kind = "name:" -> [s EXCEPT !.buildset_named_items = @ \cup text.names]
    [] text.kind = "pattern:" -> [s EXCEPT !.buildset_pattern = <<text>>, !.valid = @ /\ text.valid]
    [] OTHER -> [s EXCEPT !.valid = @ /\ isWord(text, valid_buildsets \cup DOMAIN buildset_aliases)]

setName(text) ==
  CASE isWord(text, DOMAIN buildset_aliases) -> buildset_aliases[text.word]
    [] text.kind = "word" /\ text.word \notin DOMAIN buildset_aliases -> text.word
    [] OTHER -> text.kind

argSetBuildSet(s, text) ==
  LET chosen == [s EXCEPT !.buildset_name = setName(text), !.cleanset_name = "",
                          !.explicit_buildset = TRUE]
  IN IF empty(text) THEN chosen ELSE checkBuildsetName(chosen, text)

argSetCleanSet(s, text) ==
  checkBuildsetName([s EXCEPT !.cleanset_name = setName(text), !.buildset_name = "",
                              !.explicit_buildset = TRUE], text)

special_targets == {"clean", "no-op"}

argPositional(s, text) ==
  CASE text.kind = "definition" -> s
    [] isWord(text, special_targets) ->
         [s EXCEPT !.special_target = text.word, !.valid = @ /\ s.special_target = ""]
    [] OTHER -> [s EXCEPT !.targets = Append(@, text)]

argHelp(s, args) == [s EXCEPT !.help = args, !.valid = @ /\ Len(args) \in 1..2]

argSetJobs(s, n) == IF n = 0 THEN [s EXCEPT !.valid = FALSE] ELSE [s EXCEPT !.max_workers = n]

argSetJVMXargs(s, args, replace) ==
  [s EXCEPT !.jvm_xargs = (IF replace THEN 0 ELSE @) + Len(args)]

\* The trait 0 is one that no item has.
traitsIn(text) == IF text.kind = "list" THEN text.names ELSE {0}

pathsIn(text) == IF text.kind = "path" THEN text.path ELSE <<"?">>

\* findConf, in a sequence of at most one.  It is not found anywhere else than
\* at the place where abuild was started, whatever -C says.
findConf(fs, start) ==
  LET at == {n \in 0..Len(start) : isFile(fs, SubSeq(start, 1, n), Conf)}
  IN IF at = {} THEN <<>> ELSE <<SubSeq(start, 1, CHOOSE n \in at : \A m \in at : m <= n)>>

output_modes ==
  [o \in {"raw-output", "interleaved-output", "buffered-output"} |->
     CASE o = "raw-output" -> "raw" [] o = "interleaved-output" -> "interleaved"
       [] o = "buffered-output" -> "buffered"]

callback(fs, start, s, call) ==
  LET option == IF call.option \in DOMAIN synonyms THEN synonyms[call.option] ELSE call.option
      args == call.args
      text == args[1]
      conf == findConf(fs, start)
      Option(o) == call.valid /\ option = o
      In(options) == call.valid /\ option \in options
  IN CASE ~call.valid -> [s EXCEPT !.valid = FALSE]
       [] Option("") -> argPositional(s, text)
       [] Option("C") -> [s EXCEPT !.start_dir = IF empty(text) THEN <<>> ELSE <<pathsIn(text)>>]
       [] Option("find-conf") -> [s EXCEPT !.start_dir = conf, !.valid = @ /\ conf # <<>>]
       [] Option("no-deps") -> argSetBuildSet(s, [kind |-> "word", word |-> ""])
       [] Option("with-deps") -> argSetBuildSet(s, [kind |-> "word", word |-> "current"])
       [] Option("build") -> argSetBuildSet(s, text)
       [] Option("clean") -> argSetCleanSet(s, text)
       [] Option("jobs") -> argSetJobs(s, text.n)
       [] Option("make-jobs") -> [s EXCEPT !.make_njobs = text.n]
       [] Option("help") -> argHelp(s, args)
       [] Option("ant") -> [s EXCEPT !.ant_args = @ + Len(args)]
       [] In({"jvm-append-args", "jvm-replace-args"}) ->
            argSetJVMXargs(s, args, option = "jvm-replace-args")
       [] Option("compat-level") -> [s EXCEPT !.compat_level = text.level]
       [] Option("ro-path") -> [s EXCEPT !.ro_paths = @ \cup {pathsIn(text)}]
       [] Option("rw-path") -> [s EXCEPT !.rw_paths = @ \cup {pathsIn(text)}]
       [] Option("only-with-traits") -> [s EXCEPT !.only_with_traits = traitsIn(text)]
       [] Option("related-by-traits") -> [s EXCEPT !.related_by_traits = traitsIn(text)]
       [] Option("clean-platforms") -> [s EXCEPT !.clean_platforms = Append(@, text)]
       [] Option("platform-selector") -> [s EXCEPT !.platform_selectors = Append(@, text)]
       [] Option("output-prefix") -> [s EXCEPT !.output_prefix = ~empty(text)]
       [] Option("error-prefix") -> [s EXCEPT !.error_prefix = ~empty(text)]
       [] Option("find") -> [s EXCEPT !.to_find = ~empty(text)]
       [] In(DOMAIN output_modes) -> [s EXCEPT !.output_mode = output_modes[option]]
       [] In(switches \ ({"find-conf", "no-deps", "with-deps"} \cup DOMAIN output_modes)) ->
            [s EXCEPT !.flags = @ \cup {option}]
       [] Option("make") -> s

-----------------------------------------------------------------------------
(* After the last word *)

refuseIf(s, wrong) == [s EXCEPT !.valid = @ /\ ~wrong]

\* The directory abuild works in, and whether it is an output directory
getThisPlatform(fs, dir) ==
  IF /\ dir # <<>>
     /\ ~isFile(fs, dir, Conf)
     /\ isFile(fs, Front(dir), Conf)
     /\ Last(dir) \in DOMAIN Platforms
     /\ isFile(fs, dir, ".abuild")
  THEN Platforms[Last(dir)] ELSE ""

inStartDirectory(fs, start, s) ==
  LET dir == IF s.start_dir = <<>> THEN start ELSE s.start_dir[1]
      platform == getThisPlatform(fs, dir)
  IN [s EXCEPT !.valid = @ /\ (s.start_dir # <<>> => dir \in DOMAIN fs),
               !.current_directory = dir,
               !.this_platform = platform,
               !.this_config_dir = IF platform = "" THEN dir ELSE Front(dir)]

withOutputMode(s) ==
  [s EXCEPT !.output_mode =
     CASE s.output_mode # "unset" -> @
       [] s.output_mode = "unset" /\ (s.output_prefix \/ s.error_prefix) -> "interleaved"
       [] OTHER -> IF s.max_workers = 1 THEN "raw" ELSE "interleaved"]

under(path, top) == IsPrefix(top, path)

anyFirstNotUnderSomeSecond(first, second) ==
  \E f \in first : \A other \in second : ~under(f, other)

checkValidPaths(fs, paths) == \A p \in paths : p \in DOMAIN fs /\ ~fs[p].symlink

checkRoRwPaths(fs, s) ==
  LET ro_crossing == anyFirstNotUnderSomeSecond(s.ro_paths, s.rw_paths)
      rw_crossing == anyFirstNotUnderSomeSecond(s.rw_paths, s.ro_paths)
      both == s.ro_paths # {} /\ s.rw_paths # {}
  IN [s EXCEPT !.valid = @ /\ checkValidPaths(fs, s.ro_paths \cup s.rw_paths)
                           /\ ~(both /\ ro_crossing /\ rw_crossing),
               !.default_writable = IF both THEN ~rw_crossing ELSE s.rw_paths = {}]

\* The target "clean" with a build set makes it a clean set.
cleanTarget(s) ==
  LET cleanset == IF s.buildset_name # "" THEN s.buildset_name ELSE s.cleanset_name
  IN IF s.special_target # "clean" THEN s
     ELSE [s EXCEPT !.cleanset_name = cleanset, !.buildset_name = "",
                    !.special_target = IF cleanset = "" THEN @ ELSE ""]

defaultBuildSet(s) ==
  IF s.explicit_buildset \/ s.special_target = "clean" \/ s.this_platform # "" THEN s
  ELSE [s EXCEPT !.buildset_name = "current"]

haveBuildSet(s) == s.buildset_name # "" \/ s.cleanset_name # ""

checkCombination(s) ==
  refuseIf(s,
    \/ /\ ~haveBuildSet(s)
       /\ s.only_with_traits \cup s.related_by_traits # {} \/ "with-rdeps" \in s.flags
    \/ s.cleanset_name # "" /\ (s.targets # <<>> \/ s.special_target # "")
    \/ s.cleanset_name = "" /\ s.special_target # "" /\ s.targets # <<>>
    \/ /\ s.this_platform # ""
       /\ s.special_target # "clean"
       /\ s.special_target # "" \/ haveBuildSet(s))

validPattern(text) == IF text.kind = "glob" THEN text.valid ELSE ~empty(text)

checkPatterns(s) ==
  refuseIf(s, \/ \E n \in DOMAIN s.platform_selectors : s.platform_selectors[n].kind # "selector"
              \/ \E n \in DOMAIN s.clean_platforms : ~validPattern(s.clean_platforms[n]))

parseArgv(fs, start, argv) ==
  LET calls == Parser!parseOptions(argv)
      given == FoldLeft(LAMBDA s, call : callback(fs, start, s, call), NoSettings, calls)
      placed == inStartDirectory(fs, start, given)
      known == refuseIf(placed, placed.compat_level # "1.1" \/ placed.ant_args > 0)
      writable == checkRoRwPaths(fs, withOutputMode(known))
      asked == checkPatterns(checkCombination(defaultBuildSet(cleanTarget(writable))))
  IN [asked EXCEPT !.targets = IF @ = <<>> THEN <<[kind |-> "word", word |-> "all"]>> ELSE @]

\* generalHelp
helpOnly(s) ==
  /\ s.help # <<>>
  /\ ~(isWord(s.help[1], {"rules"}) /\ (Len(s.help) = 1 \/ isWord(s.help[2], {"list"})))

\* Whether readConfigs shows something and stops
showsOnly(s) ==
  {"dump-data", "list-traits", "list-platforms"} \cap s.flags # {} \/ s.to_find \/ s.help # <<>>
=============================================================================
