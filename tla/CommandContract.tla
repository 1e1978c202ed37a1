---------------------------- MODULE CommandContract ----------------------------
(***************************************************************************)
(* What manual.xml, "Command-Line Reference" and "Telling Abuild What to   *)
(* Build", says that a command means.                                      *)
(*                                                                         *)
(* A command is a sequence of uses of options, each with its arguments;    *)
(* the "option" of a target or definition is "".  Options may come in any  *)
(* order (manual.xml:5498).  Where the manual gives several options for    *)
(* the same thing and no rule for their combination, the last one counts.  *)
(***************************************************************************)
EXTENDS Naturals, Sequences, FiniteSets, SequencesExt

CONSTANT Platforms

Uses(asked, options) == {n \in DOMAIN asked : asked[n].option \in options}
Switched(asked, option) == Uses(asked, {option}) # {}
Texts(asked, options) == {asked[n].args[1] : n \in Uses(asked, options)}
Paths(asked, option) == {text.path : text \in Texts(asked, {option})}

\* The last of some options, in a set of at most one
LastUse(asked, options) ==
  {n \in Uses(asked, options) : \A m \in Uses(asked, options) : m <= n}

IsWord(text, words) == text.kind = "word" /\ text.word \in words

\* The directory that abuild works in, in a set of at most one
WorkingDirectory(files, start, asked) ==
  LET above == {SubSeq(start, 1, n) : n \in 0..Len(start)}
      found == {d \in above \cap DOMAIN files : "Abuild.conf" \in files[d].files}
      last == LastUse(asked, {"C", "find-conf"})
  IN IF last = {} THEN {start}
     ELSE IF \E n \in last : asked[n].option = "C"
          THEN {asked[n].args[1].path : n \in last} \cap DOMAIN files
          ELSE {d \in found : \A e \in found : Len(e) <= Len(d)}

\* manual.xml:2441
OutputDirectory(files, d) ==
  d # <<>> /\ Last(d) \in DOMAIN Platforms /\ ".abuild" \in files[d].files

-----------------------------------------------------------------------------
(* The set *)

SetOptions == {"build", "clean", "with-deps", "no-deps"}

SetNames ==
  {"current", "deps", "desc", "descending", "down", "local", "deptrees", "descdeptrees", "all"}

SetRight(text) ==
  (text.kind \in {"name:", "pattern:"} /\ text.valid) \/ IsWord(text, SetNames)

TargetUses(asked) ==
  {n \in Uses(asked, {""}) : asked[n].args[1].kind # "definition"}
SpecialUses(asked) ==
  {n \in TargetUses(asked) : IsWord(asked[n].args[1], {"clean", "no-op"})}
NoOp(asked) == \E text \in Texts(asked, {""}) : IsWord(text, {"no-op"})
CleanTarget(asked) == \E text \in Texts(asked, {""}) : IsWord(text, {"clean"})

\* The targets, "all" if there are none
TargetsGiven(asked) ==
  LET uses == SelectSeq(asked, LAMBDA u : u.option = "" /\ u.args[1].kind # "definition")
  IN IF uses = <<>> THEN <<[kind |-> "word", word |-> "all"]>>
     ELSE [n \in DOMAIN uses |-> uses[n].args[1]]

\* The set that is given, as a text, in a set of at most one
GivenSet(asked) ==
  UNION {IF asked[n].option = "with-deps" THEN {[kind |-> "word", word |-> "current"]}
         ELSE IF asked[n].option = "no-deps" THEN {} ELSE {asked[n].args[1]} :
           n \in LastUse(asked, SetOptions)}

CleanSet(asked) ==
  GivenSet(asked) # {} /\ (CleanTarget(asked) \/ \E n \in LastUse(asked, SetOptions) :
                                                    asked[n].option = "clean")

Cleaning(asked) == CleanSet(asked) \/ CleanTarget(asked)

\* Without any set option it is as if --build=current was given.
SetAsked(in_output, asked) ==
  IF Uses(asked, SetOptions) = {} /\ ~CleanTarget(asked) /\ ~in_output
  THEN {[kind |-> "word", word |-> "current"]} ELSE GivenSet(asked)

\* Names that came with an earlier set are still in force.
NamesRemain(asked) ==
  \E n \in Uses(asked, {"build", "clean"}) \ LastUse(asked, SetOptions) :
    asked[n].args[1].kind \in {"name:", "pattern:"}

-----------------------------------------------------------------------------
(* Read-only and read/write paths (manual.xml:5395) *)

Above(d) == {SubSeq(d, 1, n) : n \in 0..Len(d)}

PathsRight(files, asked) ==
  LET ro == Paths(asked, "ro-path")
      rw == Paths(asked, "rw-path")
  IN /\ \A p \in ro \cup rw : p \in DOMAIN files
     /\ ro = {} \/ rw = {} \/ (\A p \in ro : Above(p) \cap rw # {})
                           \/ (\A p \in rw : Above(p) \cap ro # {})

\* Some read-only path is above a directory, and no read/write path is between;
\* or if nothing that is given is above it, only what is given is writable.
ReadOnly(d, asked) ==
  LET ro == Paths(asked, "ro-path")
      rw == Paths(asked, "rw-path")
  IN \/ \E p \in Above(d) \cap ro : \A q \in Above(d) \cap rw : Len(q) < Len(p)
     \/ /\ Above(d) \cap (ro \cup rw) = {}
        /\ rw # {}
        /\ \A p \in ro : Above(p) \cap rw # {}

-----------------------------------------------------------------------------
(* Commands that are refused *)

\* Options with an argument too many or too few, or not the right one.  "?"
\* stands for an option that the reference does not list; two others are for a
\* place of their own.
Misused(use) ==
  \/ use.option \in {"?", "version", "print-abuild-top"}
  \/ use.option = "verbose" /\ use.args # <<>>
  \/ use.option \in {"build", "clean"} /\ use.args = <<>>
  \/ use.option = "jobs" /\ use.args[1].kind # "number"

\* Help about help and the version are shown without regard to the rest if
\* they are asked for last, and where abuild is installed if nothing else is
\* asked for (manual.xml:5602, 5637 and 5645, which do not name a place).
Shown(asked) ==
  /\ asked # <<>>
  /\ Last(asked).args = <<>>
  /\ \/ Last(asked).option \in {"help", "version"}
     \/ Len(asked) = 1 /\ Last(asked).option = "print-abuild-top"

Refused(files, start, asked) ==
  LET dirs == WorkingDirectory(files, start, asked)
      in_output == \E d \in dirs \cap DOMAIN files : OutputDirectory(files, d)
  IN /\ ~Shown(asked)
     /\ \/ \E n \in DOMAIN asked : Misused(asked[n])
        \/ dirs = {}
        \/ \E text \in Texts(asked, {"jobs"}) : text.n = 0
        \/ \E text \in Texts(asked, {"build", "clean"}) : ~SetRight(text)
        \/ \E text \in Texts(asked, {"clean-platforms"}) : text.kind = "glob" /\ ~text.valid
        \/ \E text \in Texts(asked, {"platform-selector"}) : text.kind # "selector"
        \/ \E n \in LastUse(asked, {"compat-level"}) : asked[n].args[1].level # "1.1"
        \/ \E n \in Uses(asked, {"help"}) : Len(asked[n].args) \notin 1..2
        \/ \E n \in Uses(asked, {"ant"}) : asked[n].args # <<>>
        \/ ~PathsRight(files, asked)
        \/ Cardinality(SpecialUses(asked)) > 1
        \/ SpecialUses(asked) # {} /\ TargetUses(asked) # SpecialUses(asked)
        \/ CleanSet(asked) /\ \E n \in TargetUses(asked) : ~IsWord(asked[n].args[1], {"clean"})
        \/ /\ SetAsked(in_output, asked) = {}
           /\ Uses(asked, {"only-with-traits", "related-by-traits", "with-rdeps"}) # {}
        \/ /\ in_output
           /\ GivenSet(asked) # {} \/ (SpecialUses(asked) # {} /\ ~CleanTarget(asked))

-----------------------------------------------------------------------------
(* Cleaning *)

Wanted(asked, platform) ==
  Uses(asked, {"clean-platforms"}) = {} \/ \E text \in Texts(asked, {"clean-platforms"}) :
                                               platform \in text.platforms

OutputDirectoriesIn(files, d) ==
  {p \in DOMAIN files : p # <<>> /\ Front(p) = d /\ OutputDirectory(files, p)}

\* What is in the output directories of a directory that are to be removed
RemovedFrom(files, d, asked) ==
  {p \in DOMAIN files :
     \E o \in OutputDirectoriesIn(files, d) :
       o \in Above(p) /\ Wanted(asked, Platforms[Last(o)])}

\* Everything in an output directory in which abuild is started (manual.xml:3706)
Emptied(files, d) == {p \in DOMAIN files : d \in Above(p) /\ p # d}
=============================================================================
