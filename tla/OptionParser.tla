----------------------------- MODULE OptionParser -----------------------------
(***************************************************************************)
(* OptionParser.cc: which option takes which words of the command line.    *)
(*                                                                         *)
(* A word has                                                              *)
(*   option: the option that it names, "" if it does not begin with a dash *)
(*   attached: what follows "=", or the number right behind a letter, in a *)
(*             sequence of at most one                                     *)
(*   text: the word as the argument of an option, or by itself             *)
(* and a text has a kind:                                                  *)
(*   word: letters (word)             number: digits (n)                   *)
(*   name:, pattern:: items by names or by a regular expression, perhaps   *)
(*             not a valid one (names, valid)                              *)
(*   list: names separated by commas (names)                               *)
(*   level: two numbers with a dot (level)                                 *)
(*   glob: a pattern for platforms, perhaps not a valid one (platforms,    *)
(*             valid)                                                      *)
(*   selector: a valid platform selector                                   *)
(*   path: an absolute path (path)    definition: VAR=value                *)
(*   dashed: begins with a dash                                            *)
(***************************************************************************)
EXTENDS Naturals, Sequences, SequencesExt

CONSTANT arguments
  \* by option, type: "none", "numeric", "optional numeric", "string",
  \* "level" (a regular expression) or "list"
  \* ends: the words that end a list; {} is any option
  \* discard: the word that ends the list is skipped
  \* default: the value of an optional number

taking(option, args, next) == [option |-> option, args |-> args, valid |-> TRUE, next |-> next]

\* error_fn does not return.
refused(argv, option) ==
  [option |-> option, args |-> <<>>, valid |-> FALSE, next |-> Len(argv) + 1]

ends(word, data) ==
  /\ word.option # ""
  /\ data.ends # {} => word.option \in data.ends /\ word.attached = <<>>

takeList(argv, n, data) ==
  LET stops == {m \in (n + 1)..Len(argv) : ends(argv[m], data)}
      last == CHOOSE m \in stops \cup {Len(argv) + 1} : \A stop \in stops : m <= stop
  IN taking(argv[n].option,
            argv[n].attached \o [m \in 1..(last - n - 1) |-> argv[n + m].text],
            last + IF stops # {} /\ data.discard THEN 1 ELSE 0)

\* The option of word n, and the argument that it takes
handleOption(argv, n) ==
  LET option == argv[n].option
      attached == argv[n].attached
      data == arguments[option]
      next == IF attached = <<>> /\ n < Len(argv) THEN <<argv[n + 1].text>> ELSE <<>>
      first_arg == attached \o next
      numeric == \E m \in DOMAIN first_arg : first_arg[m].kind = "number"
      takeFirst == taking(option, first_arg, n + 1 + Len(next))
  IN CASE data.type = "none" /\ attached = <<>> -> taking(option, <<>>, n + 1)
       [] data.type \in {"numeric", "optional numeric"} /\ numeric -> takeFirst
       [] data.type = "optional numeric" /\ ~numeric /\ attached = <<>> ->
            taking(option, <<[kind |-> "number", n |-> data.default]>>, n + 1)
       [] data.type = "string" /\ first_arg # <<>> -> takeFirst
       [] data.type = "level" /\ first_arg # <<>> /\ first_arg[1].kind = "level" -> takeFirst
       [] data.type = "list" -> takeList(argv, n, data)
       [] OTHER -> refused(argv, option)

\* The calls of callbacks, in their order
parseOptions(argv) ==
  LET callsFrom[n \in 1..(Len(argv) + 2)] ==
        IF n > Len(argv) THEN <<>>
        ELSE LET option == argv[n].option
                 call == IF option = "" THEN taking("", <<argv[n].text>>, n + 1)
                         ELSE IF option \in DOMAIN arguments THEN handleOption(argv, n)
                         ELSE refused(argv, option)
             IN <<call>> \o callsFrom[call.next]
  IN callsFrom[1]
=============================================================================
