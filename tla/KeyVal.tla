-------------------------------- MODULE KeyVal --------------------------------
(***************************************************************************)
(* Files of keys and values: KeyVal.cc, which reads Abuild.conf and        *)
(* Abuild.backing.                                                         *)
(*                                                                         *)
(* A file is a sequence of lines:                                          *)
(*   comment: it begins with "#"                                           *)
(*   key: the key before the first colon, in a set of at most one          *)
(*   words: the words after the colon or, if there is no key, all words    *)
(*   more: it ends with a continuation character                           *)
(* Values are sequences of words, as splitBySpace returns them.  What is   *)
(* kept in order to write a file again is left out.                        *)
(***************************************************************************)
EXTENDS Naturals, Sequences, SequencesExt

\* What a key with its colon is when a line is read as part of a value
KeyWord == [kind |-> "other", name |-> 0]

content(line) == IF line.key = {} THEN line.words ELSE <<KeyWord>> \o line.words

\* The file so far.  value: the key whose value is being accumulated, in a set
\* of at most one, where an invalid key stands for the text that is dropped.
EmptyFile(keys) ==
  [data |-> [key \in keys |-> <<>>], explicit_keys |-> {}, value |-> {}, ok |-> TRUE]

continueValue(file, line) ==
  IF line.comment THEN file
  ELSE [file EXCEPT
          !.data = [k \in DOMAIN file.data |->
                      IF k \in file.value THEN file.data[k] \o content(line)
                      ELSE file.data[k]],
          !.value = IF line.more THEN @ ELSE {}]

\* "duplicate value for ... (using new value)", "invalid key ... (ignored)"
newValue(file, line) ==
  LET key == CHOOSE k \in line.key : TRUE
      valid == key \in DOMAIN file.data
  IN [file EXCEPT
        !.data = [k \in DOMAIN file.data |-> IF k = key THEN line.words ELSE file.data[k]],
        !.explicit_keys = IF valid THEN @ \cup {key} ELSE @,
        !.value = IF line.more THEN {key} ELSE {},
        !.ok = @ /\ valid /\ key \notin file.explicit_keys]

blank(line) == line.comment \/ (line.key = {} /\ line.words = <<>> /\ ~line.more)

readLine(file, line) ==
  CASE file.value # {} -> continueValue(file, line)
    [] file.value = {} /\ blank(line) -> file
    [] file.value = {} /\ ~blank(line) /\ line.key # {} -> newValue(file, line)
    [] OTHER -> [file EXCEPT !.ok = FALSE]

\* A file must not end within a value, and must have the required keys.
readFile(lines, required, optional) ==
  LET file == FoldLeft(readLine, EmptyFile(required \cup optional), lines)
  IN [data |-> file.data, explicit_keys |-> file.explicit_keys,
      ok |-> file.ok /\ file.value = {} /\ required \subseteq file.explicit_keys]
=============================================================================
