----------------------------- MODULE Interfaces -----------------------------
(***************************************************************************)
(* Interface.cc: the symbol table that passes a build item's variables on  *)
(* to the items that depend on it.  A variable has no value of its own but *)
(* the history of its assignments, each with the place it was made at, the *)
(* item and platform it was made for, and perhaps a flag of that item.     *)
(*                                                                         *)
(* A word of a value is the sequence of the pieces it was put together     *)
(* from, so that <<>> is the empty word; a value is a sequence of words.   *)
(* Every operation returns the interface it leaves behind.  `errors`       *)
(* counts the calls of the error handler: an operation has succeeded       *)
(* exactly if it leaves the count as it was.                               *)
(***************************************************************************)
EXTENDS Integers, SequencesExt

NoFlag == "no flag"

NewInterface(item_name, item_platform, dir) ==
  [item_name |-> item_name, item_platform |-> item_platform,
   local_directory |-> dir,        \* a word
   target_type |-> "all",
   symbol_table |-> <<>>,          \* by name, once declared
   errors |-> 0,
   assertion |-> TRUE]             \* no assertion has failed

reportError(interface) == [interface EXCEPT !.errors = @ + 1]

getVariableNames(interface) == DOMAIN interface.symbol_table

setTargetType(interface, type) == [interface EXCEPT !.target_type = type]

setVariable(interface, name, variable) ==
  [interface EXCEPT !.symbol_table = (name :> variable) @@ @]

-----------------------------------------------------------------------------
(* Declaration *)

Declaration(location, name, scope, type, list_type) ==
  [location |-> location, name |-> name, scope |-> scope, type |-> type,
   list_type |-> list_type]

\* The same declaration, met again on another path, is no error.
declareVariable(interface, target_type, declaration) ==
  LET name == declaration.name
  IN IF name \notin getVariableNames(interface)
     THEN setVariable(interface, name,
            [declaration |-> declaration, target_type |-> target_type,
             assignment_history |-> <<>>, reset_history |-> <<>>])
     ELSE IF interface.symbol_table[name].declaration.location = declaration.location
          THEN interface
          ELSE reportError(interface)

-----------------------------------------------------------------------------
(* Assignment *)

Assignment(location, assignment_type, flag, item_name, item_platform, value) ==
  [location |-> location, assignment_type |-> assignment_type, flag |-> flag,
   item_name |-> item_name, item_platform |-> item_platform, value |-> value]

True == <<"1">>
False == <<"0">>
BooleanWords == {True, False, <<"true">>, <<"false">>}

isAbsolutePath(word) == Head(word) = "/"

\* Paths below the local directory; none of them contains "..".
normalizeFilename(interface, word) ==
  IF isAbsolutePath(word) THEN word
  ELSE interface.local_directory \o (IF word = <<".">> THEN <<>> ELSE <<"/">> \o word)

wellTyped(type, word) ==
  CASE type = "boolean" -> word \in BooleanWords
    [] type = "filename" -> word # <<>>
    [] type = "string" -> TRUE

normalizeWord(interface, type, word) ==
  CASE type = "boolean" /\ word = <<"true">> -> True
    [] type = "boolean" /\ word = <<"false">> -> False
    [] type = "filename" /\ word # <<>> -> normalizeFilename(interface, word)
    [] OTHER -> word

\* What is wrong with assigning these words to the variable.
illTyped(declaration, words) ==
  \/ declaration.list_type = "scalar" /\ Len(words) # 1
  \/ \E n \in DOMAIN words : ~wellTyped(declaration.type, words[n])

\* A statement that was seen before, for this platform.
sameAssignment(a, b) == a.location = b.location /\ a.item_platform = b.item_platform

\* Only the first assignment of the history is looked at.
previous_normal_assignment(history) ==
  history # <<>> /\ history[1].assignment_type = "normal"

\* A scalar that has a value takes no other normal one, unless another
\* platform's instance of the same statement gave it the same one.
conflicting(declaration, history, assignment) ==
  IF declaration.list_type = "scalar"
  THEN /\ assignment.assignment_type = "normal"
       /\ previous_normal_assignment(history)
       /\ \/ history[1].location # assignment.location
          \/ history[1].value # assignment.value
  ELSE assignment.assignment_type # "normal"

\* Mutant: fallback assignments are kept in the order in which they appear.
record_inOrder(declaration, history, assignment) == Append(history, assignment)

\* An erroneous assignment is reported and then made.
record(declaration, history, assignment) ==
  IF declaration.list_type = "scalar" /\ assignment.assignment_type = "fallback"
  THEN <<assignment>> \o history
  ELSE Append(history, assignment)

\* The words, of which a scalar has at least an empty one.
wordsFor(declaration, words) ==
  IF declaration.list_type = "scalar" /\ words = <<>> THEN << <<>> >> ELSE words

normalized(interface, type, words) ==
  [n \in DOMAIN words |-> normalizeWord(interface, type, words[n])]

\* The assignment is recorded unless it is an old one.
make(interface, name, variable, assignment) ==
  LET declaration == variable.declaration
      history == variable.assignment_history
      old == SelectSeq(history, LAMBDA a : sameAssignment(a, assignment))
      updated == setVariable(interface, name,
                   [variable EXCEPT !.assignment_history = record(declaration, @, assignment)])
  IN CASE old # <<>> ->
            [interface EXCEPT !.assertion = @ /\ old[1].value = assignment.value]
       [] old = <<>> /\ conflicting(declaration, history, assignment) -> reportError(updated)
       [] OTHER -> updated

assignWords(interface, name, variable, assignment, words) ==
  make(IF illTyped(variable.declaration, words) THEN reportError(interface) ELSE interface,
       name, variable,
       [assignment EXCEPT !.value = normalized(interface, variable.declaration.type, words)])

assignKnown(interface, name, variable, assignment) ==
  assignWords(interface, name, variable, assignment,
              wordsFor(variable.declaration, assignment.value))

assignVariable(interface, name, assignment) ==
  IF name \in getVariableNames(interface)
  THEN assignKnown(interface, name, interface.symbol_table[name], assignment)
  ELSE reportError(interface)

\* An assignment that the interface's own item makes.
ownAssignment(interface, location, assignment_type, flag, words) ==
  Assignment(location, assignment_type, flag, interface.item_name,
             interface.item_platform, words)

-----------------------------------------------------------------------------
(* Reset *)

noteReset(interface, name, reset) ==
  LET variable == interface.symbol_table[name]
  IN IF \E n \in DOMAIN variable.reset_history : variable.reset_history[n] = reset
     THEN interface
     ELSE setVariable(interface, name, [variable EXCEPT !.reset_history = Append(@, reset)])

resetVariable(interface, location, name) ==
  IF name \notin getVariableNames(interface)
  THEN reportError(interface)
  ELSE noteReset(
         setVariable(interface, name,
           [interface.symbol_table[name] EXCEPT !.assignment_history = <<>>]),
         name,
         [location |-> location, item_name |-> interface.item_name,
          item_platform |-> interface.item_platform])

-----------------------------------------------------------------------------
(* Import *)

\* Of a non-recursive variable only what its owner itself has assigned.
visibleToImporter(other, variable) ==
  IF variable.declaration.scope = "recursive"
  THEN variable.assignment_history
  ELSE SelectSeq(variable.assignment_history,
                 LAMBDA a : a.item_name = other.item_name)

\* A conflicting declaration keeps the history out as well.
importHistory(declared, other, name, variable) ==
  LET reset == FoldLeft(LAMBDA acc, r : noteReset(acc, name, r),
                        declared, variable.reset_history)
  IN FoldLeft(LAMBDA acc, a : assignVariable(acc, name, a),
              reset, visibleToImporter(other, variable))

importDeclared(interface, declared, other, name) ==
  IF declared.errors # interface.errors THEN declared
  ELSE importHistory(declared, other, name, other.symbol_table[name])

importVariable(interface, other, name) ==
  LET variable == other.symbol_table[name]
  IN importDeclared(interface,
                    declareVariable(interface, variable.target_type, variable.declaration),
                    other, name)

\* Local variables are not imported at all.
importInterface(interface, other) ==
  FoldSet(LAMBDA name, acc : importVariable(acc, other, name), interface,
          {name \in getVariableNames(other) :
             other.symbol_table[name].declaration.scope # "local"})

-----------------------------------------------------------------------------
(* Value *)

\* The assignments that count when these flags, <<item, flag>>, are set.
effectiveAssignments(variable, flags) ==
  SelectSeq(variable.assignment_history,
            LAMBDA a : a.flag = NoFlag \/ <<a.item_name, a.flag>> \in flags)

valueOf(list_type, assignments) ==
  LET values == [n \in DOMAIN assignments |-> assignments[n].value]
  IN CASE list_type = "scalar" -> Last(values)
       [] list_type = "append" -> FlattenSeq(values)
       [] list_type = "prepend" -> FlattenSeq(Reverse(values))

VariableInformation(variable, assignments) ==
  LET list_type == variable.declaration.list_type
  IN [target_type |-> variable.target_type, type |-> variable.declaration.type,
      list_type |-> list_type,
      initialized |-> assignments # <<>>,
      value |-> IF assignments = <<>> THEN <<>> ELSE valueOf(list_type, assignments)]

getVariable(interface, name, flags) ==
  LET variable == interface.symbol_table[name]
  IN VariableInformation(variable, effectiveAssignments(variable, flags))

\* What a backend is given of an interface.
getVariablesForTargetType(interface, target_type, flags) ==
  [name \in {n \in getVariableNames(interface) :
               interface.symbol_table[n].target_type \in {"all", target_type}} |->
     getVariable(interface, name, flags)]
=============================================================================
