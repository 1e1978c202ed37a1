--------------------------- MODULE InterfaceParser ---------------------------
(***************************************************************************)
(* InterfaceParser.cc, the grammar interface.yy and its nt_ classes: the   *)
(* evaluation of an interface file.                                        *)
(*                                                                         *)
(* A file is the sequence of its blocks.  A word is a sequence of tokens,  *)
(* words a sequence of words.  The parser reads the whole file before it   *)
(* evaluates any of it; all that remains of reading it are the lines it    *)
(* cannot parse.  A regular expression matches the word it is equal to, or *)
(* all of them.                                                            *)
(*                                                                         *)
(* A parser is the record of the interface it fills in and of the state it *)
(* keeps between the files it loads.  Expressions change nothing: what     *)
(* evaluating one returns carries the number of the errors it reports.     *)
(***************************************************************************)
EXTENDS Interfaces

CONSTANTS
  Environment,   \* the environment's variables, a function to words
  Parameters,    \* those of the command line
  MaxNesting,    \* how deeply the calls of a condition may be nested
  MaxBlocks      \* blocks in a file, those in if blocks included

-----------------------------------------------------------------------------
(* Parse trees *)

\* A location is a file, <<kind, number>>, with a line and a column.
Location(kind, number, line) == <<kind, number, line, 1>>
initializerLocation(location) == [location EXCEPT ![4] = 2]

String(pieces) == [kind |-> "string", pieces |-> pieces]
VariableToken(name) == [kind |-> "variable", name |-> name]

\* $(ENV:name), or with a default $(ENV:name:default); and $(PARAM:...).
EnvironmentToken(name, default) ==
  [kind |-> "environment", name |-> name, default |-> default]
ParameterToken(name, default) ==
  [kind |-> "parameter", name |-> name, default |-> default]
NoDefault == <<"no default">>

WordsArgument(words) == [is_function |-> FALSE, words |-> words]
FunctionCall(function, arguments) ==
  [is_function |-> TRUE, function |-> function, arguments |-> arguments]

AssignmentBlock(location, identifier, words) ==
  [block |-> "assignment", location |-> location, identifier |-> identifier,
   words |-> words, assignment_type |-> "normal", flag |-> NoFlag]

\* The prefixes of an assignment.
Override(assignment) == [assignment EXCEPT !.assignment_type = "override"]
Fallback(assignment) == [assignment EXCEPT !.assignment_type = "fallback"]
Flag(flag, assignment) == [assignment EXCEPT !.flag = flag]

NoWords == << <<String(<<"no words">>)>> >>
DeclarationBlock(declaration, initializer) ==
  [block |-> "declaration", declaration |-> declaration, initializer |-> initializer]

\* "reset variable", "no-reset variable" and "reset-all".
Reset(location, identifier, negate) ==
  [block |-> "reset", location |-> location, identifier |-> identifier,
   negate |-> negate]
ResetAll(location) == Reset(location, "", FALSE)

AfterBuildBlock(word) == [block |-> "after-build", argument |-> word]

\* A literal, or a variable.
TargetTypeBlock(is_variable, value) ==
  [block |-> "target-type", is_variable |-> is_variable, value |-> value]

\* A condition that could not be parsed, and the one that "else" has.
NoConditional == [is_function |-> FALSE, words |-> <<>>]

IfClause(conditional, blocks, conditional_expected) ==
  [conditional_okay |-> conditional_expected = (conditional # NoConditional),
   conditional |-> conditional, blocks |-> blocks]

If(conditional, blocks) == IfClause(conditional, blocks, TRUE)
Else(blocks) == IfClause(NoConditional, blocks, FALSE)

\* The "if", every "elseif", and perhaps an "else".
IfBlock(clauses) == [block |-> "if", clauses |-> clauses]

\* A line with a parse error is skipped.
Unparsable == [block |-> "ignore"]

-----------------------------------------------------------------------------
(* Words *)

function_num_arguments ==
  [and |-> 2, or |-> 2, not |-> 1, equals |-> 2, matches |-> 2, contains |-> 2,
   containsmatch |-> 2]

NoFlags == {}

\* What withVariable can do its work with.
initialized(interface, name) ==
  /\ name \in getVariableNames(interface)
  /\ getVariable(interface, name, NoFlags).initialized

evaluateEnvironment(token) ==
  CASE token.name \in DOMAIN Environment ->
         [value |-> <<Environment[token.name]>>, errors |-> 0]
    [] token.name \notin DOMAIN Environment /\ token.default # NoDefault ->
         [value |-> <<token.default>>, errors |-> 0]
    [] OTHER -> [value |-> << <<>> >>, errors |-> 1]

evaluateParameter(token) ==
  CASE token.name \in DOMAIN Parameters ->
         [value |-> <<Parameters[token.name]>>, errors |-> 0]
    [] token.name \notin DOMAIN Parameters /\ token.default # NoDefault ->
         [value |-> <<token.default>>, errors |-> 0]
    [] OTHER -> [value |-> << <<>> >>, errors |-> 1]

evaluateVariable(interface, token) ==
  IF initialized(interface, token.name)
  THEN [value |-> getVariable(interface, token.name, NoFlags).value, errors |-> 0]
  ELSE [value |-> <<>>, errors |-> 1]

evaluateToken(interface, token) ==
  CASE token.kind = "string" -> [value |-> <<token.pieces>>, errors |-> 0]
    [] token.kind = "variable" -> evaluateVariable(interface, token)
    [] token.kind = "environment" -> evaluateEnvironment(token)
    [] token.kind = "parameter" -> evaluateParameter(token)

\* The first word continues the last one of the result; the others follow.
appendVariableValue(result, value) ==
  IF value = <<>> THEN result
  ELSE Front(result) \o <<Last(result) \o Head(value)>> \o Tail(value)

evaluateWord(interface, word) ==
  FoldLeft(LAMBDA acc, token :
             LET e == evaluateToken(interface, token)
             IN [value |-> appendVariableValue(acc.value, e.value),
                 errors |-> acc.errors + e.errors],
           [value |-> << <<>> >>, errors |-> 0], word)

evaluateWords(interface, words) ==
  FoldLeft(LAMBDA acc, word :
             LET e == evaluateWord(interface, word)
             IN [value |-> acc.value \o e.value, errors |-> acc.errors + e.errors],
           [value |-> <<>>, errors |-> 0], words)

-----------------------------------------------------------------------------
(* Arguments *)

isScalarOf(interface, name, type) ==
  LET info == getVariable(interface, name, NoFlags)
  IN info.list_type = "scalar" /\ info.type = type

\* The variables in the word must be scalars of that very type.
checkStringOrFilenameToken(interface, token, type) ==
  IF token.kind = "variable" /\ ~(/\ initialized(interface, token.name)
                                  /\ isScalarOf(interface, token.name, type))
  THEN [valid |-> FALSE, value |-> <<>>, errors |-> 1]
  ELSE LET e == evaluateToken(interface, token)
       IN [valid |-> TRUE, value |-> Head(e.value), errors |-> e.errors]

both(a, b) ==
  [valid |-> a.valid /\ b.valid, value |-> a.value \o b.value, errors |-> a.errors + b.errors]

countInvalid(checked) == IF checked.valid THEN checked ELSE [checked EXCEPT !.errors = @ + 1]

checkStringOrFilenameArgument(interface, argument, type) ==
  countInvalid(
    IF argument.is_function \/ Len(argument.words) # 1
    THEN [valid |-> FALSE, value |-> <<>>, errors |-> 0]
    ELSE FoldLeft(LAMBDA acc, token :
                    both(acc, checkStringOrFilenameToken(interface, token, type)),
                  [valid |-> TRUE, value |-> <<>>, errors |-> 0], argument.words[1]))

checkStringArgument(interface, argument) ==
  checkStringOrFilenameArgument(interface, argument, "string")

AnyWord == <<".*">>
BadExpression == <<"[">>

\* External: boost::regex_match.
matchesExpression(word, expression) == expression = AnyWord \/ word = expression

-----------------------------------------------------------------------------
(* Conditions *)

\* What an evaluation that is not valid, or not wanted, returns.
verdict(valid, truth_value, errors) ==
  [valid |-> valid, truth_value |-> truth_value, errors |-> errors]

\* A variable that has no value is reported and then taken for a valid one.
evaluateBooleanVariable(interface, name, evaluating) ==
  CASE ~evaluating -> verdict(TRUE, FALSE, 0)
    [] evaluating /\ ~initialized(interface, name) -> verdict(TRUE, FALSE, 1)
    [] OTHER ->
         IF isScalarOf(interface, name, "boolean")
         THEN verdict(TRUE, Head(getVariable(interface, name, NoFlags).value) = True, 0)
         ELSE verdict(FALSE, FALSE, 1)

equalsFunction(a, b) ==
  LET valid == a.valid /\ b.valid
  IN verdict(valid, valid /\ a.value = b.value, a.errors + b.errors)

\* "Search the results even if there are errors in evaluating the words."
containsMatch(words, expression, errors) ==
  IF expression = BadExpression THEN verdict(FALSE, FALSE, errors + 1)
  ELSE verdict(TRUE, \E n \in DOMAIN words : matchesExpression(words[n], expression),
               errors)

matchesFunction(a, b) ==
  LET errors == a.errors + b.errors
  IN IF a.valid /\ b.valid THEN containsMatch(<<a.value>>, b.value, errors)
     ELSE verdict(FALSE, FALSE, errors)

\* `regular`: containsmatch, whose second argument is an expression.
containsFunction(words, b, regular) ==
  LET errors == b.errors + words.errors
  IN CASE ~b.valid -> verdict(FALSE, FALSE, b.errors)
       [] b.valid /\ regular -> containsMatch(words.value, b.value, errors)
       [] b.valid /\ ~regular ->
            verdict(TRUE, \E n \in DOMAIN words.value : words.value[n] = b.value, errors)

\* The name of the variable that the argument consists of, if it does.
isSingleVariable(argument) ==
  /\ ~argument.is_function
  /\ Len(argument.words) = 1
  /\ Len(argument.words[1]) = 1
  /\ argument.words[1][1].kind = "variable"

nestedCalls(calls) == {a \in UNION {ToSet(c.arguments) : c \in calls} : a.is_function}

\* A call with those that are nested in it
callsWithin(call) ==
  LET within[depth \in 0..MaxNesting] ==
        IF depth = 0 THEN {call} ELSE {call} \cup nestedCalls(within[depth - 1])
  IN within[MaxNesting]

\* `evaluated`: what evaluateFunction returns for the nested calls, evaluated
\* or not.
checkBooleanArgument(interface, argument, evaluated) ==
  CASE argument.is_function -> evaluated[argument, TRUE]
    [] ~argument.is_function /\ isSingleVariable(argument) ->
         evaluateBooleanVariable(interface, argument.words[1][1].name, TRUE)
    [] OTHER -> verdict(FALSE, FALSE, 1)

\* Both arguments of "and" and "or" are checked, whatever the first one is.
booleanFunction(function, a, b) ==
  LET valid == a.valid /\ b.valid
  IN verdict(valid,
             valid /\ CASE function = "and" -> a.truth_value /\ b.truth_value
                        [] function = "or" -> a.truth_value \/ b.truth_value
                        [] function = "not" -> ~a.truth_value,
             a.errors + b.errors)

\* Of a call that is not evaluated, the names of functions and the numbers
\* of their arguments are checked.
checkNestedFunctions(call, evaluated) ==
  FoldLeft(LAMBDA acc, f :
             LET e == evaluated[f, FALSE]
             IN verdict(acc.valid /\ e.valid, FALSE, acc.errors + e.errors),
           verdict(TRUE, FALSE, 0), SelectSeq(call.arguments, LAMBDA a : a.is_function))

\* A function as the list of "contains" is an error of its own, and is
\* itself evaluated for its errors.
functionAsWords(nested, b) == verdict(FALSE, FALSE, 1 + nested.errors + b.errors)

evaluateCall(interface, call, evaluated) ==
  LET arguments == call.arguments
      boolean(n) == checkBooleanArgument(interface, arguments[n], evaluated)
      string(n) == checkStringArgument(interface, arguments[n])
  IN CASE call.function \in {"and", "or"} -> booleanFunction(call.function, boolean(1), boolean(2))
       [] call.function = "not" -> booleanFunction("not", boolean(1), verdict(TRUE, FALSE, 0))
       [] call.function = "equals" -> equalsFunction(string(1), string(2))
       [] call.function = "matches" -> matchesFunction(string(1), string(2))
       [] call.function \in {"contains", "containsmatch"} /\ arguments[1].is_function ->
            functionAsWords(evaluated[arguments[1], TRUE], string(2))
       [] call.function \in {"contains", "containsmatch"} /\ ~arguments[1].is_function ->
            containsFunction(evaluateWords(interface, arguments[1].words), string(2),
                             call.function = "containsmatch")

validCall(call) ==
  /\ call.function \in DOMAIN function_num_arguments
  /\ Len(call.arguments) = function_num_arguments[call.function]

notEvaluated(valid, nested) ==
  verdict(valid /\ nested.valid, FALSE, nested.errors + (IF valid THEN 0 ELSE 1))

evaluateFunction(interface, call, evaluating) ==
  LET evaluated[c \in callsWithin(call), e \in BOOLEAN] ==
        IF validCall(c) /\ e THEN evaluateCall(interface, c, evaluated)
        ELSE notEvaluated(validCall(c), checkNestedFunctions(c, evaluated))
  IN evaluated[call, evaluating]

evaluateBooleanOrFunction(interface, argument, evaluating) ==
  IF argument.is_function
  THEN evaluateFunction(interface, argument, evaluating)
  ELSE evaluateBooleanVariable(interface, argument.words[1][1].name, evaluating)

evaluateConditional(interface, clause, evaluating) ==
  IF clause.conditional = NoConditional THEN verdict(TRUE, evaluating, 0)
  ELSE evaluateBooleanOrFunction(interface, clause.conditional, evaluating)

-----------------------------------------------------------------------------
(* Blocks *)

NewParser(interface, supported_flags) ==
  [interface |-> interface, supported_flags |-> supported_flags,
   allow_after_build |-> FALSE, after_builds |-> <<>>, protected_from_reset |-> {}]

reportErrors(parser, count) == [parser EXCEPT !.interface.errors = @ + count]

\* no-reset
protectFromReset(parser, name) ==
  IF name \in getVariableNames(parser.interface)
  THEN [parser EXCEPT !.protected_from_reset = @ \cup {name}]
  ELSE reportErrors(parser, 1)

evaluateReset(parser, reset) ==
  LET to_reset == IF reset.identifier = "" THEN getVariableNames(parser.interface)
                  ELSE {reset.identifier}
  IN IF reset.negate THEN protectFromReset(parser, reset.identifier)
     ELSE [parser EXCEPT
             !.interface = FoldSet(LAMBDA name, acc : resetVariable(acc, reset.location, name),
                                   @, to_reset \ parser.protected_from_reset),
             !.protected_from_reset = {}]

assignEvaluated(parser, location, name, e, assignment_type, flag) ==
  [reportErrors(parser, e.errors) EXCEPT
     !.interface = assignVariable(@, name,
       ownAssignment(parser.interface, location, assignment_type, flag, e.value))]

assign(parser, location, name, words, assignment_type, flag) ==
  assignEvaluated(parser, location, name, evaluateWords(parser.interface, words),
                  assignment_type, flag)

\* Flags are checked whether or not the assignment is evaluated.
evaluateAssignment(parser, a, evaluating) ==
  LET checked == IF a.flag \in parser.supported_flags \cup {NoFlag}
                 THEN parser ELSE reportErrors(parser, 1)
  IN IF ~evaluating THEN checked
     ELSE assign(checked, a.location, a.identifier, a.words, a.assignment_type, a.flag)

\* The value that a variable is declared with is a normal assignment.
evaluateDeclaration(parser, block) ==
  LET declaration == block.declaration
      declared == [parser EXCEPT !.interface =
                     declareVariable(@, @.target_type, declaration)]
  IN IF block.initializer = NoWords THEN declared
     ELSE assign(declared, initializerLocation(declaration.location), declaration.name,
                 block.initializer, "normal", NoFlag)

addAfterBuild(parser, file) ==
  LET checked == reportErrors(parser, file.errors)
  IN CASE ~file.valid -> checked
       [] file.valid /\ file.value = <<>> -> [checked EXCEPT !.interface.assertion = FALSE]
       [] file.valid /\ file.value # <<>> ->
            [checked EXCEPT !.after_builds =
               Append(@, normalizeFilename(parser.interface, file.value))]

evaluateAfterBuild(parser, block, evaluating) ==
  LET allowed == IF parser.allow_after_build THEN parser ELSE reportErrors(parser, 1)
  IN IF ~evaluating THEN allowed
     ELSE addAfterBuild(allowed, checkStringOrFilenameArgument(
                                   parser.interface, WordsArgument(<<block.argument>>), "filename"))

TargetTypes == {"all", "platform-independent", "object-code", "java"}

setTarget(parser, type) ==
  IF type \in TargetTypes
  THEN [parser EXCEPT !.interface = setTargetType(@, type)]
  ELSE reportErrors(parser, 1)

\* A variable that is no string scalar is reported; its name is then looked
\* up as a type, which TargetType::getID asserts it is.
targetTypeVariable(parser, name) ==
  LET interface == parser.interface
  IN CASE ~initialized(interface, name) -> reportErrors(parser, 2)
       [] initialized(interface, name) /\ isScalarOf(interface, name, "string") ->
            LET word == Head(getVariable(interface, name, NoFlags).value)
            IN setTarget(parser, IF Len(word) = 1 THEN Head(word) ELSE "none")
       [] OTHER -> [reportErrors(parser, 1) EXCEPT !.interface.assertion = FALSE]

evaluateTargetType(parser, block, evaluating) ==
  CASE evaluating /\ block.is_variable -> targetTypeVariable(parser, block.value)
    [] evaluating /\ ~block.is_variable -> setTarget(parser, block.value)
    [] ~evaluating -> IF block.is_variable \/ block.value \in TargetTypes THEN parser
                      ELSE reportErrors(parser, 1)

\* The first clause whose condition is true; none if any of them has errors.
selectedClause(outcomes, clauses) ==
  LET valid == \A n \in DOMAIN clauses : clauses[n].conditional_okay /\ outcomes[n].valid
      true == {n \in DOMAIN clauses : outcomes[n].truth_value}
  IN IF valid /\ true # {} THEN Min(true) ELSE 0

\* The calls of evaluateBlock that are still to be made, in their order.
calls(blocks, evaluating) ==
  [n \in DOMAIN blocks |-> [block |-> blocks[n], evaluating |-> evaluating]]

\* All the conditions are evaluated before the first clause is; the other
\* clauses are looked through for errors.
evaluateClauses(parser, clauses, outcomes, rest) ==
  LET selected == selectedClause(outcomes, clauses)
  IN [parser |-> reportErrors(parser, FoldLeft(LAMBDA acc, o : acc + o.errors, 0, outcomes)),
      todo |-> FlattenSeq([n \in DOMAIN clauses |-> calls(clauses[n].blocks, n = selected)])
                 \o rest]

evaluateIfBlock(parser, clauses, evaluating, rest) ==
  evaluateClauses(parser, clauses,
                  [n \in DOMAIN clauses |->
                     IF clauses[n].conditional_okay
                     THEN evaluateConditional(parser.interface, clauses[n], evaluating)
                     ELSE verdict(FALSE, FALSE, 1)], rest)

evaluateSimpleBlock(parser, b, evaluating) ==
  CASE b.block = "reset" -> IF evaluating THEN evaluateReset(parser, b) ELSE parser
    [] b.block = "assignment" -> evaluateAssignment(parser, b, evaluating)
    [] b.block = "declaration" ->
         IF evaluating THEN evaluateDeclaration(parser, b) ELSE parser
    [] b.block = "after-build" -> evaluateAfterBuild(parser, b, evaluating)
    [] b.block = "target-type" -> evaluateTargetType(parser, b, evaluating)
    [] b.block = "ignore" -> reportErrors(parser, 1)

\* The blocks of an if block are evaluated before those after it.
evaluateBlock(parser, call, rest) ==
  IF call.block.block = "if"
  THEN evaluateIfBlock(parser, call.block.clauses, call.evaluating, rest)
  ELSE [parser |-> evaluateSimpleBlock(parser, call.block, call.evaluating), todo |-> rest]

evaluateBlocks(parser, blocks, evaluating) ==
  LET after[n \in 0..MaxBlocks] ==
        IF n = 0 THEN [parser |-> parser, todo |-> calls(blocks, evaluating)]
        ELSE LET last == after[n - 1]
             IN IF last.todo = <<>> THEN last
                ELSE evaluateBlock(last.parser, Head(last.todo), Tail(last.todo))
  IN CASE after[MaxBlocks].todo = <<>> -> after[MaxBlocks].parser

\* Paths are relative to the directory of the file.  "True iff" no error
\* has been reported; compare parser.interface.errors.
parse(parser, dir, blocks, allow_after_build) ==
  evaluateBlocks(
    [parser EXCEPT !.interface.local_directory = dir, !.after_builds = <<>>,
                   !.allow_after_build = allow_after_build],
    blocks, TRUE)
=============================================================================
