-------------------------- MODULE ItemBuilderProofs --------------------------
(***************************************************************************)
(* Proofs about ItemBuilder, for every checked graph, every set of inputs, *)
(* and every tree with whatever its interface files contain.               *)
(*                                                                         *)
(* The evaluator's part rests on the theorems of DependencyEvaluatorProofs:*)
(* buildBuildset and the runner's thread call nothing but its operations.  *)
(* The evaluation of interface files is left closed: what the proofs need  *)
(* of a step of itemBuilder is which of its ends it takes, and that it     *)
(* leaves an interface behind.                                             *)
(***************************************************************************)
EXTENDS ItemBuilder, ListLemmas

EP == INSTANCE DependencyEvaluatorProofs

WithBackend == {"backend", "backend succeeded", "backend failed"}
Phases == {"none", "started", "succeeded", "failed"} \cup WithBackend

Types ==
  /\ thread \in [Items -> Phases]
  /\ failed_builds \in Seq(Items)
  /\ dep_failure \in Items \cup {NoItem}
  /\ any_errors \in BOOLEAN
  /\ DOMAIN interfaces \subseteq Items

\* itemBuilder is called for the items the evaluator takes for running.
Threads == \A i \in Items : thread[i] # "none" <=> states[i] = "running"

\* What the runner's thread knows.
Quiet ==
  pending = <<>> /\ dep_failure = NoItem /\ \A i \in Items : thread[i] = "none"
Control ==
  /\ pc # "building" => Quiet
  /\ dep_failure # NoItem => states[dep_failure] = "depfailed"
  /\ any_errors <=> \E i \in Items : states[i] = "failed"
  /\ ~propagate_failure => \A i \in Items : states[i] # "depfailed"

\* The list of failures: each once, and exactly those that have been noted.
Noted(i) ==
  \/ thread[i] = "failed"
  \/ states[i] = "failed"
  \/ states[i] = "depfailed" /\ i \in config.forced_failures /\ dep_failure # i
Failures ==
  Distinct(failed_builds) /\ Elems(failed_builds) = {i \in Items : Noted(i)}

\* Where itemBuilder has got past the item's interface file, or back from
\* its call, there is an interface.
PastInterface(i) ==
  states[i] = "completed" \/ thread[i] \in WithBackend \cup {"succeeded"}
InterfacesThere ==
  \A i \in Items : PastInterface(i) => option.no_op \/ i \in DOMAIN interfaces

Bookkeeping ==
  Types /\ Threads /\ Control /\ Failures /\ InterfacesThere /\ ImportsReady

IInv == EP!IInv /\ Bookkeeping

-----------------------------------------------------------------------------
(* The evaluator within buildBuildset *)

\* The assumptions under which DependencyEvaluatorProofs proves its theorems.
LEMMA EvaluatorAssumptions ==
  /\ Items \subseteq Nat /\ EP!IsFiniteSet(Items)
  /\ \A g \in Graphs : EP!CheckedGraph(g, Items)
<1>1. EP!IsFiniteSet(Items)
  BY ItemsAssumption DEF EP!IsFiniteSet, IsFiniteSet
<1>2. \A g \in Graphs : EP!CheckedGraph(g, Items)
  BY GraphsAssumption
  DEF EP!CheckedGraph, E!CheckedGraph, EP!Enumerates, E!Enumerates,
      EP!DependenciesFirst, E!DependenciesFirst, EP!Reverses, E!Reverses,
      EP!Elems, E!Elems
<1> QED BY <1>1, <1>2, ItemsAssumption

LEMMA EvaluatorInit == Init => EP!Init
  BY DEF Init, E!Init, EP!Init, E!getDirectDependencies, EP!getDirectDependencies

\* The operators of the two instances mean the same.
LEMMA EvaluatorOperators ==
  ASSUME NEW i
  PROVE  /\ EP!Blocked(i) <=> E!Blocked(i)
         /\ EP!DependencyFailed(i) <=> E!DependencyFailed(i)
         /\ EP!Deps(i) = E!Deps(i)
         /\ EP!getReverseDependencies(i) = E!getReverseDependencies(i)
<1>1. EP!LookedAt(i) = E!LookedAt(i)
  BY DEF EP!LookedAt, E!LookedAt, EP!Unsuccessful, E!Unsuccessful,
         EP!getDirectDependencies, E!getDirectDependencies
<1>2. EP!Blocked(i) <=> E!Blocked(i)
  BY <1>1
  DEF EP!Blocked, E!Blocked, EP!Unsuccessful, E!Unsuccessful,
      EP!getDirectDependencies, E!getDirectDependencies
<1>3. EP!DependencyFailed(i) <=> E!DependencyFailed(i)
  BY <1>1
  DEF EP!DependencyFailed, E!DependencyFailed, EP!Unsuccessful, E!Unsuccessful,
      EP!getDirectDependencies, E!getDirectDependencies
<1>4. EP!Deps(i) = E!Deps(i)
  BY DEF EP!Deps, E!Deps, EP!Elems, E!Elems, EP!getDirectDependencies,
         E!getDirectDependencies
<1>5. EP!getReverseDependencies(i) = E!getReverseDependencies(i)
  BY DEF EP!getReverseDependencies, E!getReverseDependencies
<1> QED BY <1>2, <1>3, <1>4, <1>5

LEMMA EvaluateItem ==
  ASSUME NEW i, E!evaluateItem(i)
  PROVE  EP!evaluateItem(i)
<1>1. EP!Blocked(i) <=> E!Blocked(i)
  BY EvaluatorOperators
<1>2. EP!DependencyFailed(i) <=> E!DependencyFailed(i)
  BY EvaluatorOperators
<1>3. EP!getReverseDependencies(i) = E!getReverseDependencies(i)
  BY EvaluatorOperators
<1> QED BY <1>1, <1>2, <1>3 DEF E!evaluateItem, EP!evaluateItem

\* Whatever step is taken, the evaluator takes one of its own.
LEMMA EvaluatorNext == [Next]_vars => [EP!Next]_EP!vars
<1> SUFFICES ASSUME [Next]_vars PROVE [EP!Next]_EP!vars
  OBVIOUS
<1>1. CASE UNCHANGED evaluator
  BY <1>1 DEF evaluator, EP!vars
<1>2. CASE E!disableFailurePropagation
  BY <1>2 DEF E!disableFailurePropagation, EP!disableFailurePropagation, EP!Next
<1>3. CASE \E i \in Items : E!setRunning(i)
  BY <1>3 DEF E!setRunning, EP!setRunning, EP!Next
<1>4. CASE \E i \in Items : E!setCompleted(i)
  BY <1>4 DEF E!setCompleted, EP!setCompleted, E!setFinished, EP!setFinished,
              E!getReverseDependencies, EP!getReverseDependencies, EP!Next
<1>5. CASE \E i \in Items : E!setFailed(i)
  BY <1>5 DEF E!setFailed, EP!setFailed, E!setFinished, EP!setFinished,
              E!getReverseDependencies, EP!getReverseDependencies, EP!Next
<1>6. CASE E!evaluate
  <2>1. EP!evaluate
    BY <1>6, EvaluateItem DEF E!evaluate, EP!evaluate
  <2> QED BY <2>1 DEF EP!Next
<1> QED
  BY <1>1, <1>2, <1>3, <1>4, <1>5, <1>6
  DEF Next, vars, itemBuilder, backendReturns, backendEnds, pluginsFail, start,
      dispatch, finished, evaluate, stateChangeCallback, buildComplete, Over

LEMMA EvaluatorInvariant ==
  /\ Init => EP!IInv
  /\ EP!IInv /\ [Next]_vars => EP!IInv'
<1>1. EP!Init => EP!IInv
  BY EP!InitIInv, EvaluatorAssumptions
<1>2. EP!IInv /\ [EP!Next]_EP!vars => EP!IInv'
  BY EP!NextIInv, EvaluatorAssumptions
<1> QED BY <1>1, <1>2, EvaluatorInit, EvaluatorNext

\* What the proofs below need of the evaluator.
LEMMA EvaluatorFacts ==
  ASSUME EP!IInv
  PROVE  /\ states \in [Items -> E!ItemState]
         /\ pending \in Seq(Items)
         /\ \A i \in Items : E!Deps(i) \subseteq Items
<1>1. EP!TypeOK
  BY DEF EP!IInv
<1>2. ASSUME NEW i \in Items PROVE E!Deps(i) \subseteq Items
  <2>1. EP!Deps(i) \subseteq Items
    BY <1>1, EP!GraphFacts, EvaluatorAssumptions
  <2> QED BY <2>1, EvaluatorOperators
<1> QED BY <1>1, <1>2 DEF EP!TypeOK, EP!ItemState, E!ItemState

-----------------------------------------------------------------------------
(* The steps of itemBuilder *)

\* What they leave behind: the item's own interface, or no new one; ...
OwnInterface(i) ==
  /\ DOMAIN interfaces \subseteq DOMAIN interfaces'
  /\ DOMAIN interfaces' \subseteq DOMAIN interfaces \cup {i}
  /\ \A j \in DOMAIN interfaces : j # i => interfaces'[j] = interfaces[j]

\* ... the end of the call, successful only with an interface or for a no-op,
\* or the call of the backend, ...
Proceeds(i) ==
  \/ returns(i, FALSE)
  \/ returns(i, TRUE) /\ (option.no_op \/ i \in DOMAIN interfaces')
  \/ /\ thread' = [thread EXCEPT ![i] = "backend"]
     /\ UNCHANGED failed_builds
     /\ i \in DOMAIN interfaces'

\* ... unless the process dies of a missing interface.
Effect(i) ==
  /\ OwnInterface(i)
  /\ \/ Proceeds(i) /\ crash' # "missing interface"
     \/ importsMissing(i)

LEMMA SetInterface ==
  ASSUME NEW i \in Items, NEW parser, setInterface(i, parser)
  PROVE  OwnInterface(i) /\ i \in DOMAIN interfaces' /\ crash' # "missing interface"
  BY DEF setInterface, OwnInterface

LEMMA ReadAfterBuilds ==
  ASSUME NEW i \in Items, NEW parser, readAfterBuilds(i, parser)
  PROVE  OwnInterface(i) /\ Proceeds(i) /\ crash' # "missing interface"
<1> DEFINE files(missing) == SelectSeq(parser.after_builds,
                               LAMBDA f : f \in DOMAIN tree.files \ missing)
<1>1. PICK missing \in SUBSET ToSet(parser.after_builds) :
        filesRead(i, readFiles(parser, files(missing)),
                  files(missing) = parser.after_builds)
  BY DEF readAfterBuilds
<1> DEFINE read == readFiles(parser, files(missing))
           all == files(missing) = parser.after_builds
<1>2. setInterface(i, read)
  BY <1>1 DEF filesRead
<1>3. returns(i, all /\ read.interface.errors = 0)
  BY <1>1 DEF filesRead
<1> HIDE DEF files, read, all
<1>4. OwnInterface(i) /\ i \in DOMAIN interfaces' /\ crash' # "missing interface"
  BY <1>2, SetInterface
<1>5. returns(i, TRUE) \/ returns(i, FALSE)
  BY <1>3 DEF returns
<1> QED BY <1>4, <1>5 DEF Proceeds

LEMMA AfterInterface ==
  ASSUME NEW i \in Items, NEW parser, afterInterface(i, parser)
  PROVE  Effect(i)
<1>1. CASE interfaceError(i, parser)
  BY <1>1, SetInterface DEF interfaceError, Effect, Proceeds
<1>2. CASE noBuildFile(i, parser)
  <2>1. OwnInterface(i) /\ i \in DOMAIN interfaces' /\ crash' # "missing interface"
    BY <1>2, SetInterface DEF noBuildFile
  <2>2. returns(i, TRUE) \/ returns(i, FALSE)
    BY <1>2 DEF noBuildFile, returns
  <2> QED BY <2>1, <2>2 DEF Effect, Proceeds
<1>3. CASE assumedBuilt(i, parser)
  BY <1>3, ReadAfterBuilds DEF assumedBuilt, Effect
<1>4. CASE invokeBackend(i, parser)
  BY <1>4, SetInterface DEF invokeBackend, Effect, Proceeds
<1> QED BY <1>1, <1>2, <1>3, <1>4 DEF afterInterface

LEMMA ItemBuilderEffect ==
  ASSUME NEW i \in Items, itemBuilder(i), crash = "none"
  PROVE  Effect(i)
<1>1. CASE suppressed(i)
  BY <1>1 DEF suppressed, Effect, OwnInterface, Proceeds
<1>2. CASE noOp(i)
  BY <1>2 DEF noOp, Effect, OwnInterface, Proceeds
<1>3. CASE importsMissing(i)
  BY <1>3 DEF importsMissing, Effect, OwnInterface
<1>4. CASE withInterface(i)
  BY <1>4, AfterInterface DEF withInterface
<1> QED BY <1>1, <1>2, <1>3, <1>4 DEF itemBuilder

LEMMA BackendEndsEffect ==
  ASSUME NEW i \in Items, backendEnds(i), crash = "none"
  PROVE  OwnInterface(i) /\ Proceeds(i) /\ crash' # "missing interface"
<1>1. CASE backendFailed(i) /\ UNCHANGED crash
  BY <1>1 DEF backendFailed, OwnInterface, Proceeds
<1>2. CASE backendSucceeded(i)
  BY <1>2, ReadAfterBuilds DEF backendSucceeded
<1> QED BY <1>1, <1>2 DEF backendEnds

-----------------------------------------------------------------------------
(* The invariant *)

LEMMA InitIInv == Init => IInv
<1> SUFFICES ASSUME Init PROVE IInv
  OBVIOUS
<1>1. /\ thread = [i \in Items |-> "none"]
      /\ failed_builds = <<>> /\ dep_failure = NoItem /\ any_errors = FALSE
      /\ pending = <<>> /\ propagate_failure = TRUE
      /\ DOMAIN interfaces = {} /\ crash = "none"
  BY DEF Init, E!Init, NoInterface
<1>2. \A i \in Items : states[i] \in {"waiting", "ready"}
  BY DEF Init, E!Init
<1>3. EP!IInv
  BY EvaluatorInvariant
<1>4. Types
  <2>1. thread \in [Items -> Phases]
    BY <1>1 DEF Phases
  <2>2. failed_builds \in Seq(Items)
    BY <1>1
  <2> QED BY <1>1, <2>1, <2>2 DEF Types
<1>5. Threads /\ Control
  BY <1>1, <1>2 DEF Threads, Control, Quiet
<1>6. Failures
  BY <1>1, <1>2 DEF Failures, Noted, Distinct, Elems
<1>7. InterfacesThere /\ ImportsReady
  BY <1>1, <1>2 DEF InterfacesThere, PastInterface, WithBackend, ImportsReady, ImportsExist
<1> QED BY <1>3, <1>4, <1>5, <1>6, <1>7 DEF IInv, Bookkeeping

\* The list grows by an item that has not been noted.
LEMMA FailureNoted ==
  ASSUME IInv, NEW i \in Items, ~Noted(i), failed_builds' = Append(failed_builds, i),
         Noted(i)', \A j \in Items : j # i => Noted(j)' = Noted(j)
  PROVE  Failures' /\ failed_builds' \in Seq(Items)
<1>1. /\ failed_builds \in Seq(Items)
      /\ Distinct(failed_builds)
      /\ Elems(failed_builds) = {j \in Items : Noted(j)}
  BY DEF IInv, Bookkeeping, Types, Failures
<1>2. Distinct(failed_builds')
  BY <1>1, DistinctAppend
<1>3. Elems(failed_builds') = Elems(failed_builds) \cup {i}
  BY <1>1, ElemsOfAppend
<1>4. {j \in Items : Noted(j)}' = {j \in Items : Noted(j)} \cup {i}
  OBVIOUS
<1>5. failed_builds' \in Seq(Items)
  BY <1>1
<1> QED BY <1>1, <1>2, <1>3, <1>4, <1>5 DEF Failures

LEMMA NothingNoted ==
  ASSUME IInv, UNCHANGED failed_builds, \A j \in Items : Noted(j)' = Noted(j)
  PROVE  Failures'
<1>1. {j \in Items : Noted(j)}' = {j \in Items : Noted(j)}
  OBVIOUS
<1> QED BY <1>1 DEF IInv, Bookkeeping, Failures, Distinct, Elems

\* itemBuilder goes on, or ends.
LEMMA ProceedsStep ==
  ASSUME IInv, NEW i \in Items,
         thread[i] \in {"started", "backend succeeded", "backend failed"},
         OwnInterface(i), Proceeds(i), UNCHANGED <<evaluator, input, runner>>
  PROVE  Types' /\ Threads' /\ Control' /\ Failures' /\ InterfacesThere'
<1>0. /\ UNCHANGED <<states, pending, propagate_failure>>
      /\ UNCHANGED <<config, option, dep_failure, any_errors, pc>>
  BY DEF evaluator, input, runner
<1>1. thread \in [Items -> Phases] /\ states[i] = "running"
  BY DEF IInv, Bookkeeping, Types, Threads
<1>2. pc = "building"
  BY DEF IInv, Bookkeeping, Control, Quiet
<1>3. /\ \A j \in Items : j # i => thread'[j] = thread[j]
      /\ thread' \in [Items -> Phases]
      /\ \/ thread'[i] = "failed" /\ failed_builds' = Append(failed_builds, i)
         \/ /\ thread'[i] \in {"succeeded", "backend"} /\ UNCHANGED failed_builds
            /\ option.no_op \/ i \in DOMAIN interfaces'
  BY <1>1 DEF Proceeds, returns, Phases, WithBackend
<1>4. /\ ~Noted(i)
      /\ Noted(i)' <=> thread'[i] = "failed"
      /\ \A j \in Items : j # i => Noted(j)' = Noted(j)
  BY <1>0, <1>1, <1>3 DEF Noted
<1>5. Failures' /\ failed_builds' \in Seq(Items)
  <2>1. CASE thread'[i] = "failed" /\ failed_builds' = Append(failed_builds, i)
    BY <2>1, <1>4, FailureNoted
  <2>2. CASE thread'[i] # "failed" /\ UNCHANGED failed_builds
    <3>1. ~Noted(i) /\ ~Noted(i)'
      BY <2>2, <1>4
    <3>2. Noted(i)' = Noted(i)
      BY <3>1 DEF Noted
    <3>3. \A j \in Items : Noted(j)' = Noted(j)
      BY <1>4, <3>2
    <3> QED BY <2>2, <3>3, NothingNoted DEF IInv, Bookkeeping, Types
  <2> QED BY <1>3, <2>1, <2>2
<1>6. Types'
  BY <1>0, <1>3, <1>5 DEF IInv, Bookkeeping, Types, OwnInterface
<1>7. Threads'
  BY <1>0, <1>1, <1>3 DEF IInv, Bookkeeping, Threads
<1>8. Control'
  BY <1>0, <1>2 DEF IInv, Bookkeeping, Control
<1>9. InterfacesThere'
  BY <1>0, <1>1, <1>3
  DEF IInv, Bookkeeping, InterfacesThere, PastInterface, OwnInterface, WithBackend
<1> QED BY <1>5, <1>6, <1>7, <1>8, <1>9

\* With failure propagation, whatever an item imports has been built.
LEMMA ImportsThere ==
  ASSUME IInv, NEW i \in Items, thread[i] = "started", propagate_failure
  PROVE  ~importsMissing(i)
<1>1. states[i] = "running" /\ EP!RunAfterDependencies
  BY DEF IInv, Bookkeeping, Threads, EP!IInv
<1>2. \A d \in E!Deps(i) : d \in Items /\ states[d] = "completed"
  BY <1>1, EvaluatorFacts, EvaluatorOperators DEF EP!RunAfterDependencies, IInv
<1>3. option.no_op \/ E!Deps(i) \subseteq DOMAIN interfaces
  BY <1>2 DEF IInv, Bookkeeping, InterfacesThere, PastInterface
<1> QED BY <1>3 DEF importsMissing, use_interfaces

LEMMA ItemBuilderStep ==
  ASSUME IInv, NEW i \in Items, itemBuilder(i), crash = "none"
  PROVE  Bookkeeping'
<1>1. Effect(i) /\ thread[i] = "started" /\ UNCHANGED <<evaluator, input, runner>>
  BY ItemBuilderEffect DEF itemBuilder
<1>2. CASE Proceeds(i) /\ crash' # "missing interface"
  BY <1>1, <1>2, ProceedsStep DEF Effect, ImportsReady, ImportsExist, Bookkeeping
<1>3. CASE importsMissing(i)
  <2>1. ~propagate_failure
    BY <1>1, <1>3, ImportsThere
  <2>2. UNCHANGED <<evaluator, input, runner, interfaces, thread, failed_builds>>
    BY <1>1, <1>3 DEF importsMissing
  <2>3. \A j \in Items : Noted(j)' = Noted(j)
    BY <2>2 DEF Noted, evaluator, input, runner
  <2>4. Failures'
    BY <2>2, <2>3, NothingNoted
  <2> QED
    BY <2>1, <2>2, <2>4
    DEF IInv, Bookkeeping, Types, Threads, Control, Quiet, InterfacesThere, PastInterface,
        ImportsReady, evaluator, input, runner
<1> QED BY <1>1, <1>2, <1>3 DEF Effect

LEMMA BackendEndsStep ==
  ASSUME IInv, NEW i \in Items, backendEnds(i), crash = "none"
  PROVE  Bookkeeping'
<1>1. thread[i] \in {"backend succeeded", "backend failed"}
  BY DEF backendEnds, backendFailed, backendSucceeded
<1>2. UNCHANGED <<evaluator, input, runner>>
  BY DEF backendEnds
<1> QED
  BY <1>1, <1>2, BackendEndsEffect, ProceedsStep DEF ImportsReady, ImportsExist, Bookkeeping

LEMMA BackendReturnsStep ==
  ASSUME IInv, NEW i \in Items, backendReturns(i)
  PROVE  Bookkeeping'
<1>1. /\ UNCHANGED <<states, pending, propagate_failure, config, option, dep_failure>>
      /\ UNCHANGED <<any_errors, pc, interfaces, failed_builds, crash>>
  BY DEF backendReturns, evaluator, input, runner
<1>2. /\ thread \in [Items -> Phases] /\ thread[i] = "backend"
      /\ states[i] = "running" /\ pc = "building"
  BY DEF IInv, Bookkeeping, Types, Threads, Control, Quiet, backendReturns
<1>3. /\ thread' \in [Items -> Phases]
      /\ thread'[i] \in {"backend succeeded", "backend failed"}
      /\ \A j \in Items : j # i => thread'[j] = thread[j]
  BY <1>2 DEF backendReturns, Phases, WithBackend
<1>4. \A j \in Items : Noted(j)' = Noted(j)
  BY <1>1, <1>2, <1>3 DEF Noted
<1>5. Failures'
  BY <1>1, <1>4, NothingNoted
<1>6. Types' /\ Threads' /\ Control'
  BY <1>1, <1>2, <1>3 DEF IInv, Bookkeeping, Types, Threads, Control
<1>7. InterfacesThere' /\ ImportsReady'
  BY <1>1, <1>2, <1>3
  DEF IInv, Bookkeeping, InterfacesThere, PastInterface, WithBackend, ImportsReady, ImportsExist
<1> QED BY <1>5, <1>6, <1>7 DEF Bookkeeping

\* The steps that neither start nor end anything.
LEMMA ControlStep ==
  ASSUME IInv,
         UNCHANGED <<states, pending, config, option, dep_failure, interfaces, thread>>,
         UNCHANGED <<failed_builds, any_errors, crash>>,
         pc' # "building" => Quiet,
         propagate_failure' => propagate_failure,
         ~propagate_failure' => \A i \in Items : states[i] # "depfailed"
  PROVE  Bookkeeping'
<1>1. \A j \in Items : Noted(j)' = Noted(j)
  BY DEF Noted
<1>2. Failures'
  BY <1>1, NothingNoted
<1>3. Types' /\ Threads' /\ Control'
  BY DEF IInv, Bookkeeping, Types, Threads, Control, Quiet
<1>4. InterfacesThere' /\ ImportsReady'
  BY DEF IInv, Bookkeeping, InterfacesThere, PastInterface, ImportsReady, ImportsExist
<1> QED BY <1>2, <1>3, <1>4 DEF Bookkeeping

LEMMA StartStep ==
  ASSUME IInv, start
  PROVE  Bookkeeping'
<1>1. /\ UNCHANGED <<states, pending, config, option, dep_failure, interfaces, thread>>
      /\ UNCHANGED <<failed_builds, any_errors, crash>>
      /\ pc' = "building"
  BY DEF start, evaluator, input, E!disableFailurePropagation
<1>2. \/ UNCHANGED propagate_failure
      \/ propagate_failure' = FALSE /\ \A i \in Items : states[i] \in {"waiting", "ready"}
  BY DEF start, evaluator, E!disableFailurePropagation
<1>3. ~propagate_failure => \A i \in Items : states[i] # "depfailed"
  BY DEF IInv, Bookkeeping, Control
<1> QED BY <1>1, <1>2, <1>3, ControlStep

LEMMA PluginsFailStep ==
  ASSUME IInv, pluginsFail
  PROVE  Bookkeeping'
<1>1. /\ UNCHANGED <<states, pending, config, option, dep_failure, interfaces, thread>>
      /\ UNCHANGED <<failed_builds, any_errors, crash, propagate_failure>>
      /\ Quiet
  BY DEF pluginsFail, evaluator, input, IInv, Bookkeeping, Control
<1> QED BY <1>1, ControlStep DEF IInv, Bookkeeping, Control

LEMMA BuildCompleteStep ==
  ASSUME IInv, buildComplete
  PROVE  Bookkeeping'
<1>1. /\ UNCHANGED <<states, pending, config, option, dep_failure, interfaces, thread>>
      /\ UNCHANGED <<failed_builds, any_errors, crash, propagate_failure>>
      /\ Quiet
  BY DEF buildComplete, Calm, evaluator, input, Quiet
<1> QED BY <1>1, ControlStep DEF IInv, Bookkeeping, Control

LEMMA DispatchStep ==
  ASSUME IInv, NEW i \in Items, dispatch(i)
  PROVE  Bookkeeping'
<1>1. /\ UNCHANGED <<pending, config, option, dep_failure, interfaces, propagate_failure>>
      /\ UNCHANGED <<failed_builds, any_errors, crash, pc>>
      /\ pc = "building"
  BY DEF dispatch, Calm, E!setRunning, input, runner
<1>2. /\ states \in [Items -> E!ItemState] /\ thread \in [Items -> Phases]
      /\ states[i] = "ready" /\ thread[i] = "none"
  BY EvaluatorFacts DEF IInv, Bookkeeping, Types, Threads, dispatch, E!setRunning
<1>3. /\ thread' \in [Items -> Phases]
      /\ states'[i] = "running" /\ thread'[i] = "started"
      /\ \A j \in Items : j # i => states'[j] = states[j] /\ thread'[j] = thread[j]
  BY <1>2 DEF dispatch, E!setRunning, Phases
<1>4. \A j \in Items : Noted(j)' = Noted(j)
  BY <1>1, <1>2, <1>3 DEF Noted
<1>5. Failures'
  BY <1>1, <1>4, NothingNoted
<1>6. Types' /\ Threads'
  BY <1>1, <1>2, <1>3 DEF IInv, Bookkeeping, Types, Threads
<1>7. Control'
  BY <1>1, <1>2, <1>3 DEF IInv, Bookkeeping, Control, Types
<1>8. InterfacesThere' /\ ImportsReady'
  BY <1>1, <1>2, <1>3
  DEF IInv, Bookkeeping, InterfacesThere, PastInterface, WithBackend, ImportsReady, ImportsExist
<1> QED BY <1>5, <1>6, <1>7, <1>8 DEF Bookkeeping

LEMMA FinishedStep ==
  ASSUME IInv, NEW i \in Items, finished(i)
  PROVE  Bookkeeping'
<1>1. /\ UNCHANGED <<config, option, dep_failure, interfaces, propagate_failure>>
      /\ UNCHANGED <<failed_builds, crash, pc>>
      /\ pc = "building" /\ dep_failure = NoItem
  BY DEF finished, Calm, E!setCompleted, E!setFailed, E!setFinished, input
<1>2. /\ states \in [Items -> E!ItemState] /\ thread \in [Items -> Phases]
      /\ states[i] = "running"
  BY EvaluatorFacts
  DEF IInv, Bookkeeping, Types, finished, E!setCompleted, E!setFailed, E!setFinished
<1>3. /\ thread' \in [Items -> Phases]
      /\ thread'[i] = "none"
      /\ \A j \in Items : j # i => states'[j] = states[j] /\ thread'[j] = thread[j]
      /\ \/ thread[i] = "succeeded" /\ states'[i] = "completed" /\ UNCHANGED any_errors
         \/ thread[i] = "failed" /\ states'[i] = "failed" /\ any_errors' = TRUE
  BY <1>2 DEF finished, E!setCompleted, E!setFailed, E!setFinished, Phases
<1>4. \A j \in Items : Noted(j)' = Noted(j)
  BY <1>1, <1>2, <1>3 DEF Noted
<1>5. Failures'
  BY <1>1, <1>4, NothingNoted
<1>6. Types' /\ Threads'
  BY <1>1, <1>2, <1>3 DEF IInv, Bookkeeping, Types, Threads
<1>7. Control'
  BY <1>1, <1>2, <1>3 DEF IInv, Bookkeeping, Control, Types
<1>8. InterfacesThere' /\ ImportsReady'
  BY <1>1, <1>2, <1>3
  DEF IInv, Bookkeeping, InterfacesThere, PastInterface, WithBackend, ImportsReady, ImportsExist
<1> QED BY <1>5, <1>6, <1>7, <1>8 DEF Bookkeeping

LEMMA EvaluateStep ==
  ASSUME IInv, evaluate
  PROVE  Bookkeeping'
<1> DEFINE item == Head(pending)
<1>1. /\ UNCHANGED <<config, option, interfaces, thread, failed_builds>>
      /\ UNCHANGED <<any_errors, crash, pc, propagate_failure>>
      /\ dep_failure = NoItem
      /\ E!evaluateItem(item)
      /\ dep_failure' = IF states'[item] = "depfailed" /\ states[item] # "depfailed"
                        THEN item ELSE NoItem
      /\ pc = "building"
  BY DEF evaluate, input, E!evaluate, IInv, Bookkeeping, Control, Quiet
<1>2. /\ states \in [Items -> E!ItemState] /\ thread \in [Items -> Phases]
      /\ item \in Items /\ NoItem \notin Items
  BY EvaluatorFacts, ElemsOfTail, ItemsAssumption
  DEF IInv, Bookkeeping, Types, evaluate, E!evaluate, NoItem
<1> HIDE DEF item
<1>3. /\ \A j \in Items : j # item => states'[j] = states[j]
      /\ \/ /\ states[item] \in {"waiting", "ready"} /\ propagate_failure
            /\ states'[item] = "depfailed" /\ dep_failure' = item
         \/ /\ states[item] \in {"waiting", "ready"}
            /\ states'[item] = "ready" /\ dep_failure' = NoItem
         \/ states'[item] = states[item] /\ dep_failure' = NoItem
  BY <1>1, <1>2 DEF E!evaluateItem, E!DependencyFailed
<1>4. \A j \in Items : Noted(j)' = Noted(j)
  <2> TAKE j \in Items
  <2>1. CASE j # item
    BY <1>1, <1>2, <1>3, <2>1 DEF Noted
  <2>2. CASE j = item /\ states[item] \in {"waiting", "ready"}
    <3>1. thread[item] = "none"
      BY <1>2, <2>2 DEF IInv, Bookkeeping, Threads
    <3> QED BY <1>1, <1>2, <1>3, <2>2, <3>1 DEF Noted
  <2>3. CASE j = item /\ states'[item] = states[item] /\ dep_failure' = NoItem
    BY <1>1, <1>2, <2>3 DEF Noted
  <2> QED BY <1>3, <2>1, <2>2, <2>3
<1>5. Failures'
  BY <1>1, <1>4, NothingNoted
<1>6. Types' /\ Threads'
  BY <1>1, <1>2, <1>3 DEF IInv, Bookkeeping, Types, Threads
<1>7. Control'
  BY <1>1, <1>2, <1>3 DEF IInv, Bookkeeping, Control, Types
<1>8. InterfacesThere' /\ ImportsReady'
  BY <1>1, <1>2, <1>3
  DEF IInv, Bookkeeping, InterfacesThere, PastInterface, ImportsReady, ImportsExist
<1> QED BY <1>5, <1>6, <1>7, <1>8 DEF Bookkeeping

LEMMA CallbackStep ==
  ASSUME IInv, stateChangeCallback
  PROVE  Bookkeeping'
<1>1. /\ UNCHANGED <<states, pending, config, option, interfaces, thread>>
      /\ UNCHANGED <<any_errors, crash, pc, propagate_failure>>
      /\ dep_failure # NoItem /\ dep_failure' = NoItem
      /\ failed_builds' = IF dep_failure \in config.forced_failures
                          THEN Append(failed_builds, dep_failure) ELSE failed_builds
  BY DEF stateChangeCallback, evaluator, input
<1>2. /\ states \in [Items -> E!ItemState]
      /\ dep_failure \in Items /\ NoItem \notin Items
      /\ states[dep_failure] = "depfailed" /\ thread[dep_failure] = "none"
      /\ pc = "building"
  <2>1. /\ dep_failure \in Items /\ states[dep_failure] = "depfailed"
        /\ pc = "building"
    BY <1>1 DEF IInv, Bookkeeping, Types, Control, Quiet
  <2>2. thread[dep_failure] = "none"
    BY <2>1 DEF IInv, Bookkeeping, Threads
  <2> QED BY <2>1, <2>2, EvaluatorFacts, ItemsAssumption DEF IInv, NoItem
<1>3. \A j \in Items : j # dep_failure => Noted(j)' = Noted(j)
  BY <1>1, <1>2 DEF Noted
<1>4. Failures' /\ failed_builds' \in Seq(Items)
  <2>1. ~Noted(dep_failure)
    BY <1>2 DEF Noted
  <2>2. CASE dep_failure \in config.forced_failures
    <3>1. \A j \in Items : (j = dep_failure => Noted(j)')
      BY <1>1, <1>2, <2>2 DEF Noted
    <3> DEFINE i == dep_failure
    <3>2. PICK k \in Items : k = i
      BY <1>2
    <3>3. /\ ~Noted(k) /\ Noted(k)' /\ failed_builds' = Append(failed_builds, k)
          /\ \A j \in Items : j # k => Noted(j)' = Noted(j)
      BY <1>1, <1>3, <2>1, <2>2, <3>1, <3>2
    <3> QED BY <3>3, FailureNoted
  <2>3. CASE dep_failure \notin config.forced_failures
    <3>1. \A j \in Items : Noted(j)' = Noted(j)
      BY <1>1, <1>2, <2>3 DEF Noted
    <3> QED BY <1>1, <2>3, <3>1, NothingNoted DEF IInv, Bookkeeping, Types
  <2> QED BY <2>2, <2>3
<1>5. Types' /\ Threads' /\ Control'
  BY <1>1, <1>2, <1>4 DEF IInv, Bookkeeping, Types, Threads, Control
<1>6. InterfacesThere' /\ ImportsReady'
  BY <1>1
  DEF IInv, Bookkeeping, InterfacesThere, PastInterface, ImportsReady, ImportsExist
<1> QED BY <1>4, <1>5, <1>6 DEF Bookkeeping

LEMMA NextIInv == IInv /\ [Next]_vars => IInv'
<1> SUFFICES ASSUME IInv, [Next]_vars PROVE Bookkeeping'
  BY EvaluatorInvariant DEF IInv
<1>1. CASE UNCHANGED vars
  <2>1. /\ UNCHANGED <<states, pending, config, option, dep_failure, interfaces, thread>>
        /\ UNCHANGED <<failed_builds, any_errors, crash, propagate_failure, pc>>
    BY <1>1 DEF vars, evaluator, input, runner
  <2> QED BY <2>1, ControlStep DEF IInv, Bookkeeping, Control
<1>2. CASE crash = "none" /\ \E i \in Items : itemBuilder(i)
  BY <1>2, ItemBuilderStep
<1>3. CASE \E i \in Items : backendReturns(i)
  BY <1>3, BackendReturnsStep
<1>4. CASE crash = "none" /\ \E i \in Items : backendEnds(i)
  BY <1>4, BackendEndsStep
<1>5. CASE pluginsFail
  BY <1>5, PluginsFailStep
<1>6. CASE start
  BY <1>6, StartStep
<1>7. CASE \E i \in Items : dispatch(i)
  BY <1>7, DispatchStep
<1>8. CASE \E i \in Items : finished(i)
  BY <1>8, FinishedStep
<1>9. CASE evaluate
  BY <1>9, EvaluateStep
<1>10. CASE stateChangeCallback
  BY <1>10, CallbackStep
<1>11. CASE buildComplete
  BY <1>11, BuildCompleteStep
<1> QED
  BY <1>1, <1>2, <1>3, <1>4, <1>5, <1>6, <1>7, <1>8, <1>9, <1>10, <1>11 DEF Next, Over

\* Whatever the files contain, the evaluator, the threads, the interfaces and
\* the list of failures go on agreeing with each other (buildBuildset with
\* itemBuilder and stateChangeCallback).
THEOREM Invariance == Spec => []IInv
  BY InitIInv, NextIInv, PTL DEF Spec

-----------------------------------------------------------------------------
(* The theorems *)

\* buildBuildset uses the evaluator as its header asks: every step is an
\* operation of the evaluator, called where its assertions hold, or none.
THEOREM UsesEvaluator == Spec => EP!Spec
  BY EvaluatorInit, EvaluatorNext, PTL DEF Spec, EP!Spec

\* With failure propagation, the interface of every dependency is there when
\* an item imports it, whatever the graph, the files, and the order in which
\* the items are built.
THEOREM ImportsAreReady == Spec => []ImportsReady
<1>1. IInv => ImportsReady
  BY DEF IInv, Bookkeeping
<1> QED BY <1>1, Invariance, PTL

\* Where an item has been skipped, one has failed, with failure propagation
\* or without.
LEMMA SkippedMeansFailed ==
  ASSUME IInv, NEW i \in Items, states[i] = "depfailed"
  PROVE  any_errors
<1>1. propagate_failure
  BY DEF IInv, Bookkeeping, Control
<1>2. \E j \in Items : states[j] = "failed"
  BY <1>1, EP!SkippingHasOrigin, EvaluatorAssumptions DEF IInv
<1> QED BY <1>2 DEF IInv, Bookkeeping, Control

\* The list of failures is complete and exact, which is what itemBuilder's
\* comment asks for, and it is empty exactly if the build has succeeded.
THEOREM Reported == Spec => []FailuresReported
<1>1. ASSUME IInv PROVE FailuresReported
  <2> USE <1>1
  <2>1. /\ failed_builds \in Seq(Items)
        /\ Distinct(failed_builds)
        /\ Elems(failed_builds) = {i \in Items : Noted(i)}
    BY DEF IInv, Bookkeeping, Types, Failures
  <2>2. ASSUME NEW i \in Items
        PROVE  (\E n \in DOMAIN failed_builds : failed_builds[n] = i) <=> Noted(i)
    BY <2>1 DEF Elems
  <2>3. ASSUME pc = "complete" PROVE any_errors <=> failed_builds # <<>>
    <3>1. \A i \in Items : thread[i] = "none"
      BY <2>3 DEF IInv, Bookkeeping, Control, Quiet
    <3>2. ASSUME any_errors PROVE failed_builds # <<>>
      <4>1. PICK i \in Items : states[i] = "failed"
        BY <3>2 DEF IInv, Bookkeeping, Control
      <4>2. i \in Elems(failed_builds)
        BY <4>1, <2>1 DEF Noted
      <4> QED BY <4>2 DEF Elems
    <3>3. ASSUME failed_builds # <<>> PROVE any_errors
      <4>1. PICK i \in Items : Noted(i)
        <5>1. Head(failed_builds) \in Elems(failed_builds)
          BY <2>1, <3>3, ElemsOfTail
        <5> QED BY <2>1, <5>1
      <4>2. states[i] \in {"failed", "depfailed"}
        BY <3>1, <4>1 DEF Noted
      <4> QED BY <4>2, SkippedMeansFailed DEF IInv, Bookkeeping, Control
    <3> QED BY <3>2, <3>3
  <2> QED BY <2>1, <2>2, <2>3 DEF FailuresReported, Distinct, Noted
<1> QED BY <1>1, Invariance, PTL

\* Nobody but an item's own thread makes or changes its interface.
THEOREM Kept == Spec => InterfacesKept
<1> DEFINE Keeps ==
      /\ DOMAIN interfaces \subseteq DOMAIN interfaces'
      /\ \A i \in DOMAIN interfaces' :
           states[i] # "running" =>
             i \in DOMAIN interfaces /\ interfaces'[i] = interfaces[i]
<1>1. ASSUME IInv, [Next]_vars PROVE [Keeps]_vars
  <2>1. ASSUME UNCHANGED interfaces PROVE Keeps
    BY <2>1
  <2>2. ASSUME NEW i \in Items, thread[i] # "none", OwnInterface(i) PROVE Keeps
    <3>1. states[i] = "running"
      BY <1>1, <2>2 DEF IInv, Bookkeeping, Threads
    <3> QED BY <2>2, <3>1 DEF OwnInterface
  <2>3. ASSUME NEW i \in Items, itemBuilder(i), crash = "none" PROVE Keeps
    <3>1. OwnInterface(i) /\ thread[i] # "none"
      BY <2>3, ItemBuilderEffect DEF Effect, itemBuilder
    <3> QED BY <2>2, <3>1
  <2>4. ASSUME NEW i \in Items, backendEnds(i), crash = "none" PROVE Keeps
    <3>1. OwnInterface(i) /\ thread[i] # "none"
      BY <2>4, BackendEndsEffect DEF backendEnds, backendFailed, backendSucceeded
    <3> QED BY <2>2, <3>1
  <2> HIDE DEF Keeps
  <2> QED
    BY <1>1, <2>1, <2>3, <2>4
    DEF Next, Over, backendReturns, pluginsFail, start, dispatch, finished,
        evaluate, stateChangeCallback, buildComplete
<1>2. IInv /\ [Next]_vars => [Keeps]_vars
  BY <1>1
<1> QED BY <1>2, Invariance, PTL DEF Spec, InterfacesKept

\* What the runner's thread knows when it stops, or has come to the end.
Ending ==
  /\ stop => any_errors /\ ~option.keep_going
  /\ pc = "complete" => stop \/ \A i \in Items : states[i] # "ready"

LEMMA EndingStep == IInv /\ Ending /\ [Next]_vars => Ending'
<1> SUFFICES ASSUME IInv, Ending, [Next]_vars PROVE Ending'
  OBVIOUS
<1>1. CASE UNCHANGED <<states, option, stop, any_errors, pc>>
  BY <1>1 DEF Ending
<1>2. CASE start \/ pluginsFail
  BY <1>2 DEF start, pluginsFail, input, Ending
<1>3. CASE \E i \in Items : dispatch(i) \/ finished(i)
  <2>1. pc' = "building" /\ UNCHANGED option
    BY <1>3 DEF dispatch, finished, Calm, input, runner
  <2>2. \/ UNCHANGED <<stop, any_errors>>
        \/ any_errors' = TRUE /\ stop' = ~option.keep_going
    BY <1>3 DEF dispatch, finished, runner
  <2>3. stop' => any_errors' /\ ~option.keep_going
    <3>1. stop => any_errors /\ ~option.keep_going
      BY DEF Ending
    <3>2. CASE UNCHANGED <<stop, any_errors>>
      BY <3>1, <3>2, Zenon
    <3>3. CASE any_errors' = TRUE /\ stop' = ~option.keep_going
      BY <3>3, Zenon
    <3> QED BY <2>2, <3>2, <3>3
  <2> QED BY <2>1, <2>3 DEF Ending
<1>4. CASE evaluate
  <2>1. pc = "building" /\ UNCHANGED <<option, stop, any_errors, pc>>
    BY <1>4 DEF evaluate, E!evaluate, input, IInv, Bookkeeping, Control, Quiet
  <2> QED BY <2>1 DEF Ending
<1>5. CASE buildComplete
  BY <1>5 DEF buildComplete, evaluator, input, Ending
<1> QED
  BY <1>1, <1>2, <1>3, <1>4, <1>5
  DEF Next, Over, vars, itemBuilder, backendReturns, backendEnds,
      stateChangeCallback, evaluator, input, runner

\* The build succeeds exactly if every item has been built: nothing is left
\* out of a build that is reported as a success, and a build of everything is
\* no failure.
SuccessMeansBuilt ==
  pc = "complete" => (~any_errors <=> \A i \in Items : states[i] = "completed")

THEOREM Succeeds == Spec => []SuccessMeansBuilt
<1>1. Init => Ending
  BY DEF Init, Ending
<1>2. Spec => []EP!NothingStranded
  <2>1. EP!Spec => []EP!NothingStranded
    BY EP!NobodyStranded, EvaluatorAssumptions
  <2> QED BY <2>1, UsesEvaluator
<1>3. ASSUME IInv, Ending, EP!NothingStranded PROVE SuccessMeansBuilt
  <2> SUFFICES ASSUME pc = "complete"
               PROVE  ~any_errors <=> \A i \in Items : states[i] = "completed"
    BY DEF SuccessMeansBuilt
  <2> USE <1>3
  <2>1. pending = <<>> /\ \A i \in Items : states[i] # "running"
    BY DEF IInv, Bookkeeping, Control, Quiet, Threads
  <2>2. any_errors <=> \E i \in Items : states[i] = "failed"
    BY DEF IInv, Bookkeeping, Control
  <2>3. ASSUME ~any_errors, NEW i \in Items PROVE states[i] = "completed"
    <3>1. \A j \in Items : states[j] \notin {"ready", "running"}
      BY <2>1, <2>3 DEF Ending
    <3>2. states[i] \in {"completed", "failed", "depfailed"}
      BY <2>1, <3>1 DEF EP!NothingStranded, EP!Terminal, EP!Finished
    <3> QED BY <2>2, <2>3, <3>2, SkippedMeansFailed
  <2> QED BY <2>2, <2>3
<1>4. IInv /\ Ending /\ EP!NothingStranded => SuccessMeansBuilt
  BY <1>3
<1> QED BY <1>1, <1>2, <1>4, EndingStep, Invariance, PTL DEF Spec

-----------------------------------------------------------------------------
(* The build as a schedule (BuildSchedule).  setRunning is the start of an *)
(* item, the return of itemBuilder its end, a re-evaluation that finds a   *)
(* failure the skipping of an item; what the evaluator is told of a result *)
(* afterwards changes nothing the schedule speaks of.                      *)

\* The substitutions of the refinement, by name.
Executing ==
  {i \in Items : states[i] = "running" /\ thread[i] \notin {"succeeded", "failed"}}
Outcome ==
  [i \in Items |->
     CASE states[i] = "completed" \/ thread[i] = "succeeded" -> "succeeded"
       [] states[i] = "failed" \/ thread[i] = "failed" -> "failed"
       [] states[i] = "depfailed" -> "skipped"
       [] OTHER -> "none"]

\* What an item is to the schedule, given its state and where its thread is.
Seen(state, place) ==
  CASE state = "completed" \/ place = "succeeded" -> "succeeded"
    [] state = "failed" \/ place = "failed" -> "failed"
    [] state = "depfailed" -> "skipped"
    [] OTHER -> "none"

\* The option has been passed on when the build begins.
OptionPassedOn ==
  /\ pc = "start" => propagate_failure
  /\ pc \in {"building", "complete"} => (propagate_failure <=> ~option.no_dep_failures)

LEMMA OptionStep == OptionPassedOn /\ [Next]_vars => OptionPassedOn'
<1> SUFFICES ASSUME OptionPassedOn, [Next]_vars PROVE OptionPassedOn'
  OBVIOUS
<1>1. CASE UNCHANGED <<option, propagate_failure, pc>>
  BY <1>1 DEF OptionPassedOn
<1>2. CASE start
  BY <1>2 DEF start, evaluator, input, E!disableFailurePropagation, OptionPassedOn
<1>3. CASE pluginsFail
  BY <1>3 DEF pluginsFail, OptionPassedOn
<1>4. CASE buildComplete
  BY <1>4 DEF buildComplete, Calm, evaluator, input, OptionPassedOn
<1> QED
  BY <1>1, <1>2, <1>3, <1>4
  DEF Next, Over, vars, itemBuilder, backendReturns, backendEnds, dispatch, finished,
      evaluate, stateChangeCallback, E!setRunning, E!setCompleted, E!setFailed,
      E!setFinished, E!evaluate, evaluator, input, runner

\* What the steps need to know of the state.
SInv == IInv /\ Ending /\ OptionPassedOn /\ EP!ReadyForCause /\ EP!NothingStranded

LEMMA ScheduleInvariance == Spec => []SInv
<1>1. EP!Spec => []EP!ReadyForCause /\ []EP!NothingStranded
  BY EP!ReadyHasCause, EP!NobodyStranded, EvaluatorAssumptions
<1>2. Init => Ending /\ OptionPassedOn
  BY DEF Init, E!Init, Ending, OptionPassedOn
<1>3. IInv /\ Ending /\ OptionPassedOn /\ EP!ReadyForCause /\ EP!NothingStranded => SInv
  BY DEF SInv
<1> QED
  BY <1>1, <1>2, <1>3, EndingStep, OptionStep, UsesEvaluator, Invariance, PTL DEF Spec

-----------------------------------------------------------------------------
(* Reading the substitutions *)

\* What the schedule makes of an item in each of the evaluator's states.
OutcomeByState(i) ==
  /\ states[i] \in {"waiting", "ready"} => Outcome[i] = "none"
  /\ states[i] = "completed" => Outcome[i] = "succeeded"
  /\ states[i] = "failed" => Outcome[i] = "failed"
  /\ states[i] = "depfailed" => Outcome[i] = "skipped"
  /\ states[i] = "running" =>
       Outcome[i] = IF thread[i] \in {"succeeded", "failed"} THEN thread[i] ELSE "none"

OutcomesByState == \A i \in Items : OutcomeByState(i)

LEMMA OutcomeIs == IInv => OutcomesByState
<1> SUFFICES ASSUME IInv, NEW i \in Items PROVE OutcomeByState(i)
  BY DEF OutcomesByState
<1>1. thread[i] # "none" => states[i] = "running"
  BY DEF IInv, Bookkeeping, Threads
<1>2. Outcome[i] = Seen(states[i], thread[i])
  BY DEF Outcome, Seen
<1> QED BY <1>1, <1>2 DEF OutcomeByState, Seen

\* A step that changes neither the state of an item nor where its thread is
\* is not seen at this item.
LEMMA ItemUnseen ==
  ASSUME NEW i \in Items, states'[i] = states[i], thread'[i] = thread[i]
  PROVE  /\ Outcome'[i] = Outcome[i]
         /\ i \in Executing' <=> i \in Executing
<1>1. /\ Outcome[i] = Seen(states[i], thread[i])
      /\ Outcome'[i] = Seen(states'[i], thread'[i])
  BY DEF Outcome, Seen
<1>2. Outcome'[i] = Outcome[i]
  BY <1>1
<1>3. i \in Executing' <=> i \in Executing
  BY DEF Executing
<1> QED BY <1>2, <1>3

LEMMA Unseen ==
  ASSUME UNCHANGED <<graph, option>>, pc' = "complete" <=> pc = "complete",
         \A i \in Items : /\ Outcome'[i] = Outcome[i]
                          /\ i \in Executing' <=> i \in Executing
  PROVE  UNCHANGED Schedule!vars
<1>1. Outcome' = Outcome
  BY DEF Outcome
<1>2. Executing' = Executing
  BY DEF Executing
<1>3. (pc = "complete")' = (pc = "complete")
  OBVIOUS
<1> QED BY <1>1, <1>2, <1>3 DEF Schedule!vars, Outcome, Executing

\* The steps at one item that change neither its outcome nor whether it is
\* being executed.
LEMMA UnseenAt ==
  ASSUME UNCHANGED <<graph, option, pc>>, NEW i \in Items,
         \A j \in Items : j # i => states'[j] = states[j] /\ thread'[j] = thread[j],
         Outcome'[i] = Outcome[i],
         i \in Executing' <=> i \in Executing
  PROVE  UNCHANGED Schedule!vars
<1>1. \A j \in Items : /\ Outcome'[j] = Outcome[j]
                       /\ j \in Executing' <=> j \in Executing
  BY ItemUnseen
<1> QED BY <1>1, Unseen

-----------------------------------------------------------------------------
(* The steps *)

\* The evaluator is told of a result: the item had its outcome already.
LEMMA FinishedIsUnseen ==
  ASSUME IInv, IInv', NEW i \in Items, finished(i)
  PROVE  UNCHANGED Schedule!vars
<1>0. OutcomesByState
  BY OutcomeIs
<1>1. OutcomesByState'
  BY OutcomeIs, PTL
<1>2. UNCHANGED <<graph, option, pc>>
  BY DEF finished, E!setCompleted, E!setFailed, E!setFinished, input
<1>3. /\ states \in [Items -> E!ItemState] /\ thread \in [Items -> Phases]
      /\ states[i] = "running"
  BY EvaluatorFacts
  DEF IInv, Bookkeeping, Types, finished, E!setCompleted, E!setFailed, E!setFinished
<1>4. /\ \A j \in Items : j # i => states'[j] = states[j] /\ thread'[j] = thread[j]
      /\ \/ thread[i] = "succeeded" /\ states'[i] = "completed"
         \/ thread[i] = "failed" /\ states'[i] = "failed"
  BY <1>3 DEF finished, E!setCompleted, E!setFailed, E!setFinished
<1>5. Outcome'[i] = Outcome[i]
  BY <1>0, <1>1, <1>3, <1>4 DEF OutcomesByState, OutcomeByState
<1>6. i \notin Executing /\ i \notin Executing'
  BY <1>4 DEF Executing
<1> QED BY <1>2, <1>4, <1>5, <1>6, UnseenAt

\* itemBuilder returns, which is the end of its item, or goes on.
LEMMA ThreadStepIsFinish ==
  ASSUME IInv, IInv', NEW i \in Items, UNCHANGED <<graph, states, option, pc>>,
         thread[i] \notin {"none", "succeeded", "failed"},
         NEW place \in Phases, place # "none", thread' = [thread EXCEPT ![i] = place]
  PROVE  [Schedule!Next]_Schedule!vars
<1>0. OutcomesByState
  BY OutcomeIs
<1>1. OutcomesByState'
  BY OutcomeIs, PTL
<1>2. /\ thread \in [Items -> Phases] /\ states[i] = "running"
  BY DEF IInv, Bookkeeping, Types, Threads
<1>3. /\ thread'[i] = place
      /\ \A j \in Items : j # i => states'[j] = states[j] /\ thread'[j] = thread[j]
  BY <1>2
<1>4. i \in Executing /\ Outcome[i] = "none"
  BY <1>0, <1>2 DEF Executing, OutcomesByState, OutcomeByState
<1>5. CASE place \notin {"succeeded", "failed"}
  <2>1. i \in Executing' /\ Outcome'[i] = "none"
    BY <1>1, <1>2, <1>3, <1>5 DEF Executing, OutcomesByState, OutcomeByState
  <2> QED BY <1>3, <1>4, <2>1, UnseenAt
<1>6. CASE place \in {"succeeded", "failed"}
  <2>1. i \notin Executing' /\ Outcome'[i] = place
    BY <1>1, <1>2, <1>3, <1>6 DEF Executing, OutcomesByState, OutcomeByState
  <2>2. \A j \in Items : j # i => /\ Outcome'[j] = Outcome[j]
                                  /\ j \in Executing' <=> j \in Executing
    BY <1>3, ItemUnseen
  <2>3. Executing' = Executing \ {i}
    BY <2>1, <2>2 DEF Executing
  <2>4. Outcome' = [Outcome EXCEPT ![i] = place]
    <3>1. /\ Outcome = [j \in Items |-> Outcome[j]]
          /\ Outcome' = [j \in Items |-> Outcome'[j]]
      BY DEF Outcome
    <3> QED BY <2>1, <2>2, <3>1
  <2>5. Schedule!Finish(i, place)
    BY <1>4, <2>3, <2>4 DEF Schedule!Finish, Executing, Outcome
  <2> QED BY <1>6, <2>5 DEF Schedule!Next
<1> QED BY <1>5, <1>6

LEMMA ItemStepIsFinish ==
  ASSUME IInv, IInv', NEW i \in Items, crash = "none",
         itemBuilder(i) \/ backendReturns(i) \/ backendEnds(i)
  PROVE  [Schedule!Next]_Schedule!vars
<1>1. UNCHANGED <<graph, states, option, pc>>
  BY DEF itemBuilder, backendReturns, backendEnds, evaluator, input, runner
<1>2. thread[i] \in {"started"} \cup WithBackend
  BY DEF itemBuilder, backendReturns, backendEnds, backendFailed, backendSucceeded,
         WithBackend
<1>3. \/ UNCHANGED thread
      \/ \E place \in Phases \ {"none"} : thread' = [thread EXCEPT ![i] = place]
  <2>1. Proceeds(i) => \E place \in Phases \ {"none"} :
                         thread' = [thread EXCEPT ![i] = place]
    BY DEF Proceeds, returns, Phases, WithBackend
  <2>2. CASE itemBuilder(i)
    BY <2>1, <2>2, ItemBuilderEffect DEF Effect, importsMissing
  <2>3. CASE backendEnds(i)
    BY <2>1, <2>3, BackendEndsEffect
  <2>4. CASE backendReturns(i)
    BY <2>4 DEF backendReturns, Phases, WithBackend
  <2> QED BY <2>2, <2>3, <2>4
<1>4. CASE UNCHANGED thread
  BY <1>1, <1>4, ItemUnseen, Unseen
<1>5. ASSUME NEW place \in Phases \ {"none"}, thread' = [thread EXCEPT ![i] = place]
      PROVE  [Schedule!Next]_Schedule!vars
  BY <1>1, <1>2, <1>5, ThreadStepIsFinish DEF WithBackend
<1> QED BY <1>3, <1>4, <1>5

\* The items being executed are among those that num_running counts.
LEMMA RoomForOne ==
  ASSUME IInv, num_running < num_workers
  PROVE  Cardinality(Executing) < num_workers
<1> DEFINE Running == {i \in Items : states[i] = "running"}
<1>1. EP!NumRunningExact /\ num_running \in Nat
  BY DEF IInv, EP!IInv, EP!TypeOK
<1>2. num_running = Cardinality(Running)
  BY <1>1 DEF EP!NumRunningExact, EP!Cardinality, Cardinality
<1>3. IsFiniteSet(Running)
  <2>1. Running \in SUBSET Items
    OBVIOUS
  <2> QED BY <2>1, FS_Subset, ItemsAssumption
<1>4. Executing \in SUBSET Running
  BY DEF Executing
<1>5. Cardinality(Executing) <= Cardinality(Running) /\ Cardinality(Executing) \in Nat
  <2> HIDE DEF Running
  <2> QED BY <1>3, <1>4, FS_Subset, FS_CardinalityType
<1> QED BY <1>1, <1>2, <1>5, num_workersAssumption

\* Whatever is ready may start: with failure propagation all its dependencies
\* have succeeded; without, none is unfinished before the first that failed.
LEMMA ReadyMayStart ==
  ASSUME SInv, NEW i \in Items, states[i] = "ready", pc = "building"
  PROVE  Schedule!MayStart(i)
<1>0. /\ IInv /\ OutcomesByState /\ EP!TypeOK /\ EP!RunAfterDependencies
      /\ EP!ReadyForCause
  BY OutcomeIs DEF SInv, IInv, EP!IInv
<1>1. /\ EP!Deps(i) \subseteq Items
      /\ EP!getDirectDependencies(i) \in Seq(Items)
      /\ Schedule!Deps(i) = EP!Deps(i)
  BY <1>0, EP!GraphFacts, EvaluatorAssumptions
  DEF Schedule!Deps, Schedule!Elems, EP!Deps, EP!Elems, EP!getDirectDependencies
<1>2. propagate_failure <=> ~option.no_dep_failures
  BY DEF SInv, OptionPassedOn
<1>3. (\A d \in EP!Deps(i) : states[d] = "completed") => Schedule!MayStart(i)
  <2> SUFFICES ASSUME \A d \in EP!Deps(i) : states[d] = "completed"
               PROVE  \A d \in Schedule!Deps(i) : Outcome[d] = "succeeded"
    BY DEF Schedule!MayStart, Outcome
  <2> QED BY <1>0, <1>1 DEF OutcomesByState, OutcomeByState
<1>4. CASE propagate_failure
  BY <1>0, <1>3, <1>4 DEF EP!RunAfterDependencies
<1>5. CASE ~propagate_failure /\ \E d \in EP!Deps(i) : EP!Unsuccessful(d)
  <2>1. PICK d \in EP!Deps(i) : states[d] = "failed"
    BY <1>0, <1>1, <1>5 DEF EP!Unsuccessful, EP!ReadyForCause
  <2>2. Outcome[d] = "failed"
    BY <1>0, <1>1, <2>1 DEF OutcomesByState, OutcomeByState
  <2> QED BY <1>1, <1>2, <1>5, <2>2 DEF Schedule!MayStart, Outcome
<1>6. CASE \A d \in EP!Deps(i) : ~EP!Unsuccessful(d)
  <2> DEFINE deps == EP!getDirectDependencies(i)
  <2>1. ASSUME NEW d \in EP!Deps(i) PROVE states[d] = "completed"
    <3>1. PICK n \in DOMAIN deps : deps[n] = d
      BY DEF EP!Deps, EP!Elems
    <3>2. \A m \in 1..(n - 1) : m \in DOMAIN deps /\ deps[m] \in EP!Deps(i)
      BY <1>1, <3>1 DEF EP!Deps, EP!Elems
    <3>3. n \in EP!LookedAt(i)
      BY <1>6, <3>1, <3>2 DEF EP!LookedAt
    <3>4. ~EP!Blocked(i)
      BY <1>0 DEF EP!ReadyForCause
    <3> QED BY <1>6, <3>1, <3>3, <3>4 DEF EP!Blocked
  <2> QED BY <1>3, <2>1
<1> QED BY <1>4, <1>5, <1>6

LEMMA DispatchIsStart ==
  ASSUME SInv, SInv', NEW i \in Items, dispatch(i)
  PROVE  Schedule!Next
<1>0. IInv /\ IInv' /\ OutcomesByState
  BY OutcomeIs DEF SInv
<1>1. OutcomesByState'
  BY <1>0, OutcomeIs, PTL
<1>2. /\ UNCHANGED <<graph, option, pc>>
      /\ pc = "building" /\ num_running < num_workers
      /\ states[i] = "ready"
  BY DEF dispatch, Calm, E!setRunning, input, runner
<1>3. /\ states \in [Items -> E!ItemState] /\ thread \in [Items -> Phases]
  BY <1>0, EvaluatorFacts DEF IInv, Bookkeeping, Types
<1>4. /\ states'[i] = "running" /\ thread'[i] = "started"
      /\ \A j \in Items : j # i => states'[j] = states[j] /\ thread'[j] = thread[j]
  BY <1>3 DEF dispatch, E!setRunning
<1>5. /\ i \notin Executing /\ i \in Executing'
      /\ Outcome[i] = "none" /\ Outcome'[i] = "none"
  BY <1>0, <1>1, <1>2, <1>4 DEF Executing, OutcomesByState, OutcomeByState
<1>6. \A j \in Items : j # i => /\ Outcome'[j] = Outcome[j]
                                /\ j \in Executing' <=> j \in Executing
  BY <1>4, ItemUnseen
<1>7. Executing' = Executing \cup {i}
  BY <1>5, <1>6 DEF Executing
<1>8. Outcome' = Outcome
  <2>1. /\ Outcome = [j \in Items |-> Outcome[j]]
        /\ Outcome' = [j \in Items |-> Outcome'[j]]
    BY DEF Outcome
  <2> QED BY <1>5, <1>6, <2>1
<1>9. Cardinality(Executing) < num_workers
  BY <1>0, <1>2, RoomForOne
<1>10. Schedule!MayStart(i)
  BY <1>2, ReadyMayStart
<1>11. (pc = "complete") = FALSE /\ (pc = "complete")' = FALSE
  BY <1>2
<1>12. Schedule!Start(i)
  <2>1. Schedule!Start(i) <=>
          /\ ~(pc = "complete")
          /\ i \notin Executing
          /\ Outcome[i] = "none"
          /\ Schedule!MayStart(i)
          /\ Cardinality(Executing) < num_workers
          /\ Executing' = Executing \cup {i}
          /\ UNCHANGED <<graph, ~option.keep_going, ~option.no_dep_failures, Outcome,
                         pc = "complete">>
    BY DEF Schedule!Start, Executing, Outcome, Schedule!Cardinality, Cardinality
  <2> QED BY <1>2, <1>5, <1>7, <1>8, <1>9, <1>10, <1>11, <2>1
<1> QED BY <1>12 DEF Schedule!Next

LEMMA EvaluateIsSkip ==
  ASSUME SInv, SInv', evaluate
  PROVE  [Schedule!Next]_Schedule!vars
<1>0. IInv /\ IInv' /\ OutcomesByState
  BY OutcomeIs DEF SInv
<1>1. OutcomesByState'
  BY <1>0, OutcomeIs, PTL
<1>2. /\ UNCHANGED <<graph, option, thread, pc, propagate_failure>>
      /\ pc = "building"
      /\ E!evaluate
  BY <1>0 DEF evaluate, E!evaluate, input, IInv, Bookkeeping, Control, Quiet
<1>3. PICK i \in Items : E!evaluateItem(i)
  BY <1>0, <1>2, EvaluatorFacts, ElemsOfTail DEF IInv, E!evaluate
<1>4. states \in [Items -> E!ItemState]
  BY <1>0, EvaluatorFacts DEF IInv
<1>5. CASE states' = states
  BY <1>2, <1>5, ItemUnseen, Unseen
<1>6. CASE /\ states[i] \in {"waiting", "ready"}
           /\ states' = [states EXCEPT ![i] = "ready"]
  <2>1. /\ states'[i] = "ready"
        /\ \A j \in Items : j # i => states'[j] = states[j] /\ thread'[j] = thread[j]
    BY <1>2, <1>4, <1>6
  <2>2. Outcome[i] = "none" /\ Outcome'[i] = "none"
    BY <1>0, <1>1, <1>6, <2>1 DEF OutcomesByState, OutcomeByState
  <2>3. i \notin Executing /\ i \notin Executing'
    BY <1>6, <2>1 DEF Executing
  <2> QED BY <1>2, <2>1, <2>2, <2>3, UnseenAt
<1>7. CASE /\ states[i] \in {"waiting", "ready"}
           /\ E!DependencyFailed(i)
           /\ states' = [states EXCEPT ![i] = "depfailed"]
  <2>1. /\ states'[i] = "depfailed"
        /\ \A j \in Items : j # i => states'[j] = states[j] /\ thread'[j] = thread[j]
    BY <1>2, <1>4, <1>7
  <2>2. Outcome[i] = "none" /\ Outcome'[i] = "skipped"
    BY <1>0, <1>1, <1>7, <2>1 DEF OutcomesByState, OutcomeByState
  <2>3. i \notin Executing /\ i \notin Executing'
    BY <1>7, <2>1 DEF Executing
  <2>4. \A j \in Items : j # i => /\ Outcome'[j] = Outcome[j]
                                  /\ j \in Executing' <=> j \in Executing
    BY <2>1, ItemUnseen
  <2>5. Executing' = Executing
    BY <2>3, <2>4 DEF Executing
  <2>6. Outcome' = [Outcome EXCEPT ![i] = "skipped"]
    <3>1. /\ Outcome = [j \in Items |-> Outcome[j]]
          /\ Outcome' = [j \in Items |-> Outcome'[j]]
      BY DEF Outcome
    <3> QED BY <2>2, <2>4, <3>1
  <2>7. PICK d \in E!Deps(i) : E!Unsuccessful(d)
    BY <1>7 DEF E!DependencyFailed, E!LookedAt, E!Deps, E!Elems
  <2>8. d \in Schedule!Deps(i) /\ d \in Items
    <3>1. E!Deps(i) \subseteq Items
      BY <1>0, EvaluatorFacts DEF IInv
    <3> QED
      BY <3>1 DEF Schedule!Deps, Schedule!Elems, E!Deps, E!Elems, E!getDirectDependencies
  <2>9. Outcome[d] \in {"failed", "skipped"}
    BY <1>0, <2>7, <2>8 DEF OutcomesByState, OutcomeByState, E!Unsuccessful
  <2>10. ~option.no_dep_failures
    BY <1>2, <1>7 DEF E!DependencyFailed, SInv, OptionPassedOn
  <2>11. (pc = "complete") = FALSE /\ (pc = "complete")' = FALSE
    BY <1>2
  <2>12. Schedule!Skip(i)
    BY <1>2, <2>2, <2>3, <2>5, <2>6, <2>8, <2>9, <2>10, <2>11
    DEF Schedule!Skip, Executing, Outcome
  <2> QED BY <2>12 DEF Schedule!Next
<1> QED BY <1>3, <1>5, <1>6, <1>7 DEF E!evaluateItem

LEMMA BuildCompleteIsReturn ==
  ASSUME SInv, buildComplete
  PROVE  Schedule!Next
<1>0. IInv /\ OutcomesByState
  BY OutcomeIs DEF SInv
<1>1. /\ UNCHANGED <<graph, states, thread, option>>
      /\ pc' = "complete" /\ pending = <<>>
      /\ \A i \in Items : states[i] = "ready" => stop
  BY DEF buildComplete, Calm, evaluator, input
<1>2. \A i \in Items : states[i] # "running"
  BY <1>0 DEF buildComplete, IInv, Bookkeeping, Threads
<1>3. Executing = {}
  BY <1>2 DEF Executing
<1>4. \/ \A i \in Items : Outcome[i] # "none"
      \/ ~option.keep_going /\ \E i \in Items : Outcome[i] = "failed"
  <2>1. CASE stop
    <3>1. ~option.keep_going /\ any_errors
      BY <2>1 DEF SInv, Ending
    <3>2. PICK i \in Items : states[i] = "failed"
      BY <1>0, <3>1 DEF IInv, Bookkeeping, Control
    <3> QED BY <1>0, <3>1, <3>2 DEF OutcomesByState, OutcomeByState
  <2>2. CASE ~stop
    <3>1. \A i \in Items : states[i] \in {"completed", "failed", "depfailed"}
      BY <1>1, <1>2, <2>2 DEF SInv, EP!NothingStranded, EP!Terminal, EP!Finished
    <3> QED BY <1>0, <3>1 DEF OutcomesByState, OutcomeByState
  <2> QED BY <2>1, <2>2
<1>5. UNCHANGED <<Executing, Outcome>>
  BY <1>1 DEF Executing, Outcome
<1>6. (pc = "complete")' = TRUE
  BY <1>1
<1>7. Schedule!Return
  BY <1>1, <1>3, <1>4, <1>5, <1>6 DEF Schedule!Return, Executing, Outcome
<1> QED BY <1>7 DEF Schedule!Next

LEMMA ScheduleInit == Init => Schedule!Init
<1> SUFFICES ASSUME Init PROVE Schedule!Init
  OBVIOUS
<1>1. OutcomesByState
  BY InitIInv, OutcomeIs
<1>2. /\ pc = "start" /\ graph \in Graphs
      /\ \A i \in Items : states[i] \in {"waiting", "ready"}
  BY DEF Init, E!Init
<1>3. Executing = {}
  BY <1>2 DEF Executing
<1>4. Outcome = [i \in Items |-> "none"]
  <2>1. Outcome = [i \in Items |-> Outcome[i]]
    BY DEF Outcome
  <2> QED BY <1>1, <1>2, <2>1 DEF OutcomesByState, OutcomeByState
<1>5. /\ (~option.keep_going) \in BOOLEAN /\ (~option.no_dep_failures) \in BOOLEAN
      /\ (pc = "complete") = FALSE
  BY <1>2
<1> QED BY <1>2, <1>3, <1>4, <1>5 DEF Schedule!Init, Executing, Outcome

LEMMA ScheduleStep ==
  SInv /\ SInv' /\ [Next]_vars => [Schedule!Next]_Schedule!vars
<1> SUFFICES ASSUME SInv, SInv', [Next]_vars
             PROVE  [Schedule!Next]_Schedule!vars
  OBVIOUS
<1>0. IInv /\ IInv'
  BY DEF SInv
<1>1. CASE /\ UNCHANGED <<graph, option, states, thread>>
           /\ pc' = "complete" <=> pc = "complete"
  BY <1>1, ItemUnseen, Unseen
<1>2. CASE crash = "none" /\ \E i \in Items : itemBuilder(i) \/ backendReturns(i)
                                                             \/ backendEnds(i)
  BY <1>0, <1>2, ItemStepIsFinish
<1>3. CASE pluginsFail \/ start
  BY <1>1, <1>3 DEF pluginsFail, start, E!disableFailurePropagation, evaluator, input
<1>4. CASE \E i \in Items : dispatch(i)
  BY <1>4, DispatchIsStart
<1>5. CASE \E i \in Items : finished(i)
  BY <1>0, <1>5, FinishedIsUnseen
<1>6. CASE evaluate
  BY <1>6, EvaluateIsSkip
<1>7. CASE stateChangeCallback
  BY <1>1, <1>7 DEF stateChangeCallback, evaluator, input
<1>8. CASE buildComplete
  BY <1>8, BuildCompleteIsReturn
<1> QED
  BY <1>1, <1>2, <1>3, <1>4, <1>5, <1>6, <1>7, <1>8
  DEF Next, Over, vars, evaluator, input, runner

\* A build implements the schedule, whatever its files contain and whether or
\* not failures are propagated: never more items in itemBuilder than threads,
\* none before its dependencies have succeeded (without failure propagation,
\* before all of them are decided or one has failed), none twice, skipped only
\* because of a failure, and not complete before everything is decided, unless
\* it stops at an error.
THEOREM RefinesSchedule == Spec => ImplementsSchedule
<1>1. SInv /\ SInv' /\ [Next]_vars => [Schedule!Next]_Schedule!vars
  BY ScheduleStep
<1> QED
  BY <1>1, ScheduleInit, ScheduleInvariance, PTL
  DEF Spec, ImplementsSchedule, Schedule!Spec
=============================================================================
