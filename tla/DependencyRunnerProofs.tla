----------------------- MODULE DependencyRunnerProofs -----------------------
(***************************************************************************)
(* Proofs about DependencyRunner, for every set of items, every checked    *)
(* graph, every number of workers and every combination of options.        *)
(*                                                                         *)
(* The evaluator's part rests on the theorems of DependencyEvaluatorProofs:*)
(* run() calls nothing but its operations, so what they prove of every use *)
(* of the evaluator holds here.  The pool has its own invariant: for each  *)
(* worker, where it is, what is in its queue and whether it is listed as   *)
(* available always fit together.  The books relate the two.  The last     *)
(* part proves the refinement of BuildSchedule.                            *)
(***************************************************************************)
EXTENDS DependencyRunner, ListLemmas

EP == INSTANCE DependencyEvaluatorProofs

Available == Elems(available_workers)

\* Where a worker may be while the pool is in use: about to start, waiting
\* for an item, with an item in its queue, or busy with one; ...
Fresh(w) ==
  worker[w] = "starting" /\ queues[w] = <<>> /\ w \notin Available
Resting(w) ==
  worker[w] = "idle" /\ queues[w] = <<>> /\ w \in Available
Given(w) ==
  /\ worker[w] = "idle"
  /\ \E i \in Items : queues[w] = <<P!Work(i)>>
  /\ w \notin Available
Busy(w) ==
  /\ worker[w] = "busy" /\ job[w] \in Items
  /\ queues[w] = <<>>
  /\ w \notin Available
\* ... and after the shutdown: told to exit, or gone.
Dismissed(w) ==
  worker[w] = "idle" /\ queues[w] = <<P!Exit>> /\ w \in Available
Gone(w) ==
  worker[w] = "exited" /\ queues[w] = <<>> /\ w \in Available

PoolShape ==
  /\ Distinct(available_workers)
  /\ \A w \in P!Workers :
       IF shutdown_requested THEN Dismissed(w) \/ Gone(w)
       ELSE Fresh(w) \/ Resting(w) \/ Given(w) \/ Busy(w)

\* The item a worker is busy with or has in its queue, or NoItem.
Holding(w) ==
  IF worker[w] = "busy" THEN job[w]
  ELSE IF queues[w] # <<>> THEN queues[w][1].item
  ELSE NoItem

\* The running items are the ones held by a worker, reported, or about to be
\* submitted, and each of them is so in one way only.
HeldByOne ==
  \A w, v \in P!Workers :
    Holding(w) = Holding(v) => w = v \/ Holding(w) = NoItem
ReportedOnce ==
  \A m, n \in DOMAIN results : results[m].item = results[n].item => m = n
HeldOrReported ==
  \A w \in P!Workers, n \in DOMAIN results : Holding(w) # results[n].item
SubmittedApart ==
  /\ item = NoItem <=> pc # "submit"
  /\ \A w \in P!Workers : Holding(w) = item => item = NoItem
  /\ \A n \in DOMAIN results : results[n].item # item
RunningIsHeld ==
  \A i \in Items :
    states[i] = "running" <=>
      \/ \E w \in P!Workers : Holding(w) = i
      \/ \E n \in DOMAIN results : results[n].item = i
      \/ item = i

Books ==
  HeldByOne /\ ReportedOnce /\ HeldOrReported /\ SubmittedApart /\ RunningIsHeld

NothingReady == \A i \in Items : states[i] # "ready"

\* What run() knows at each point of its loop.
Control ==
  /\ pc = "begin" => ~stop /\ \A i \in Items : states[i] \in {"waiting", "ready"}
  /\ propagate_failure <=> (pc = "begin" \/ ~option.disable_failure_propagation)
  /\ shutdown_requested <=> pc \in {"joining", "returned"}
  /\ pc \in {"join", "joining", "returned"} =>
       /\ Len(available_workers) = num_workers
       /\ results = <<>>
       /\ stop \/ NothingReady
  /\ pc = "returned" => \A w \in P!Workers : worker[w] = "exited"
  /\ pending # <<>> => pc = "drain"
  /\ pc \in {"dispatch", "offer", "submit"} => ~stop
  /\ pc = "submit" => available_workers # <<>>
  /\ any_errors <=> \E i \in Items : states[i] = "failed"
  /\ stop => any_errors /\ option.stop_on_first_error
  /\ asleep => \/ pc = "wait" /\ available_workers = <<>>
               \/ pc = "waitForResults"
  /\ pc = "waitForResults" => NothingReady

IInv ==
  /\ EP!IInv
  /\ TypeOK
  /\ PoolShape
  /\ Books
  /\ Control

-----------------------------------------------------------------------------
(* The evaluator within run() *)

\* The assumptions under which DependencyEvaluatorProofs proves its theorems.
LEMMA EvaluatorAssumptions ==
  /\ Items \subseteq Nat /\ EP!IsFiniteSet(Items)
  /\ \A g \in Graphs : EP!CheckedGraph(g, Items)
<1>1. EP!IsFiniteSet(Items)
  BY ItemsAssumption DEF EP!IsFiniteSet, IsFiniteSet
<1>2. \A g \in Graphs : EP!CheckedGraph(g, Items)
  BY GraphsAssumption
  DEF EP!CheckedGraph, CheckedGraph, EP!Enumerates, Enumerates,
      EP!DependenciesFirst, DependenciesFirst, EP!Reverses, Reverses,
      EP!Elems, Elems
<1> QED BY <1>1, <1>2, ItemsAssumption

LEMMA EvaluatorInit == Init => EP!Init
  BY DEF Init, E!Init, EP!Init, E!getDirectDependencies, EP!getDirectDependencies

\* The operators of the two instances mean the same.
LEMMA EvaluatorTypeOK == EP!TypeOK <=> E!TypeOK
<1>1. EP!CheckedGraph(graph, Items) <=> E!CheckedGraph(graph, Items)
  BY DEF EP!CheckedGraph, E!CheckedGraph, EP!Enumerates, E!Enumerates,
         EP!DependenciesFirst, E!DependenciesFirst, EP!Reverses, E!Reverses,
         EP!Elems, E!Elems
<1> QED BY <1>1 DEF EP!TypeOK, E!TypeOK, EP!ItemState, E!ItemState

LEMMA EvaluatorOperators ==
  ASSUME NEW i
  PROVE  /\ EP!Blocked(i) <=> E!Blocked(i)
         /\ EP!DependencyFailed(i) <=> E!DependencyFailed(i)
         /\ EP!Deps(i) = E!Deps(i)
<1>1. EP!LookedAt(i) = E!LookedAt(i)
  BY DEF EP!LookedAt, E!LookedAt, EP!Unsuccessful, E!Unsuccessful,
         EP!getDirectDependencies, E!getDirectDependencies
<1>2. EP!Blocked(i) <=> E!Blocked(i)
  BY <1>1
  DEF EP!Blocked, E!Blocked, EP!Unsuccessful, E!Unsuccessful,
      EP!getDirectDependencies, E!getDirectDependencies
<1>3. EP!DependencyFailed(i) <=> E!DependencyFailed(i)
  BY <1>1
  DEF EP!DependencyFailed, E!DependencyFailed, EP!Unsuccessful, E!Unsuccessful,
      EP!getDirectDependencies, E!getDirectDependencies
<1>4. EP!Deps(i) = E!Deps(i)
  BY DEF EP!Deps, E!Deps, EP!Elems, E!Elems, EP!getDirectDependencies,
         E!getDirectDependencies
<1> QED BY <1>2, <1>3, <1>4

\* Whatever step run() or a worker takes, the evaluator takes one of its own.
LEMMA EvaluatorNext == TypeOK /\ [Next]_vars => [EP!Next]_EP!vars
<1> SUFFICES ASSUME TypeOK, [Next]_vars PROVE [EP!Next]_EP!vars
  OBVIOUS
<1>0. states \in [Items -> E!ItemState] /\ pending \in Seq(Items)
  BY DEF TypeOK, E!TypeOK
<1>1. CASE UNCHANGED evaluator
  BY <1>1 DEF evaluator, EP!vars
<1>2. CASE E!disableFailurePropagation
  BY <1>2 DEF E!disableFailurePropagation, EP!disableFailurePropagation, EP!Next
<1>3. CASE \E i \in Items : E!setRunning(i)
  BY <1>3 DEF E!setRunning, EP!setRunning, EP!Next
<1>4. CASE \E i \in Items : E!setCompleted(i)
  BY <1>4 DEF E!setCompleted, EP!setCompleted, E!setFinished, EP!setFinished,
              E!getReverseDependencies, EP!getReverseDependencies, EP!Next
<1>5. CASE \E i \in Items : E!setFailed(i)
  BY <1>5 DEF E!setFailed, EP!setFailed, E!setFinished, EP!setFinished,
              E!getReverseDependencies, EP!getReverseDependencies, EP!Next
<1>6. CASE E!evaluate
  <2>1. Head(pending) \in Items
    BY <1>0, <1>6, ElemsOfTail DEF E!evaluate
  <2>2. ASSUME NEW i \in Items, E!evaluateItem(i) PROVE EP!evaluateItem(i)
    <3>1. /\ EP!Blocked(i) <=> E!Blocked(i)
          /\ EP!DependencyFailed(i) <=> E!DependencyFailed(i)
      BY EvaluatorOperators
    <3>2. EP!getReverseDependencies(i) = E!getReverseDependencies(i)
      BY DEF EP!getReverseDependencies, E!getReverseDependencies
    <3> QED BY <2>2, <3>1, <3>2 DEF E!evaluateItem, EP!evaluateItem
  <2>3. EP!evaluate
    BY <1>6, <2>1, <2>2 DEF E!evaluate, EP!evaluate
  <2> QED BY <2>3 DEF EP!Next
<1>7. CASE drain
  <2>1. Head(results) \in [item : Items, status : BOOLEAN]
    BY <1>7, HeadTailProperties DEF drain, P!getResults, TypeOK, P!PoolTypeOK, P!Status
  <2> QED BY <1>4, <1>5, <1>7, <2>1 DEF drain
<1> QED
  BY <1>1, <1>2, <1>3, <1>6, <1>7
  DEF Next, MainStep, vars, begin, chooseWait, wait, drained, evaluate, dispatch, offer, submit, check, joinThreads, return, WorkerStep, Returned

LEMMA EvaluatorInvariant ==
  /\ Init => EP!IInv
  /\ EP!IInv /\ TypeOK /\ [Next]_vars => EP!IInv'
<1>1. EP!Init => EP!IInv
  BY EP!InitIInv, EvaluatorAssumptions
<1>2. EP!IInv /\ [EP!Next]_EP!vars => EP!IInv'
  BY EP!NextIInv, EvaluatorAssumptions
<1> QED BY <1>1, <1>2, EvaluatorInit, EvaluatorNext

-----------------------------------------------------------------------------
(* The pool *)

\* The types in the form the provers use them.
LEMMA PoolTypes ==
  ASSUME TypeOK
  PROVE  /\ available_workers \in Seq(P!Workers)
         /\ results \in Seq([item : Items, status : BOOLEAN])
         /\ queues \in [P!Workers -> Seq(P!Message)]
         /\ worker \in [P!Workers -> {"starting", "idle", "busy", "exited"}]
         /\ job \in [P!Workers -> Items \cup {NoItem}]
         /\ NoItem \notin Items
         /\ P!Workers = 1..num_workers
         /\ states \in [Items -> E!ItemState]
         /\ pending \in Seq(Items)
  BY ItemsAssumption
  DEF TypeOK, P!PoolTypeOK, P!Status, NoItem, P!NoJob, P!Workers, E!TypeOK

\* What a worker holds, by where it is.
LEMMA HoldingByPhase ==
  ASSUME NEW w
  PROVE  /\ Fresh(w) \/ Resting(w) \/ Dismissed(w) \/ Gone(w) => Holding(w) = NoItem
         /\ \A i : worker[w] = "idle" /\ queues[w] = <<P!Work(i)>> => Holding(w) = i
         /\ Busy(w) => Holding(w) = job[w]
<1>1. \A i : P!Work(i).item = i /\ P!Exit.item = NoItem
  BY DEF P!Work, P!Exit, NoItem
<1>2. \A m : <<m>> # <<>> /\ <<m>>[1] = m
  OBVIOUS
<1> QED
  BY <1>1, <1>2 DEF Fresh, Resting, Dismissed, Gone, Busy, Holding

LEMMA SameWorkers ==
  ASSUME UNCHANGED <<available_workers, queues, shutdown_requested, worker, job>>
  PROVE  /\ PoolShape => PoolShape'
         /\ \A w : Holding(w)' = Holding(w)
  BY DEF PoolShape, Holding, Fresh, Resting, Given, Busy, Dismissed, Gone,
         Available

\* A worker that starts becomes available.
LEMMA StartStep ==
  ASSUME TypeOK, PoolShape, NEW w \in P!Workers, P!start(w)
  PROVE  /\ PoolShape'
         /\ \A v \in P!Workers : Holding(v)' = Holding(v)
<1> USE PoolTypes
<1>1. ~shutdown_requested /\ Fresh(w)
  BY DEF P!start, PoolShape, Fresh, Resting, Given, Busy, Dismissed, Gone
<1>2. /\ Available' = Available \cup {w}
      /\ worker' = [worker EXCEPT ![w] = "idle"]
      /\ UNCHANGED <<queues, shutdown_requested, job>>
  BY ElemsOfAppend DEF P!start, Available
<1>3. Distinct(available_workers')
  BY <1>1, DistinctAppend DEF P!start, PoolShape, Fresh, Available
<1>4. Resting(w)'
  BY <1>1, <1>2 DEF Fresh, Resting
<1>5. ASSUME NEW v \in P!Workers, v # w
      PROVE  (Fresh(v) \/ Resting(v) \/ Given(v) \/ Busy(v))'
  BY <1>1, <1>2, <1>5 DEF PoolShape, Fresh, Resting, Given, Busy
<1>6. PoolShape'
  BY <1>1, <1>2, <1>3, <1>4, <1>5 DEF PoolShape
<1>7. \A v \in P!Workers : Holding(v)' = Holding(v)
  BY <1>1, <1>2 DEF Holding, Fresh
<1> QED BY <1>6, <1>7

\* A worker takes what is in its queue, and holds it still.
LEMMA DequeueStep ==
  ASSUME TypeOK, PoolShape, NEW w \in P!Workers, P!dequeue(w)
  PROVE  /\ PoolShape'
         /\ \A v \in P!Workers : Holding(v)' = Holding(v)
<1> USE PoolTypes
<1>1. /\ UNCHANGED <<available_workers, shutdown_requested>>
      /\ queues' = [queues EXCEPT ![w] = Tail(queues[w])]
  BY DEF P!dequeue
<1>2. CASE shutdown_requested
  <2>1. Dismissed(w)
    BY <1>2 DEF P!dequeue, PoolShape, Dismissed, Gone
  <2>2. Head(queues[w]) = P!Exit /\ Tail(queues[w]) = <<>>
    BY <2>1 DEF Dismissed
  <2>3. worker' = [worker EXCEPT ![w] = "exited"] /\ UNCHANGED job
    BY <2>2 DEF P!dequeue, P!Exit
  <2>4. Gone(w)'
    BY <1>1, <2>1, <2>2, <2>3 DEF Gone, Dismissed, Available
  <2>5. ASSUME NEW v \in P!Workers, v # w
        PROVE  (Dismissed(v) \/ Gone(v))' /\ Holding(v)' = Holding(v)
    BY <1>1, <1>2, <2>3, <2>5 DEF PoolShape, Dismissed, Gone, Available, Holding
  <2>6. Holding(w)' = Holding(w)
    BY <2>1, <2>4, HoldingByPhase DEF Holding, Gone
  <2> QED BY <1>1, <1>2, <2>4, <2>5, <2>6 DEF PoolShape
<1>3. CASE ~shutdown_requested
  <2>1. Given(w)
    BY <1>3 DEF P!dequeue, PoolShape, Fresh, Resting, Given, Busy
  <2>2. PICK i \in Items : queues[w] = <<P!Work(i)>>
    BY <2>1 DEF Given
  <2>3. Head(queues[w]) = P!Work(i) /\ Tail(queues[w]) = <<>>
    BY <2>2
  <2>4. worker' = [worker EXCEPT ![w] = "busy"] /\ job' = [job EXCEPT ![w] = i]
    BY <2>3 DEF P!dequeue, P!Work
  <2>5. Busy(w)' /\ Holding(w)' = i
    BY <1>1, <2>1, <2>3, <2>4 DEF Given, Busy, Available, Holding
  <2>6. ASSUME NEW v \in P!Workers, v # w
        PROVE  (Fresh(v) \/ Resting(v) \/ Given(v) \/ Busy(v))'
               /\ Holding(v)' = Holding(v)
    BY <1>1, <1>3, <2>4, <2>6
    DEF PoolShape, Fresh, Resting, Given, Busy, Available, Holding
  <2>7. Holding(w) = i
    BY <2>1, <2>2, HoldingByPhase DEF Given
  <2> QED BY <1>1, <1>3, <2>5, <2>6, <2>7 DEF PoolShape
<1> QED BY <1>2, <1>3

\* A worker publishes its result and becomes available, holding nothing.
LEMMA PublishStep ==
  ASSUME TypeOK, PoolShape, NEW w \in P!Workers, NEW status, P!publish(w, status)
  PROVE  /\ PoolShape'
         /\ Holding(w) = job[w] /\ job[w] \in Items
         /\ Holding(w)' = NoItem
         /\ \A v \in P!Workers : v # w => Holding(v)' = Holding(v)
<1> USE PoolTypes
<1>1. ~shutdown_requested /\ Busy(w)
  BY DEF P!publish, PoolShape, Fresh, Resting, Given, Busy, Dismissed, Gone
<1>2. /\ Available' = Available \cup {w}
      /\ worker' = [worker EXCEPT ![w] = "idle"]
      /\ job' = [job EXCEPT ![w] = NoItem]
      /\ UNCHANGED <<queues, shutdown_requested>>
  BY ElemsOfAppend DEF P!publish, Available, NoItem
<1>3. Distinct(available_workers')
  BY <1>1, DistinctAppend DEF P!publish, PoolShape, Busy, Available
<1>4. Resting(w)'
  BY <1>1, <1>2 DEF Busy, Resting
<1>5. ASSUME NEW v \in P!Workers, v # w
      PROVE  /\ (Fresh(v) \/ Resting(v) \/ Given(v) \/ Busy(v))'
             /\ Holding(v)' = Holding(v)
  BY <1>1, <1>2, <1>5 DEF PoolShape, Fresh, Resting, Given, Busy, Holding
<1>6. PoolShape'
  BY <1>1, <1>2, <1>3, <1>4, <1>5 DEF PoolShape
<1>7. Holding(w)' = NoItem
  BY <1>4 DEF Holding, Resting
<1> QED BY <1>1, <1>5, <1>6, <1>7 DEF Busy, Holding

\* The oldest available worker is given an item; it held none.
LEMMA ProcessItemStep ==
  ASSUME TypeOK, PoolShape, ~shutdown_requested, NEW i \in Items, P!processItem(i)
  PROVE  /\ PoolShape'
         /\ \E w \in P!Workers :
              /\ Holding(w) = NoItem
              /\ Holding(w)' = i
              /\ \A v \in P!Workers : v # w => Holding(v)' = Holding(v)
<1> USE PoolTypes
<1>0. PICK w \in P!Workers : w = Head(available_workers)
  BY ElemsOfTail DEF P!processItem
<1>1. w \in Available
  BY <1>0, ElemsOfTail DEF P!processItem, Available
<1>2. /\ Distinct(available_workers')
      /\ Available' = Available \ {w}
      /\ queues' = [queues EXCEPT ![w] = Append(queues[w], P!Work(i))]
      /\ UNCHANGED <<shutdown_requested, worker, job>>
  BY <1>0, DistinctTail DEF P!processItem, PoolShape, Available
<1>3. Resting(w)
  BY <1>1 DEF PoolShape, Fresh, Resting, Given, Busy
<1>4. queues'[w] = <<P!Work(i)>> /\ worker'[w] = "idle"
  BY <1>1, <1>2, <1>3 DEF Resting
<1>5. Given(w)'
  BY <1>2, <1>4 DEF Given
<1>6. ASSUME NEW v \in P!Workers, v # w
      PROVE  /\ (Fresh(v) \/ Resting(v) \/ Given(v) \/ Busy(v))'
             /\ Holding(v)' = Holding(v)
  BY <1>2, <1>6 DEF PoolShape, Fresh, Resting, Given, Busy, Holding
<1>7. PoolShape'
  BY <1>2, <1>5, <1>6 DEF PoolShape
<1>8. Holding(w)' = i
  BY <1>4 DEF Holding, P!Work
<1>9. Holding(w) = NoItem
  BY <1>3, HoldingByPhase
<1> QED BY <1>0, <1>6, <1>7, <1>8, <1>9

\* The pool is shut down when all workers are available.
LEMMA ShutdownStep ==
  ASSUME TypeOK, PoolShape, ~shutdown_requested,
         Len(available_workers) = num_workers, P!requestShutdown
  PROVE  /\ PoolShape'
         /\ \A v \in P!Workers : Holding(v)' = Holding(v)
<1> USE PoolTypes
<1>1. Available = P!Workers
  BY num_workersAssumption, DistinctFills DEF PoolShape, Available
<1>2. /\ Available' = Available
      /\ shutdown_requested'
      /\ queues' = [w \in P!Workers |-> Append(queues[w], P!Exit)]
      /\ UNCHANGED <<available_workers, worker, job>>
  BY DEF P!requestShutdown, Available
<1>3. ASSUME NEW w \in P!Workers
      PROVE  Dismissed(w)' /\ Holding(w)' = Holding(w)
  <2>1. Resting(w)
    BY <1>1 DEF PoolShape, Fresh, Resting, Given, Busy
  <2>2. queues'[w] = <<P!Exit>>
    <3>1. Append(<<>>, P!Exit) = <<P!Exit>>
      OBVIOUS
    <3> QED BY <1>2, <2>1, <3>1 DEF Resting
  <2>3. Dismissed(w)'
    BY <1>1, <1>2, <2>1, <2>2 DEF Dismissed, Resting
  <2>4. Holding(w)' = NoItem
    BY <2>2, <2>3 DEF Holding, Dismissed, P!Exit, NoItem
  <2> QED BY <2>1, <2>3, <2>4, HoldingByPhase
<1> QED BY <1>2, <1>3 DEF PoolShape

-----------------------------------------------------------------------------
(* The types *)

Result == [item : Items, status : BOOLEAN]

LEMMA PoolTypeOKIs ==
  P!PoolTypeOK <=>
    /\ available_workers \in Seq(P!Workers)
    /\ results \in Seq(Result)
    /\ queues \in [P!Workers -> Seq(P!Message)]
    /\ shutdown_requested \in BOOLEAN
    /\ worker \in [P!Workers -> {"starting", "idle", "busy", "exited"}]
    /\ job \in [P!Workers -> Items \cup {NoItem}]
    /\ asleep \in BOOLEAN
  BY DEF P!PoolTypeOK, Result, P!Status, NoItem

LEMMA InitTypeOK == Init => TypeOK
<1> SUFFICES ASSUME Init PROVE TypeOK
  OBVIOUS
<1>1. E!TypeOK
  BY EvaluatorInvariant, EvaluatorTypeOK DEF EP!IInv
<1>2. P!PoolTypeOK
  BY ListTypes, PoolTypeOKIs DEF Init, P!PoolInit, NoItem
<1> QED BY <1>1, <1>2 DEF Init, TypeOK

LEMMA StepTypeOK == IInv /\ [Next]_vars => TypeOK'
<1> SUFFICES ASSUME IInv, [Next]_vars PROVE TypeOK'
  OBVIOUS
<1>0. TypeOK /\ EP!IInv /\ PoolShape /\ Books
  BY DEF IInv
<1> USE <1>0
<1>1. E!TypeOK'
  <2>1. EP!TypeOK'
    BY EvaluatorInvariant DEF EP!IInv
  <2> QED BY <2>1, EvaluatorTypeOK, PTL
<1>2. UNCHANGED option
  BY DEF Next, MainStep, vars, begin, chooseWait, wait, drained, drain, evaluate,
         dispatch, offer, submit, check, joinThreads, return, WorkerStep, Returned
<1>3. (P!PoolTypeOK /\ item \in Items \cup {NoItem})'
  <2> DEFINE Types == /\ available_workers \in Seq(P!Workers)
                      /\ results \in Seq(Result)
                      /\ queues \in [P!Workers -> Seq(P!Message)]
                      /\ shutdown_requested \in BOOLEAN
                      /\ worker \in [P!Workers -> {"starting", "idle", "busy", "exited"}]
                      /\ job \in [P!Workers -> Items \cup {NoItem}]
                      /\ asleep \in BOOLEAN
                      /\ item \in Items \cup {NoItem}
  <2> SUFFICES Types'
    BY PoolTypeOKIs, PTL
  <2>0. Types
    BY PoolTypeOKIs DEF TypeOK
  <2>1. CASE UNCHANGED <<pool, item>>
    BY <2>0, <2>1 DEF pool
  <2>2. CASE wait
    BY <2>0, <2>2 DEF wait, P!sleepUnless, pool, locals
  <2>3. CASE drain
    BY <2>0, <2>3, ListTypes DEF drain, P!getResults
  <2>4. CASE offer
    BY <2>0, <2>4 DEF offer, pool
  <2>5. CASE submit
    <3>1. /\ available_workers # <<>>
          /\ available_workers' = Tail(available_workers)
          /\ queues' = [queues EXCEPT ![Head(available_workers)] =
                          Append(queues[Head(available_workers)], P!Work(item))]
          /\ UNCHANGED <<results, shutdown_requested, worker, job, asleep>>
          /\ item' = NoItem
      BY <2>5 DEF submit, P!processItem
    <3>2. P!Work(item) \in P!Message
      BY <2>0, <2>5 DEF submit, Books, SubmittedApart, P!Message
    <3> QED BY <2>0, <3>1, <3>2, ListTypes
  <2>6. CASE joinThreads
    <3>1. P!Exit \in P!Message
      BY DEF P!Message
    <3> QED BY <2>0, <2>6, <3>1, ListTypes DEF joinThreads, P!requestShutdown, locals
  <2>7. ASSUME NEW w \in P!Workers, WorkerStep(w) PROVE Types'
    <3>0. item' = item
      BY <2>7 DEF WorkerStep, locals
    <3>1. CASE P!start(w)
      BY <2>0, <3>0, <3>1, ListTypes DEF P!start
    <3>2. CASE P!dequeue(w)
      <4>1. Head(queues[w]) \in P!Message /\ Tail(queues[w]) \in Seq(P!Message)
        BY <2>0, <3>2, ListTypes DEF P!dequeue
      <4>2. Head(queues[w]).process => Head(queues[w]).item \in Items
        BY <4>1 DEF P!Message, P!Work, P!Exit
      <4> HIDE DEF Types
      <4>3. /\ queues' = [queues EXCEPT ![w] = Tail(queues[w])]
            /\ \/ worker' = [worker EXCEPT ![w] = "exited"] /\ UNCHANGED job
               \/ \E i \in Items : /\ worker' = [worker EXCEPT ![w] = "busy"]
                                   /\ job' = [job EXCEPT ![w] = i]
            /\ UNCHANGED <<available_workers, results, shutdown_requested, asleep>>
        BY <3>2, <4>2 DEF P!dequeue
      <4> QED BY <2>0, <3>0, <4>1, <4>3 DEF Types
    <3>3. ASSUME NEW status \in BOOLEAN, P!publish(w, status) PROVE Types'
      <4>1. [item |-> job[w], status |-> status] \in Result
        BY <3>3, PublishStep DEF Result
      <4> QED BY <2>0, <3>0, <3>3, <4>1, ListTypes DEF P!publish, NoItem
    <3> QED BY <2>7, <3>1, <3>2, <3>3 DEF WorkerStep, P!WorkerStep, P!Status
  <2> QED
    BY <2>1, <2>2, <2>3, <2>4, <2>5, <2>6, <2>7
    DEF Next, MainStep, vars, locals, begin, chooseWait, drained, evaluate,
        dispatch, check, return, Returned
<1>4. (/\ pc \in {"begin", "loop", "wait", "waitForResults", "drain", "dispatch",
                  "offer", "submit", "check", "join", "joining", "returned"}
       /\ stop \in BOOLEAN
       /\ any_errors \in BOOLEAN)'
  BY OptionsAssumption
  DEF TypeOK, Next, MainStep, vars, locals, begin, chooseWait, wait, drained, drain,
      evaluate, dispatch, offer, submit, check, joinThreads, return, WorkerStep,
      Returned
<1> QED BY <1>1, <1>2, <1>3, <1>4 DEF TypeOK

-----------------------------------------------------------------------------
(* The shape of the pool *)

LEMMA StepPoolShape == IInv /\ [Next]_vars => PoolShape'
<1> SUFFICES ASSUME IInv, [Next]_vars PROVE PoolShape'
  OBVIOUS
<1> USE DEF IInv
<1>1. CASE UNCHANGED <<available_workers, queues, shutdown_requested, worker, job>>
  BY <1>1, SameWorkers
<1>2. CASE submit
  <2>1. item \in Items
    BY <1>2 DEF submit, TypeOK, Books, SubmittedApart
  <2> QED BY <1>2, <2>1, ProcessItemStep DEF submit, Control
<1>3. CASE joinThreads
  BY <1>3, ShutdownStep DEF joinThreads, Control
<1>4. ASSUME NEW w \in P!Workers, WorkerStep(w) PROVE PoolShape'
  BY <1>4, StartStep, DequeueStep, PublishStep DEF WorkerStep, P!WorkerStep
<1> QED
  BY <1>1, <1>2, <1>3, <1>4
  DEF Next, MainStep, vars, pool, begin, chooseWait, wait, P!sleepUnless, drained,
      drain, P!getResults, evaluate, dispatch, offer, check, return, Returned

-----------------------------------------------------------------------------
(* The books *)

\* What a step of a re-evaluation does to the states.
LEMMA EvaluateEffect ==
  ASSUME TypeOK, E!evaluate
  PROVE  \/ states' = states
         \/ \E i \in Items : /\ states[i] \in {"waiting", "ready"}
                             /\ \/ states' = [states EXCEPT ![i] = "depfailed"]
                                \/ states' = [states EXCEPT ![i] = "ready"]
<1>1. Head(pending) \in Items
  BY PoolTypes, ListTypes DEF E!evaluate
<1> QED BY <1>1 DEF E!evaluate, E!evaluateItem

\* The result that is taken is the one of a running item.
LEMMA DrainEffect ==
  ASSUME TypeOK, drain
  PROVE  /\ results # <<>> /\ results[1] \in Result /\ results' = Tail(results)
         /\ states[results[1].item] = "running"
         /\ states' = [states EXCEPT ![results[1].item] =
                         IF results[1].status THEN "completed" ELSE "failed"]
         /\ any_errors' = (any_errors \/ ~results[1].status)
         /\ stop' = (stop \/ (~results[1].status /\ option.stop_on_first_error))
<1>0. results \in Seq(Result) /\ any_errors \in BOOLEAN /\ stop \in BOOLEAN
  BY PoolTypes DEF TypeOK, Result
<1>1. results # <<>> /\ results' = Tail(results)
  BY DEF drain, P!getResults
<1>2. results[1] = Head(results) /\ results[1] \in Result
  BY <1>0, <1>1, ListTypes
<1>3. PICK r : r = results[1]
  OBVIOUS
<1>4. r.status \in BOOLEAN
  BY <1>2, <1>3 DEF Result
<1>5. IF r.status
      THEN E!setCompleted(r.item) /\ UNCHANGED <<any_errors, stop>>
      ELSE /\ E!setFailed(r.item)
           /\ any_errors' = TRUE
           /\ stop' = (stop \/ option.stop_on_first_error)
  BY <1>2, <1>3 DEF drain
<1>6. /\ states[r.item] = "running"
      /\ states' = [states EXCEPT ![r.item] =
                      IF r.status THEN "completed" ELSE "failed"]
  BY <1>4, <1>5 DEF E!setCompleted, E!setFailed, E!setFinished
<1>7. /\ any_errors' = (any_errors \/ ~r.status)
      /\ stop' = (stop \/ (~r.status /\ option.stop_on_first_error))
  BY <1>0, <1>4, <1>5
<1> QED BY <1>1, <1>2, <1>3, <1>6, <1>7

\* The lists of results before and after one is taken or published.
LEMMA ResultsStep ==
  ASSUME TypeOK
  PROVE  /\ DOMAIN results = 1..Len(results) /\ Len(results) \in Nat
         /\ \A n \in DOMAIN results : results[n].item \in Items
         /\ results # <<>> =>
              /\ 1 \in DOMAIN results
              /\ DOMAIN Tail(results) = 1..(Len(results) - 1)
              /\ \A n \in DOMAIN Tail(results) :
                   n + 1 \in DOMAIN results /\ Tail(results)[n] = results[n + 1]
         /\ \A r :
              /\ DOMAIN Append(results, r) = DOMAIN results \cup {Len(results) + 1}
              /\ \A n \in DOMAIN results : Append(results, r)[n] = results[n]
              /\ Append(results, r)[Len(results) + 1] = r
<1>1. results \in Seq(Result)
  BY PoolTypes DEF Result
<1>2. \A r \in Result : r.item \in Items
  BY DEF Result
<1> HIDE DEF Result
<1>3. /\ DOMAIN results = 1..Len(results) /\ Len(results) \in Nat
      /\ \A n \in DOMAIN results : results[n] \in Result
  BY <1>1
<1>4. results # <<>> =>
        /\ 1 \in DOMAIN results
        /\ DOMAIN Tail(results) = 1..(Len(results) - 1)
        /\ \A n \in DOMAIN Tail(results) :
             n + 1 \in DOMAIN results /\ Tail(results)[n] = results[n + 1]
  BY <1>1
<1>5. ASSUME NEW r
      PROVE  /\ DOMAIN Append(results, r) = DOMAIN results \cup {Len(results) + 1}
             /\ \A n \in DOMAIN results : Append(results, r)[n] = results[n]
             /\ Append(results, r)[Len(results) + 1] = r
  BY <1>1, ElemsOfAppend
<1> QED BY <1>2, <1>3, <1>4, <1>5

LEMMA StepBooks == IInv /\ [Next]_vars => Books'
<1> SUFFICES ASSUME IInv, [Next]_vars PROVE Books'
  OBVIOUS
<1>0. TypeOK /\ PoolShape /\ Books /\ Control
  BY DEF IInv
<1>1. ASSUME \A w \in P!Workers : Holding(w)' = Holding(w),
             UNCHANGED <<results, item>>, (pc' = "submit") = (pc = "submit"),
             \A i \in Items : (states'[i] = "running") = (states[i] = "running")
      PROVE  Books'
  BY <1>0, <1>1, PoolTypes
  DEF Books, HeldByOne, ReportedOnce, HeldOrReported, SubmittedApart,
      RunningIsHeld, P!Workers, NoItem, P!NoJob
<1>2. CASE evaluate
  <2>1. \A i \in Items : (states'[i] = "running") = (states[i] = "running")
    BY <1>0, <1>2, EvaluateEffect, PoolTypes DEF evaluate
  <2> QED BY <1>1, <1>2, <2>1, SameWorkers DEF evaluate, pool, locals
<1>3. CASE begin
  <2>1. states' = states
    BY <1>3 DEF begin, E!disableFailurePropagation, evaluator
  <2> QED BY <1>1, <1>3, <2>1, SameWorkers DEF begin, pool, locals
<1>4. CASE chooseWait \/ wait \/ drained \/ dispatch \/ check \/ return \/ UNCHANGED vars
  BY <1>1, <1>4, SameWorkers
  DEF chooseWait, wait, drained, dispatch, check, return, vars, P!sleepUnless,
      evaluator, pool, locals
<1>5. CASE joinThreads
  <2>1. \A w \in P!Workers : Holding(w)' = Holding(w)
    BY <1>0, <1>5, ShutdownStep DEF joinThreads, Control
  <2> QED
    BY <1>1, <1>5, <2>1 DEF joinThreads, P!requestShutdown, evaluator, locals
<1>6. CASE drain
  <2>1. PICK i \in Items : i = results[1].item
    BY <1>0, <1>6, DrainEffect DEF Result
  <2>2. /\ \A w \in P!Workers : Holding(w)' = Holding(w)
        /\ UNCHANGED <<item, pc>>
    BY <1>6, SameWorkers DEF drain, P!getResults
  <2>3. /\ \A j \in Items : states'[j] = "running" <=> states[j] = "running" /\ j # i
        /\ results # <<>> /\ results' = Tail(results)
    BY <1>0, <1>6, <2>1, DrainEffect, PoolTypes
  <2>4. /\ 1 \in DOMAIN results
        /\ \A n \in DOMAIN results' :
             /\ n + 1 \in DOMAIN results /\ results'[n] = results[n + 1]
             /\ n + 1 # 1 /\ n \in Nat
    BY <1>0, <2>3, ResultsStep
  <2>5. \A n \in DOMAIN results, j \in Items :
          results[n].item = j /\ j # i => \E m \in DOMAIN results' : results'[m].item = j
    <3> SUFFICES ASSUME NEW n \in DOMAIN results, results[n].item # i
                 PROVE  \E m \in DOMAIN results' : results'[m].item = results[n].item
      OBVIOUS
    <3>1. n # 1
      BY <2>1
    <3>2. n - 1 \in DOMAIN Tail(results) /\ Tail(results)[n - 1] = results[n]
      BY <1>0, <2>3, <3>1, ResultsStep
    <3> QED BY <2>3, <3>2
  <2>6. \A n \in DOMAIN results' : results'[n].item # i
    BY <1>0, <2>1, <2>4 DEF Books, ReportedOnce
  <2>7. i # item /\ \A w \in P!Workers : Holding(w) # i
    BY <1>0, <2>1, <2>4 DEF Books, HeldOrReported, SubmittedApart
  <2>8. P!Workers' = P!Workers /\ NoItem' = NoItem
    BY DEF P!Workers, NoItem, P!NoJob
  <2>9. HeldByOne' /\ ReportedOnce'
    BY <1>0, <2>2, <2>4, <2>8 DEF Books, HeldByOne, ReportedOnce
  <2>10. HeldOrReported' /\ SubmittedApart'
    BY <1>0, <2>2, <2>4, <2>8 DEF Books, HeldOrReported, SubmittedApart
  <2>11. RunningIsHeld'
    BY <1>0, <2>2, <2>3, <2>4, <2>5, <2>6, <2>7, <2>8 DEF Books, RunningIsHeld
  <2> QED BY <2>9, <2>10, <2>11 DEF Books
<1>7. CASE offer
  <2>1. /\ \A w \in P!Workers : Holding(w)' = Holding(w)
        /\ UNCHANGED results
    BY <1>7, SameWorkers DEF offer, pool
  <2>2. CASE UNCHANGED <<states, item>> /\ pc' # "submit"
    BY <1>1, <1>7, <2>1, <2>2 DEF offer
  <2>3. ASSUME NEW i \in Items, E!setRunning(i), item' = i, pc' = "submit"
        PROVE  Books'
    <3>1. item = NoItem
      BY <1>0, <1>7 DEF offer, Books, SubmittedApart
    <3>2. states[i] # "running" /\ states' = [states EXCEPT ![i] = "running"]
      BY <2>3 DEF E!setRunning
    <3>3. /\ \A w \in P!Workers : Holding(w) # i
          /\ \A n \in DOMAIN results : results[n].item # i
      BY <1>0, <3>2 DEF Books, RunningIsHeld
    <3>4. \A j \in Items : states'[j] = "running" <=> states[j] = "running" \/ j = i
      BY <1>0, <3>2, PoolTypes
    <3> QED
      BY <1>0, <2>1, <2>3, <3>1, <3>3, <3>4, PoolTypes
      DEF Books, HeldByOne, ReportedOnce, HeldOrReported, SubmittedApart,
          RunningIsHeld, NoItem, P!NoJob, P!Workers
  <2> QED BY <1>7, <2>2, <2>3 DEF offer, evaluator
<1>8. CASE submit
  <2>1. item \in Items /\ item' = NoItem /\ pc' # "submit" /\ UNCHANGED <<states, results>>
    BY <1>0, <1>8 DEF submit, TypeOK, Books, SubmittedApart, evaluator, P!processItem
  <2>2. PICK w \in P!Workers :
          /\ Holding(w) = NoItem
          /\ Holding(w)' = item
          /\ \A v \in P!Workers : v # w => Holding(v)' = Holding(v)
    BY <1>0, <1>8, <2>1, ProcessItemStep DEF submit, Control
  <2>3. P!Workers' = P!Workers /\ NoItem' = NoItem /\ NoItem \notin Items
    BY <1>0, PoolTypes DEF P!Workers, NoItem, P!NoJob
  <2>4. \A v \in P!Workers : Holding(v) # item
    BY <1>0, <2>1, <2>3 DEF Books, SubmittedApart
  <2>5. HeldByOne'
    BY <1>0, <2>2, <2>3, <2>4 DEF Books, HeldByOne
  <2>6. ReportedOnce' /\ HeldOrReported' /\ SubmittedApart'
    BY <1>0, <2>1, <2>2, <2>3, ResultsStep
    DEF Books, ReportedOnce, HeldOrReported, SubmittedApart
  <2>7. RunningIsHeld'
    BY <1>0, <2>1, <2>2, <2>3 DEF Books, RunningIsHeld
  <2> QED BY <2>5, <2>6, <2>7 DEF Books
<1>9. ASSUME NEW w \in P!Workers, WorkerStep(w) PROVE Books'
  <2>1. UNCHANGED <<states, item, pc>>
    BY <1>9 DEF WorkerStep, evaluator, locals
  <2>2. CASE P!start(w) \/ P!dequeue(w)
    <3>1. \A v \in P!Workers : Holding(v)' = Holding(v)
      BY <1>0, <2>2, StartStep, DequeueStep
    <3> QED BY <1>1, <2>1, <2>2, <3>1 DEF P!start, P!dequeue
  <2>3. ASSUME NEW status, P!publish(w, status) PROVE Books'
    <3>1. /\ Holding(w) = job[w] /\ job[w] \in Items
          /\ Holding(w)' = NoItem
          /\ \A v \in P!Workers : v # w => Holding(v)' = Holding(v)
      BY <1>0, <2>3, PublishStep
    <3>2. PICK k : /\ k \notin DOMAIN results
                   /\ DOMAIN results' = DOMAIN results \cup {k}
                   /\ \A n \in DOMAIN results : results'[n] = results[n]
                   /\ results'[k].item = Holding(w)
      <4>1. Len(results) + 1 \notin DOMAIN results
        BY <1>0, ResultsStep
      <4>2. results' = Append(results, [item |-> job[w], status |-> status])
        BY <2>3 DEF P!publish
      <4> QED BY <1>0, <3>1, <4>1, <4>2, ResultsStep
    <3>3. P!Workers' = P!Workers /\ NoItem' = NoItem /\ NoItem \notin Items
      BY <1>0, PoolTypes DEF P!Workers, NoItem, P!NoJob
    <3>4. HeldByOne' /\ ReportedOnce'
      BY <1>0, <3>1, <3>2, <3>3 DEF Books, HeldByOne, ReportedOnce, HeldOrReported
    <3>5. HeldOrReported'
      <4>1. \A v \in P!Workers : v # w => Holding(v) # Holding(w)
        BY <1>0, <3>1, <3>3 DEF Books, HeldByOne
      <4>2. \A n \in DOMAIN results : results[n].item # NoItem
        BY <1>0, <3>3, ResultsStep
      <4> QED
        BY <1>0, <3>1, <3>2, <3>3, <4>1, <4>2 DEF Books, HeldOrReported
    <3>6. SubmittedApart'
      BY <1>0, <2>1, <3>1, <3>2, <3>3 DEF Books, SubmittedApart
    <3>7. RunningIsHeld'
      BY <1>0, <2>1, <3>1, <3>2, <3>3 DEF Books, RunningIsHeld
    <3> QED BY <3>4, <3>5, <3>6, <3>7 DEF Books
  <2> QED BY <1>9, <2>2, <2>3 DEF WorkerStep, P!WorkerStep
<1> QED
  BY <1>2, <1>3, <1>4, <1>5, <1>6, <1>7, <1>8, <1>9
  DEF Next, MainStep, Returned

-----------------------------------------------------------------------------
(* What run() knows *)

\* nextReadyItem finds an item if any is ready.
LEMMA ReadyIsFound ==
  ASSUME TypeOK
  PROVE  AnyReady <=> ~NothingReady
<1> DEFINE order == graph.in_order
           S == {n \in DOMAIN order : states[order[n]] = "ready"}
<1>1. /\ \A i \in Items : \E n \in DOMAIN order : order[n] = i
      /\ order \in Seq(Items)
  BY DEF TypeOK, E!TypeOK, E!CheckedGraph, E!Enumerates
<1>2. S \subseteq Nat /\ \A n \in DOMAIN order : order[n] \in Items
  BY <1>1
<1>3. ASSUME NEW i \in Items, states[i] = "ready" PROVE AnyReady
  <2>1. S # {}
    BY <1>1, <1>3
  <2>2. PICK n \in S : \A m \in S : n <= m
    <3> HIDE DEF S
    <3> QED BY <1>2, <2>1, LeastNatural
  <2>3. \A m \in 1..(n - 1) : m \in DOMAIN order /\ m < n
    BY <1>1, <2>2
  <2>4. \A m \in 1..(n - 1) : states[order[m]] # "ready"
    BY <1>2, <2>2, <2>3
  <2>5. E!nextReadyItem(order[n])
    BY <2>2, <2>4 DEF E!nextReadyItem
  <2> QED BY <1>2, <2>2, <2>5 DEF AnyReady
<1> QED BY <1>3 DEF AnyReady, NothingReady, E!nextReadyItem

\* While a worker starts or publishes a result, not all are available.
LEMMA WorkingPool ==
  ASSUME TypeOK, PoolShape, NEW w \in P!Workers,
         worker[w] \in {"starting", "busy"}
  PROVE  Len(available_workers) # num_workers
<1>1. w \notin Available
  BY DEF PoolShape, Fresh, Resting, Given, Busy, Dismissed, Gone
<1> QED
  BY <1>1, PoolTypes, num_workersAssumption, DistinctFills DEF PoolShape, Available

LEMMA InitControl == Init => PoolShape /\ Books /\ Control
<1> SUFFICES ASSUME Init PROVE PoolShape /\ Books /\ Control
  OBVIOUS
<1>0. TypeOK /\ NoItem \notin Items
  BY InitTypeOK, PoolTypes
<1>1. \A w \in P!Workers : Fresh(w) /\ Holding(w) = NoItem
  BY DEF Init, P!PoolInit, Fresh, Holding, Available, Elems
<1>2. PoolShape
  BY <1>1 DEF Init, P!PoolInit, PoolShape, Distinct
<1>3. DOMAIN results = {}
  BY DEF Init, P!PoolInit
<1>4. /\ pc = "begin" /\ item = NoItem /\ pending = <<>> /\ propagate_failure = TRUE
      /\ \A i \in Items : states[i] \in {"waiting", "ready"}
      /\ stop = FALSE /\ any_errors = FALSE /\ asleep = FALSE
      /\ shutdown_requested = FALSE
  BY DEF Init, E!Init, P!PoolInit
<1>5. Books
  BY <1>0, <1>1, <1>3, <1>4
  DEF Books, HeldByOne, ReportedOnce, HeldOrReported, SubmittedApart, RunningIsHeld
<1> QED BY <1>2, <1>4, <1>5 DEF Control

LEMMA StepControl == IInv /\ [Next]_vars => Control'
<1> SUFFICES ASSUME IInv, [Next]_vars PROVE Control'
  OBVIOUS
<1>0. TypeOK /\ PoolShape /\ Books /\ Control
  BY DEF IInv
<1> USE <1>0
<1>1. CASE begin
  <2>1. /\ pc = "begin" /\ pc' = "loop"
        /\ UNCHANGED <<pool, option, locals, states, pending>>
    BY <1>1 DEF begin, evaluator, E!disableFailurePropagation
  <2>2. propagate_failure' <=> ~option.disable_failure_propagation
    BY <1>1 DEF begin, evaluator, E!disableFailurePropagation, Control
  <2> QED BY <2>1, <2>2 DEF pool, locals, Control
<1>2. CASE chooseWait
  BY <1>2, ReadyIsFound
  DEF chooseWait, pool, locals, evaluator, Control, NothingReady
<1>3. CASE wait
  BY <1>3 DEF wait, WaitIsOver, P!WaitIsOver, P!sleepUnless, pool, locals, evaluator,
              Control, NothingReady
<1>4. CASE drained
  BY <1>4 DEF drained, pool, locals, evaluator, Control, NothingReady
<1>5. CASE drain
  <2>1. PICK i \in Items : i = results[1].item
    BY <1>5, DrainEffect DEF Result
  <2>2. results[1].status \in BOOLEAN
    BY <1>5, DrainEffect DEF Result
  <2>3. any_errors' <=> \E j \in Items : states'[j] = "failed"
    BY <1>5, <2>1, <2>2, DrainEffect, PoolTypes DEF Control
  <2>4. stop' => any_errors' /\ option.stop_on_first_error
    BY <1>5, DrainEffect DEF Control
  <2>5. /\ UNCHANGED <<pc, propagate_failure, option, shutdown_requested, asleep, worker>>
        /\ pc = "drain"
    BY <1>5 DEF drain, P!getResults, E!setCompleted, E!setFailed, E!setFinished
  <2> QED BY <2>3, <2>4, <2>5 DEF Control
<1>6. CASE evaluate
  <2>1. /\ UNCHANGED <<pc, propagate_failure, option, shutdown_requested, asleep, worker,
                       stop, any_errors>>
        /\ pc = "drain"
    BY <1>6 DEF evaluate, E!evaluate, pool, locals, Control
  <2>2. \A i \in Items : states'[i] = "failed" <=> states[i] = "failed"
    BY <1>6, EvaluateEffect, PoolTypes DEF evaluate
  <2> QED BY <2>1, <2>2 DEF Control
<1>7. CASE dispatch
  BY <1>7 DEF dispatch, pool, locals, evaluator, Control, NothingReady
<1>8. CASE offer
  <2>1. CASE pc' = "check" /\ UNCHANGED evaluator
    BY <1>8, <2>1 DEF offer, pool, evaluator, Control, NothingReady
  <2>2. ASSUME NEW i \in Items, P!availableWorkers > 0, E!setRunning(i), pc' = "submit"
        PROVE  Control'
    <3>1. available_workers' # <<>>
      BY <1>8, <2>2 DEF offer, pool, P!availableWorkers
    <3>2. /\ states[i] = "ready" /\ states' = [states EXCEPT ![i] = "running"]
          /\ UNCHANGED <<pending, propagate_failure>>
      BY <2>2 DEF E!setRunning
    <3>3. \A j \in Items : states'[j] = "failed" <=> states[j] = "failed"
      BY <3>2, PoolTypes
    <3> QED BY <1>8, <2>2, <3>1, <3>2, <3>3 DEF offer, pool, Control
  <2> QED BY <1>8, <2>1, <2>2 DEF offer
<1>9. CASE submit
  BY <1>9 DEF submit, P!processItem, evaluator, Control, NothingReady
<1>10. CASE check
  BY <1>10, ReadyIsFound
  DEF check, P!idle, pool, locals, evaluator, Control, NothingReady
<1>11. CASE joinThreads
  BY <1>11 DEF joinThreads, P!requestShutdown, locals, evaluator, Control, NothingReady
<1>12. CASE return
  BY <1>12 DEF return, P!allJoined, pool, locals, evaluator, Control, NothingReady
<1>13. ASSUME NEW w \in P!Workers, WorkerStep(w) PROVE Control'
  <2>1. UNCHANGED <<states, pending, propagate_failure, option, pc, item, stop, any_errors>>
    BY <1>13 DEF WorkerStep, locals, evaluator
  <2>2. CASE P!start(w) \/ \E status \in P!Status : P!publish(w, status)
    <3>1. pc \notin {"join", "joining", "returned"}
      BY <2>2, WorkingPool DEF P!start, P!publish, Control
    <3>2. available_workers' # <<>>
      <4>1. available_workers' = Append(available_workers, w)
        BY <2>2 DEF P!start, P!publish
      <4>2. available_workers \in Seq(P!Workers)
        BY PoolTypes
      <4> QED BY <4>1, <4>2, ListTypes
    <3>3. asleep' = FALSE /\ UNCHANGED shutdown_requested
      BY <2>2 DEF P!start, P!publish
    <3> QED BY <2>1, <3>1, <3>2, <3>3 DEF Control, NothingReady
  <2>3. CASE P!dequeue(w)
    <3>1. UNCHANGED <<available_workers, results, shutdown_requested, asleep>>
      BY <2>3 DEF P!dequeue
    <3>2. pc # "returned"
      BY <2>3 DEF P!dequeue, Control, PoolShape, Dismissed, Gone
    <3> QED BY <2>1, <3>1, <3>2 DEF Control, NothingReady
  <2> QED BY <1>13, <2>2, <2>3 DEF WorkerStep, P!WorkerStep
<1>14. CASE UNCHANGED vars
  BY <1>14 DEF vars, pool, locals, evaluator, Control, NothingReady, P!Workers
<1> QED
  BY <1>1, <1>2, <1>3, <1>4, <1>5, <1>6, <1>7, <1>8, <1>9, <1>10, <1>11, <1>12, <1>13,
     <1>14
  DEF Next, MainStep, Returned

-----------------------------------------------------------------------------
(* The theorems *)

THEOREM Invariance == Spec => []IInv
<1>1. Init => IInv
  BY InitTypeOK, InitControl, EvaluatorInvariant DEF IInv
<1>2. IInv /\ [Next]_vars => IInv'
  <2> SUFFICES ASSUME IInv, [Next]_vars PROVE IInv'
    OBVIOUS
  <2>1. EP!IInv'
    BY EvaluatorInvariant DEF IInv
  <2> QED
    BY <2>1, StepTypeOK, StepPoolShape, StepBooks, StepControl DEF IInv
<1> QED BY <1>1, <1>2, PTL DEF Spec

\* The variables of run(), of the pool and of the evaluator keep their types.
THEOREM TypeCorrectness == Spec => []TypeOK
<1>1. IInv => TypeOK
  BY DEF IInv
<1> QED BY <1>1, Invariance, PTL

\* run() uses the evaluator as its header asks: every step it makes is an
\* operation of the evaluator, called where its assertions hold, or none.
THEOREM UsesEvaluator == Spec => EP!Spec
<1>1. TypeOK /\ [Next]_vars => [EP!Next]_EP!vars
  BY EvaluatorNext
<1> QED BY <1>1, EvaluatorInit, TypeCorrectness, PTL DEF Spec, EP!Spec

\* The place where a worker has the item it holds.
PlaceOf(w) == IF worker[w] = "busy" THEN <<"worker", w, 0>> ELSE <<"queue", w, 1>>

LEMMA PlacesInPool ==
  ASSUME TypeOK, PoolShape
  PROVE  /\ P!Held = {PlaceOf(w) : w \in {v \in P!Workers : Holding(v) # NoItem}}
                       \cup {<<"result", 0, n>> : n \in DOMAIN results}
         /\ \A w \in P!Workers :
              Holding(w) # NoItem => P!HeldItem(PlaceOf(w)) = Holding(w)
         /\ \A n \in DOMAIN results :
              P!HeldItem(<<"result", 0, n>>) = results[n].item
<1> DEFINE InQueue(w) == {n \in DOMAIN queues[w] : queues[w][n].process}
<1>1. ASSUME NEW w \in P!Workers
      PROVE  /\ worker[w] = "busy" => InQueue(w) = {} /\ Holding(w) # NoItem
             /\ worker[w] # "busy" =>
                  InQueue(w) = IF Holding(w) = NoItem THEN {} ELSE {1}
  <2>0. DOMAIN <<>> = {}
    OBVIOUS
  <2>1. CASE Busy(w)
    BY <2>0, <2>1, HoldingByPhase, PoolTypes DEF Busy
  <2>2. CASE Fresh(w) \/ Resting(w) \/ Gone(w)
    BY <2>0, <2>2, HoldingByPhase DEF Fresh, Resting, Gone
  <2>3. CASE Given(w)
    <3>1. PICK i \in Items : queues[w] = <<P!Work(i)>>
      BY <2>3 DEF Given
    <3>2. DOMAIN queues[w] = {1} /\ queues[w][1].process
      BY <3>1 DEF P!Work
    <3> QED BY <2>3, <3>1, <3>2, HoldingByPhase, PoolTypes DEF Given
  <2>4. CASE Dismissed(w)
    <3>1. DOMAIN queues[w] = {1} /\ ~queues[w][1].process
      BY <2>4 DEF Dismissed, P!Exit
    <3> QED BY <2>4, <3>1, HoldingByPhase DEF Dismissed
  <2> QED BY <2>1, <2>2, <2>3, <2>4 DEF PoolShape
<1> DEFINE AllQueued == UNION {{<<"queue", w, n>> : n \in InQueue(w)} : w \in P!Workers}
           Queued == {<<"queue", w, 1>> : w \in {v \in P!Workers :
                                      worker[v] # "busy" /\ Holding(v) # NoItem}}
           InWork == {<<"worker", w, 0>> : w \in {v \in P!Workers : worker[v] = "busy"}}
           InResults == {<<"result", 0, n>> : n \in DOMAIN results}
           Places == {PlaceOf(w) : w \in {v \in P!Workers : Holding(v) # NoItem}}
<1>2. P!Held = (AllQueued \cup InWork) \cup InResults
  BY DEF P!Held
<1> HIDE DEF InQueue
<1>3. AllQueued = Queued
  BY <1>1
<1>4. Places = Queued \cup InWork
  BY <1>1 DEF PlaceOf
<1>5. ASSUME NEW w \in P!Workers, Holding(w) # NoItem
      PROVE  P!HeldItem(PlaceOf(w)) = Holding(w)
  BY <1>5 DEF P!HeldItem, PlaceOf, Holding
<1>6. \A n \in DOMAIN results : P!HeldItem(<<"result", 0, n>>) = results[n].item
  BY DEF P!HeldItem
<1>7. P!Held = Places \cup InResults
  <2> HIDE DEF AllQueued, Queued, InWork, InResults, Places
  <2> QED BY <1>2, <1>3, <1>4
<1> QED BY <1>5, <1>6, <1>7, Zenon

\* Between the evaluator's books and the pool's no item is lost, and none is
\* at two places, however many workers there are.
THEOREM HeldOnce == Spec => []RunningItemsAreHeldOnce
<1>1. ASSUME IInv PROVE RunningItemsAreHeldOnce
  <2> USE <1>1 DEF IInv
  <2> DEFINE main == <<"main", 0, 0>>
             places == P!Held \cup (IF pc = "submit" THEN {main} ELSE {})
             at(place) == IF place[1] = "main" THEN item ELSE P!HeldItem(place)
  <2>1. /\ at(main) = item
        /\ \A w \in P!Workers : Holding(w) # NoItem => at(PlaceOf(w)) = Holding(w)
        /\ \A n \in DOMAIN results : at(<<"result", 0, n>>) = results[n].item
    <3>1. \A w \in P!Workers : PlaceOf(w)[1] # "main"
      BY DEF PlaceOf
    <3> QED BY <3>1, PlacesInPool
  <2>2. \A p \in places :
          \/ p = main /\ item # NoItem
          \/ \E w \in P!Workers : Holding(w) # NoItem /\ p = PlaceOf(w)
          \/ \E n \in DOMAIN results : p = <<"result", 0, n>>
    BY PlacesInPool DEF Books, SubmittedApart
  <2>3. /\ item # NoItem => main \in places
        /\ \A w \in P!Workers : Holding(w) # NoItem => PlaceOf(w) \in places
        /\ \A n \in DOMAIN results : <<"result", 0, n>> \in places
    BY PlacesInPool DEF Books, SubmittedApart
  <2> HIDE DEF at, places, main
  <2>4. ASSUME NEW p \in places
        PROVE  at(p) \in Items /\ states[at(p)] = "running"
    <3>1. CASE p = main /\ item # NoItem
      BY <2>1, <3>1 DEF Books, RunningIsHeld, TypeOK
    <3>2. ASSUME NEW w \in P!Workers, Holding(w) # NoItem, p = PlaceOf(w)
          PROVE  at(p) \in Items /\ states[at(p)] = "running"
      <4>1. Holding(w) \in Items
        BY <3>2, HoldingByPhase DEF PoolShape, Given, Busy
      <4> QED BY <2>1, <3>2, <4>1 DEF Books, RunningIsHeld
    <3>3. ASSUME NEW n \in DOMAIN results, p = <<"result", 0, n>>
          PROVE  at(p) \in Items /\ states[at(p)] = "running"
      BY <2>1, <3>3, ResultsStep DEF Books, RunningIsHeld
    <3> QED BY <2>2, <3>1, <3>2, <3>3
  <2>5. ASSUME NEW i \in Items, states[i] = "running"
        PROVE  \E p \in places : at(p) = i
    BY <2>1, <2>3, <2>5, PoolTypes DEF Books, RunningIsHeld
  <2>6. ASSUME NEW p \in places, NEW q \in places, at(p) = at(q) PROVE p = q
    <3>1. CASE p = main /\ item # NoItem
      BY <2>1, <2>2, <2>6, <3>1 DEF Books, SubmittedApart
    <3>2. CASE \E w \in P!Workers : Holding(w) # NoItem /\ p = PlaceOf(w)
      BY <2>1, <2>2, <2>6, <3>2 DEF Books, SubmittedApart, HeldByOne, HeldOrReported
    <3>3. CASE \E n \in DOMAIN results : p = <<"result", 0, n>>
      BY <2>1, <2>2, <2>6, <3>3
      DEF Books, SubmittedApart, ReportedOnce, HeldOrReported
    <3> QED BY <2>2, <3>1, <3>2, <3>3
  <2>7. {at(p) : p \in places} = {i \in Items : states[i] = "running"}
    BY <2>4, <2>5
  <2> QED BY <2>6, <2>7 DEF RunningItemsAreHeldOnce, at, places, main
<1> QED BY <1>1, Invariance, PTL

\* While run() sleeps, there is no ready item that an available worker could
\* be given.
THEOREM CapacityIsUsed == Spec => []NoIdleCapacity
<1>1. IInv => NoIdleCapacity
  BY ReadyIsFound DEF IInv, Control, NoIdleCapacity
<1> QED BY <1>1, Invariance, PTL

\* When run() returns nothing is left behind and its value tells whether an
\* item failed; that every item is decided rests on NothingStranded of the
\* evaluator.
THEOREM Complete == Spec => []ResultIsComplete
<1>1. Spec => []EP!NothingStranded
  <2>1. EP!Spec => []EP!NothingStranded
    BY EP!NobodyStranded, EvaluatorAssumptions
  <2> QED BY <2>1, UsesEvaluator
<1>2. ASSUME IInv, EP!NothingStranded PROVE ResultIsComplete
  <2> SUFFICES ASSUME pc = "returned" PROVE ResultIsComplete
    BY DEF ResultIsComplete
  <2> USE <1>2 DEF IInv
  <2>1. /\ results = <<>> /\ pending = <<>> /\ item = NoItem
        /\ shutdown_requested
        /\ \A w \in P!Workers : worker[w] = "exited"
        /\ stop \/ NothingReady
    BY DEF Control, Books, SubmittedApart
  <2>2. \A w \in P!Workers : queues[w] = <<>> /\ Holding(w) = NoItem
    BY <2>1, HoldingByPhase DEF PoolShape, Dismissed, Gone
  <2>3. \A i \in Items : states[i] # "running"
    <3>1. DOMAIN results = {}
      BY <2>1
    <3> QED BY <2>1, <2>2, <3>1, PoolTypes DEF Books, RunningIsHeld
  <2>4. \/ any_errors /\ option.stop_on_first_error
        \/ \A i \in Items : states[i] \in E!Terminal
    <3>1. CASE stop
      BY <3>1 DEF Control
    <3>2. CASE NothingReady
      BY <1>2, <2>1, <2>3, <3>2
      DEF NothingReady, EP!NothingStranded, EP!Terminal, EP!Finished, E!Terminal,
          E!Finished
    <3> QED BY <2>1, <3>1, <3>2
  <2>5. any_errors = (\E i \in Items : states[i] = "failed")
    BY DEF Control, TypeOK
  <2> QED BY <2>1, <2>2, <2>3, <2>4, <2>5 DEF ResultIsComplete
<1> QED BY <1>1, <1>2, Invariance, PTL

\* After the first error, if the build is to stop at it, no item is started.
THEOREM NoLateStarts == Spec => NothingStartsAfterStop
<1> DEFINE A == stop => \A i \in Items : states'[i] = "running" => states[i] = "running"
<1>1. ASSUME IInv, [Next]_vars PROVE A
  <2> SUFFICES ASSUME stop, NEW i \in Items, states'[i] = "running"
               PROVE  states[i] = "running"
    OBVIOUS
  <2> USE <1>1 DEF IInv
  <2>1. CASE states' = states
    BY <2>1
  <2>2. CASE drain
    BY <2>2, DrainEffect, PoolTypes
  <2>3. CASE evaluate
    BY <2>3, EvaluateEffect, PoolTypes DEF evaluate
  <2>4. ~offer
    BY DEF offer, Control
  <2> QED
    BY <1>1, <2>1, <2>2, <2>3, <2>4
    DEF Next, MainStep, vars, evaluator, begin, E!disableFailurePropagation,
        chooseWait, wait, drained, dispatch, submit, check, joinThreads, return,
        WorkerStep, Returned
<1> HIDE DEF A
<1>2. IInv /\ [Next]_vars => [A]_vars
  BY <1>1
<1>3. [][A]_vars => NothingStartsAfterStop
  BY PTL DEF NothingStartsAfterStop, A
<1> QED BY <1>2, <1>3, Invariance, PTL DEF Spec

-----------------------------------------------------------------------------
(* run() implements the schedule a parallel build promises (BuildSchedule).*)
(* setRunning is the start of an item, the publication of a result its     *)
(* end, a re-evaluation that finds a failure the skipping of an item, and  *)
(* the return of run() the return; every other step changes nothing the    *)
(* schedule speaks of.                                                     *)

\* The substitutions of the refinement, by name.
Executing ==
  {i \in Items : states[i] = "running" /\ \A s \in BOOLEAN : ~Published(i, s)}
Outcome ==
  [i \in Items |->
     CASE states[i] = "completed" \/ Published(i, TRUE) -> "succeeded"
       [] states[i] = "failed" \/ Published(i, FALSE) -> "failed"
       [] states[i] = "depfailed" -> "skipped"
       [] OTHER -> "none"]

\* What the steps need to know of the state.
SInv == IInv /\ EP!ReadyForCause /\ EP!NothingStranded

LEMMA ScheduleInvariance == Spec => []SInv
<1>1. EP!Spec => []EP!ReadyForCause /\ []EP!NothingStranded
  BY EP!ReadyHasCause, EP!NobodyStranded, EvaluatorAssumptions
<1>2. IInv /\ EP!ReadyForCause /\ EP!NothingStranded => SInv
  BY DEF SInv
<1> QED BY <1>1, <1>2, UsesEvaluator, Invariance, PTL

-----------------------------------------------------------------------------
(* Reading the substitutions *)

\* An item with a published result is running for the evaluator still, and
\* has one result.
LEMMA PublishedOnce ==
  ASSUME IInv, NEW i \in Items, NEW s \in BOOLEAN, Published(i, s)
  PROVE  states[i] = "running" /\ ~Published(i, ~s)
<1>1. PICK n \in DOMAIN results : results[n] = [item |-> i, status |-> s]
  BY DEF Published
<1>2. results[n].item = i /\ results[n].status = s
  BY <1>1
<1>3. states[i] = "running"
  BY <1>2 DEF IInv, Books, RunningIsHeld
<1>4. ASSUME NEW m \in DOMAIN results, results[m] = [item |-> i, status |-> ~s]
      PROVE  FALSE
  <2>1. results[m].item = i /\ results[m].status = ~s
    BY <1>4
  <2>2. m = n
    BY <1>2, <2>1 DEF IInv, Books, ReportedOnce
  <2> QED BY <1>2, <2>1, <2>2
<1> QED BY <1>3, <1>4 DEF Published

\* What the schedule makes of an item in each of the evaluator's states.
OutcomeByState(i) ==
  /\ states[i] \in {"waiting", "ready"} => Outcome[i] = "none"
  /\ states[i] = "completed" => Outcome[i] = "succeeded"
  /\ states[i] = "failed" => Outcome[i] = "failed"
  /\ states[i] = "depfailed" => Outcome[i] = "skipped"
  /\ states[i] = "running" =>
       /\ Published(i, TRUE) => Outcome[i] = "succeeded"
       /\ Published(i, FALSE) => Outcome[i] = "failed"
       /\ i \in Executing => Outcome[i] = "none"
       /\ i \notin Executing => Published(i, TRUE) \/ Published(i, FALSE)
  /\ i \in Executing => states[i] = "running"

OutcomesByState == \A i \in Items : OutcomeByState(i)

LEMMA OutcomeIs == IInv => OutcomesByState
<1> SUFFICES ASSUME IInv, NEW i \in Items PROVE OutcomeByState(i)
  BY DEF OutcomesByState
<1>1. Published(i, TRUE) => states[i] = "running" /\ ~Published(i, FALSE)
  <2>1. FALSE = ~TRUE /\ TRUE \in BOOLEAN
    OBVIOUS
  <2> QED BY <2>1, PublishedOnce
<1>2. Published(i, FALSE) => states[i] = "running"
  BY PublishedOnce
<1>3. Outcome[i] =
        CASE states[i] = "completed" \/ Published(i, TRUE) -> "succeeded"
          [] states[i] = "failed" \/ Published(i, FALSE) -> "failed"
          [] states[i] = "depfailed" -> "skipped"
          [] OTHER -> "none"
  BY DEF Outcome
<1> QED BY <1>1, <1>2, <1>3 DEF OutcomeByState, Executing

\* A step that changes neither the state of an item nor its results is not
\* seen at this item.
LEMMA ItemUnseen ==
  ASSUME NEW i \in Items, states'[i] = states[i],
         \A s \in BOOLEAN : Published(i, s)' <=> Published(i, s)
  PROVE  /\ Outcome'[i] = Outcome[i]
         /\ i \in Executing' <=> i \in Executing
<1>1. /\ Published(i, TRUE)' <=> Published(i, TRUE)
      /\ Published(i, FALSE)' <=> Published(i, FALSE)
  OBVIOUS
<1>2. /\ Outcome[i] =
           CASE states[i] = "completed" \/ Published(i, TRUE) -> "succeeded"
             [] states[i] = "failed" \/ Published(i, FALSE) -> "failed"
             [] states[i] = "depfailed" -> "skipped"
             [] OTHER -> "none"
      /\ Outcome'[i] =
           CASE states'[i] = "completed" \/ Published(i, TRUE)' -> "succeeded"
             [] states'[i] = "failed" \/ Published(i, FALSE)' -> "failed"
             [] states'[i] = "depfailed" -> "skipped"
             [] OTHER -> "none"
  BY DEF Outcome
<1>3. Outcome'[i] = Outcome[i]
  BY <1>1, <1>2
<1>4. i \in Executing' <=> i \in Executing
  BY DEF Executing
<1> QED BY <1>3, <1>4

LEMMA Unseen ==
  ASSUME UNCHANGED <<graph, option>>, pc' = "returned" <=> pc = "returned",
         \A i \in Items : /\ Outcome'[i] = Outcome[i]
                          /\ i \in Executing' <=> i \in Executing
  PROVE  UNCHANGED Schedule!vars
<1>1. Outcome' = Outcome
  BY DEF Outcome
<1>2. Executing' = Executing
  BY DEF Executing
<1>3. (pc = "returned")' = (pc = "returned")
  OBVIOUS
<1> QED BY <1>1, <1>2, <1>3 DEF Schedule!vars, Outcome, Executing

LEMMA SameResults ==
  ASSUME UNCHANGED results
  PROVE  \A i, s : Published(i, s)' <=> Published(i, s)
  BY DEF Published

-----------------------------------------------------------------------------
(* The steps *)

\* The evaluator learns of a result: the item had its outcome already.
LEMMA DrainIsUnseen ==
  ASSUME IInv, IInv', drain
  PROVE  UNCHANGED Schedule!vars
<1>0. TypeOK /\ OutcomesByState
  BY OutcomeIs DEF IInv
<1>1. OutcomesByState'
  BY OutcomeIs, PTL
<1>2. UNCHANGED <<graph, option, pc>>
  BY DEF drain, E!setCompleted, E!setFailed, E!setFinished
<1>3. PICK i \in Items : i = results[1].item
  BY <1>0, DrainEffect DEF Result
<1>4. PICK s \in BOOLEAN : s = results[1].status
  BY <1>0, DrainEffect DEF Result
<1>5. /\ states[i] = "running"
      /\ states' = [states EXCEPT ![i] = IF s THEN "completed" ELSE "failed"]
      /\ results # <<>> /\ results' = Tail(results)
  BY <1>0, <1>3, <1>4, DrainEffect
<1>6. Published(i, s)
  <2>1. 1 \in DOMAIN results /\ results[1] = [item |-> i, status |-> s]
    BY <1>0, <1>3, <1>4, <1>5, DrainEffect, ResultsStep DEF Result
  <2> QED BY <2>1 DEF Published
<1>7. ASSUME NEW j \in Items, j # i
      PROVE  /\ Outcome'[j] = Outcome[j]
             /\ j \in Executing' <=> j \in Executing
  <2>1. states'[j] = states[j]
    BY <1>0, <1>5, <1>7, PoolTypes
  <2>2. ASSUME NEW t \in BOOLEAN PROVE Published(j, t)' <=> Published(j, t)
    <3>1. ASSUME NEW n \in DOMAIN results, results[n] = [item |-> j, status |-> t]
          PROVE  n - 1 \in DOMAIN results' /\ results'[n - 1] = results[n]
      <4>1. n # 1
        BY <1>3, <1>7, <3>1
      <4> QED BY <1>0, <1>5, <4>1, ResultsStep
    <3>2. \A n \in DOMAIN results' :
            n + 1 \in DOMAIN results /\ results'[n] = results[n + 1]
      BY <1>0, <1>5, ResultsStep
    <3> QED BY <3>1, <3>2 DEF Published
  <2> QED BY <2>1, <2>2, ItemUnseen
<1>8. /\ Outcome'[i] = Outcome[i]
      /\ i \in Executing' <=> i \in Executing
  <2>1. states'[i] = IF s THEN "completed" ELSE "failed"
    BY <1>0, <1>5, PoolTypes
  <2>2. i \notin Executing
    BY <1>6 DEF Executing
  <2>3. i \notin Executing'
    BY <2>1 DEF Executing
  <2>4. Outcome[i] = IF s THEN "succeeded" ELSE "failed"
    BY <1>0, <1>5, <1>6 DEF OutcomesByState, OutcomeByState
  <2>5. Outcome'[i] = IF s THEN "succeeded" ELSE "failed"
    BY <1>1, <2>1 DEF OutcomesByState, OutcomeByState
  <2> QED BY <2>2, <2>3, <2>4, <2>5
<1> QED BY <1>2, <1>7, <1>8, Unseen

\* A worker publishes a result: its item ends.
LEMMA PublishIsFinish ==
  ASSUME IInv, IInv', NEW w \in P!Workers, NEW status \in BOOLEAN,
         P!publish(w, status), UNCHANGED <<graph, states, option, pc>>
  PROVE  Schedule!Next
<1>0. TypeOK /\ OutcomesByState /\ results \in Seq(Result)
  BY OutcomeIs, PoolTypes DEF IInv, Result
<1>1. OutcomesByState'
  BY OutcomeIs, PTL
<1>2. PICK i \in Items : i = job[w] /\ i = Holding(w)
  BY PublishStep DEF IInv
<1>3. results' = Append(results, [item |-> i, status |-> status])
  BY <1>2 DEF P!publish
<1>4. /\ Published(i, status)'
      /\ \A j \in Items, s \in BOOLEAN :
           j # i => (Published(j, s)' <=> Published(j, s))
  <2>1. /\ DOMAIN results' = DOMAIN results \cup {Len(results) + 1}
        /\ \A n \in DOMAIN results : results'[n] = results[n]
        /\ results'[Len(results) + 1] = [item |-> i, status |-> status]
    BY <1>0, <1>3, ResultsStep
  <2> QED BY <2>1 DEF Published
<1>5. states[i] = "running" /\ i \in Executing
  <2>1. states[i] = "running" /\ \A n \in DOMAIN results : results[n].item # i
    BY <1>2 DEF IInv, Books, HeldOrReported, RunningIsHeld
  <2>2. \A s \in BOOLEAN : ~Published(i, s)
    BY <2>1 DEF Published
  <2> QED BY <2>1, <2>2 DEF Executing
<1>6. i \notin Executing'
  BY <1>4 DEF Executing
<1>7. \A j \in Items : j # i => /\ Outcome'[j] = Outcome[j]
                                /\ j \in Executing' <=> j \in Executing
  BY <1>4, ItemUnseen
<1>8. Executing' = Executing \ {i}
  BY <1>6, <1>7 DEF Executing
<1>9. PICK result \in {"succeeded", "failed"} : result = Outcome'[i]
  BY <1>1, <1>4, <1>5 DEF OutcomesByState, OutcomeByState
<1>10. Outcome' = [Outcome EXCEPT ![i] = result]
  <2>1. /\ Outcome = [j \in Items |-> Outcome[j]]
        /\ Outcome' = [j \in Items |-> Outcome'[j]]
    BY DEF Outcome
  <2> QED BY <1>7, <1>9, <2>1
<1>11. Schedule!Finish(i, result)
  BY <1>5, <1>8, <1>10 DEF Schedule!Finish, Executing, Outcome
<1> QED BY <1>11 DEF Schedule!Next

\* While a worker is available and no item is about to be submitted, fewer
\* items are in work than there are workers: each is held by a worker of its
\* own, and the available one holds none.
LEMMA RoomForOne ==
  ASSUME IInv, pc # "submit", available_workers # <<>>
  PROVE  Cardinality(Executing) < num_workers
<1> DEFINE free == Head(available_workers)
           Others == P!Workers \ {free}
           at == [i \in Executing |-> CHOOSE w \in P!Workers : Holding(w) = i]
<1>0. TypeOK
  BY DEF IInv
<1>1. free \in P!Workers /\ Holding(free) = NoItem
  <2>1. free \in P!Workers /\ free \in Available
    BY <1>0, PoolTypes, ElemsOfTail DEF Available
  <2>2. Resting(free) \/ Dismissed(free) \/ Gone(free)
    BY <2>1 DEF IInv, PoolShape, Fresh, Given, Busy
  <2> QED BY <2>1, <2>2, HoldingByPhase
<1>2. /\ IsFiniteSet(Others)
      /\ Cardinality(Others) = num_workers - 1
  <2>1. P!Workers = 1..num_workers /\ num_workers \in Nat
    BY <1>0, PoolTypes, num_workersAssumption
  <2>2. IsFiniteSet(P!Workers) /\ Cardinality(P!Workers) = num_workers
    BY <2>1, FS_Interval
  <2> HIDE DEF free
  <2> QED BY <1>1, <2>2, FS_RemoveElement
<1>3. ASSUME NEW i \in Executing
      PROVE  at[i] \in Others /\ Holding(at[i]) = i
  <2>1. i \in Items /\ i # NoItem /\ states[i] = "running"
    BY <1>0, PoolTypes DEF Executing
  <2>2. \A n \in DOMAIN results : results[n].item # i
    <3> SUFFICES ASSUME NEW n \in DOMAIN results, results[n].item = i PROVE FALSE
      OBVIOUS
    <3>1. results[n] \in Result
      <4>1. results \in Seq(Result)
        BY <1>0, PoolTypes DEF Result
      <4> QED BY <4>1
    <3>2. PICK s \in BOOLEAN : results[n] = [item |-> i, status |-> s]
      BY <3>1 DEF Result
    <3> QED BY <3>2 DEF Executing, Published
  <2>3. item # i
    BY <2>1 DEF IInv, Books, SubmittedApart
  <2>4. \E w \in P!Workers : Holding(w) = i
    BY <2>1, <2>2, <2>3 DEF IInv, Books, RunningIsHeld
  <2> QED BY <1>1, <2>1, <2>4
<1>4. at \in Injection(Executing, Others)
  BY <1>3 DEF Injection, IsInjective
<1>5. Cardinality(Executing) <= num_workers - 1
  BY <1>2, <1>4, FS_Injection
<1>6. Cardinality(Executing) \in Nat
  BY <1>2, <1>4, FS_Injection, FS_CardinalityType
<1> QED BY <1>5, <1>6, num_workersAssumption

\* Whatever is ready may start: with failure propagation all its dependencies
\* have succeeded; without, none is unfinished before the first that failed.
LEMMA ReadyMayStart ==
  ASSUME SInv, NEW i \in Items, states[i] = "ready", pc # "begin"
  PROVE  Schedule!MayStart(i)
<1> USE DEF SInv
<1>0. /\ TypeOK /\ OutcomesByState /\ EP!TypeOK
  BY OutcomeIs DEF IInv, EP!IInv
<1>1. /\ E!Deps(i) = EP!Deps(i) /\ EP!Deps(i) \subseteq Items
      /\ EP!getDirectDependencies(i) \in Seq(Items)
      /\ Schedule!Deps(i) = EP!Deps(i)
  BY <1>0, EvaluatorOperators, EP!GraphFacts, EvaluatorAssumptions
  DEF Schedule!Deps, Schedule!Elems, EP!Deps, EP!Elems, EP!getDirectDependencies
<1>2. /\ propagate_failure <=> ~option.disable_failure_propagation
      /\ option.disable_failure_propagation \in BOOLEAN
  BY <1>0, OptionsAssumption DEF IInv, Control, TypeOK
<1>3. (\A d \in EP!Deps(i) : states[d] = "completed") => Schedule!MayStart(i)
  <2> SUFFICES ASSUME \A d \in EP!Deps(i) : states[d] = "completed"
               PROVE  \A d \in Schedule!Deps(i) : Outcome[d] = "succeeded"
    BY DEF Schedule!MayStart, Outcome
  <2> QED BY <1>0, <1>1 DEF OutcomesByState, OutcomeByState
<1>4. CASE propagate_failure
  BY <1>3, <1>4 DEF IInv, EP!IInv, EP!RunAfterDependencies
<1>5. CASE ~propagate_failure /\ \E d \in EP!Deps(i) : EP!Unsuccessful(d)
  <2>1. PICK d \in EP!Deps(i) : states[d] = "failed"
    BY <1>1, <1>5 DEF EP!Unsuccessful, EP!ReadyForCause
  <2>2. Outcome[d] = "failed"
    BY <1>0, <1>1, <2>1 DEF OutcomesByState, OutcomeByState
  <2> QED BY <1>1, <1>2, <1>5, <2>2 DEF Schedule!MayStart, Outcome
<1>6. CASE \A d \in EP!Deps(i) : ~EP!Unsuccessful(d)
  <2> DEFINE deps == EP!getDirectDependencies(i)
  <2>1. ASSUME NEW d \in EP!Deps(i) PROVE states[d] = "completed"
    <3>1. PICK n \in DOMAIN deps : deps[n] = d
      BY DEF EP!Deps, EP!Elems
    <3>2. \A m \in 1..(n - 1) : m \in DOMAIN deps /\ deps[m] \in EP!Deps(i)
      BY <1>1, <3>1 DEF EP!Deps, EP!Elems
    <3>3. n \in EP!LookedAt(i)
      BY <1>6, <3>1, <3>2 DEF EP!LookedAt
    <3>4. ~EP!Blocked(i)
      BY DEF EP!ReadyForCause
    <3> QED BY <1>6, <3>1, <3>3, <3>4 DEF EP!Blocked
  <2> QED BY <1>3, <2>1
<1> QED BY <1>4, <1>5, <1>6

LEMMA OfferIsStart ==
  ASSUME SInv, SInv', offer
  PROVE  [Schedule!Next]_Schedule!vars
<1>0. IInv /\ IInv' /\ TypeOK /\ OutcomesByState
  BY OutcomeIs DEF SInv, IInv
<1>1. OutcomesByState'
  BY <1>0, OutcomeIs, PTL
<1>2. CASE UNCHANGED evaluator
  BY <1>2, Unseen, ItemUnseen, SameResults DEF offer, pool, evaluator
<1>3. ASSUME NEW i \in Items, P!availableWorkers > 0, E!setRunning(i)
      PROVE  Schedule!Next
  <2>1. /\ states[i] = "ready" /\ states' = [states EXCEPT ![i] = "running"]
        /\ pc = "offer" /\ pc' \in {"submit", "check"}
        /\ UNCHANGED <<graph, option, results>>
    BY <1>3 DEF offer, pool, E!setRunning
  <2>2. \A n \in DOMAIN results : results[n].item # i
    BY <1>0, <2>1 DEF IInv, Books, RunningIsHeld
  <2>3. \A s \in BOOLEAN : ~Published(i, s) /\ ~Published(i, s)'
    BY <2>1, <2>2 DEF Published
  <2>4. states'[i] = "running" /\ i \in Executing' /\ i \notin Executing
    BY <1>0, <2>1, <2>3, PoolTypes DEF Executing
  <2>5. Outcome[i] = "none" /\ Outcome'[i] = "none"
    BY <1>0, <1>1, <2>1, <2>4 DEF OutcomesByState, OutcomeByState
  <2>6. ASSUME NEW j \in Items, j # i
        PROVE  /\ Outcome'[j] = Outcome[j]
               /\ j \in Executing' <=> j \in Executing
    <3>1. states'[j] = states[j]
      BY <1>0, <2>1, <2>6, PoolTypes
    <3> QED BY <2>1, <3>1, ItemUnseen, SameResults
  <2>7. Executing' = Executing \cup {i}
    BY <2>4, <2>6 DEF Executing
  <2>8. Outcome' = Outcome
    <3>1. /\ Outcome = [j \in Items |-> Outcome[j]]
          /\ Outcome' = [j \in Items |-> Outcome'[j]]
      BY DEF Outcome
    <3> QED BY <2>5, <2>6, <3>1
  <2>9. Cardinality(Executing) < num_workers
    <3>1. available_workers # <<>>
      BY <1>3 DEF P!availableWorkers
    <3> QED BY <1>0, <2>1, <3>1, RoomForOne
  <2>10. Schedule!MayStart(i)
    BY <2>1, ReadyMayStart
  <2>11. (pc = "returned") = FALSE /\ (pc = "returned")' = FALSE
    BY <2>1
  <2>12. Schedule!Start(i)
    <3>1. Schedule!Start(i) <=>
            /\ ~(pc = "returned")
            /\ i \notin Executing
            /\ Outcome[i] = "none"
            /\ Schedule!MayStart(i)
            /\ Cardinality(Executing) < num_workers
            /\ Executing' = Executing \cup {i}
            /\ UNCHANGED <<graph, option.stop_on_first_error,
                           ~option.disable_failure_propagation, Outcome,
                           pc = "returned">>
      BY DEF Schedule!Start, Executing, Outcome, Schedule!Cardinality, Cardinality
    <3> QED BY <2>1, <2>4, <2>5, <2>7, <2>8, <2>9, <2>10, <2>11, <3>1
  <2> QED BY <2>12 DEF Schedule!Next
<1> QED BY <1>2, <1>3 DEF offer

LEMMA EvaluateIsSkip ==
  ASSUME SInv, SInv', evaluate
  PROVE  [Schedule!Next]_Schedule!vars
<1>0. IInv /\ IInv' /\ TypeOK /\ OutcomesByState
  BY OutcomeIs DEF SInv, IInv
<1>1. OutcomesByState'
  BY <1>0, OutcomeIs, PTL
<1>2. /\ UNCHANGED <<graph, option, results, pc>>
      /\ pc = "drain"
      /\ E!evaluate
  BY <1>0 DEF evaluate, E!evaluate, pool, IInv, Control
<1>3. PICK i \in Items : E!evaluateItem(i)
  BY <1>0, <1>2, PoolTypes, ListTypes DEF E!evaluate
<1>4. ASSUME NEW j \in Items, states'[j] = states[j]
      PROVE  /\ Outcome'[j] = Outcome[j]
             /\ j \in Executing' <=> j \in Executing
  BY <1>2, <1>4, ItemUnseen, SameResults
<1>5. CASE states' = states
  BY <1>2, <1>4, <1>5, Unseen
<1>6. ASSUME states[i] \in {"waiting", "ready"},
             \A j \in Items : j # i => states'[j] = states[j]
      PROVE  /\ i \notin Executing /\ Outcome[i] = "none"
             /\ states'[i] = "ready" => UNCHANGED Schedule!vars
             /\ states'[i] = "depfailed" =>
                  /\ Executing' = Executing
                  /\ Outcome' = [Outcome EXCEPT ![i] = "skipped"]
  <2>1. i \notin Executing /\ Outcome[i] = "none"
    BY <1>0, <1>6 DEF OutcomesByState, OutcomeByState
  <2>2. states'[i] # "running" => i \notin Executing'
    BY DEF Executing
  <2>3. states'[i] = "ready" => UNCHANGED Schedule!vars
    <3> SUFFICES ASSUME states'[i] = "ready" PROVE UNCHANGED Schedule!vars
      OBVIOUS
    <3>1. Outcome'[i] = "none"
      BY <1>1 DEF OutcomesByState, OutcomeByState
    <3>2. i \notin Executing'
      BY <2>2
    <3>3. \A j \in Items : /\ Outcome'[j] = Outcome[j]
                           /\ j \in Executing' <=> j \in Executing
      BY <1>4, <1>6, <2>1, <3>1, <3>2
    <3> QED BY <1>2, <3>3, Unseen
  <2>4. ASSUME states'[i] = "depfailed"
        PROVE  /\ Executing' = Executing
               /\ Outcome' = [Outcome EXCEPT ![i] = "skipped"]
    <3>1. Outcome'[i] = "skipped"
      BY <1>1, <2>4 DEF OutcomesByState, OutcomeByState
    <3>2. Executing' = Executing
      BY <1>4, <1>6, <2>1, <2>2, <2>4 DEF Executing
    <3>3. /\ Outcome = [j \in Items |-> Outcome[j]]
          /\ Outcome' = [j \in Items |-> Outcome'[j]]
      BY DEF Outcome
    <3> QED BY <1>4, <1>6, <3>1, <3>2, <3>3
  <2> QED BY <2>1, <2>3, <2>4
<1>7. CASE /\ states[i] \in {"waiting", "ready"}
           /\ states' = [states EXCEPT ![i] = "ready"]
  BY <1>0, <1>6, <1>7, PoolTypes
<1>8. CASE /\ states[i] \in {"waiting", "ready"}
           /\ E!DependencyFailed(i)
           /\ states' = [states EXCEPT ![i] = "depfailed"]
  <2>1. /\ i \notin Executing /\ Outcome[i] = "none"
        /\ Executing' = Executing
        /\ Outcome' = [Outcome EXCEPT ![i] = "skipped"]
    BY <1>0, <1>6, <1>8, PoolTypes
  <2>2. PICK d \in E!Deps(i) : E!Unsuccessful(d)
    BY <1>8 DEF E!DependencyFailed, E!LookedAt, E!Deps, E!Elems
  <2>3. d \in Schedule!Deps(i) /\ d \in Items
    <3>1. EP!Deps(i) \subseteq Items
      BY <1>0, EP!GraphFacts, EvaluatorAssumptions DEF IInv, EP!IInv
    <3>2. E!Deps(i) = EP!Deps(i)
      BY EvaluatorOperators
    <3> QED
      BY <3>1, <3>2
      DEF Schedule!Deps, Schedule!Elems, E!Deps, E!Elems, E!getDirectDependencies
  <2>4. Outcome[d] \in {"failed", "skipped"}
    BY <1>0, <2>2, <2>3 DEF OutcomesByState, OutcomeByState, E!Unsuccessful
  <2>5. ~option.disable_failure_propagation
    BY <1>0, <1>2, <1>8 DEF E!DependencyFailed, IInv, Control
  <2>6. (pc = "returned") = FALSE /\ (pc = "returned")' = FALSE
    BY <1>2
  <2>7. Schedule!Skip(i)
    BY <1>2, <2>1, <2>3, <2>4, <2>5, <2>6 DEF Schedule!Skip, Executing, Outcome
  <2> QED BY <2>7 DEF Schedule!Next
<1> QED BY <1>3, <1>5, <1>7, <1>8 DEF E!evaluateItem

LEMMA ReturnIsReturn ==
  ASSUME SInv, return
  PROVE  Schedule!Next
<1>0. IInv /\ TypeOK /\ OutcomesByState
  BY OutcomeIs DEF SInv, IInv
<1> USE DEF IInv
<1>1. /\ pc = "joining" /\ pc' = "returned"
      /\ UNCHANGED <<graph, states, option, results>>
      /\ results = <<>> /\ pending = <<>> /\ item = NoItem
      /\ stop \/ NothingReady
  BY <1>0 DEF return, evaluator, pool, Control, Books, SubmittedApart
<1>2. \A w \in P!Workers : Holding(w) = NoItem
  BY <1>0, <1>1, HoldingByPhase DEF Control, PoolShape
<1>3. \A i \in Items : states[i] # "running"
  <2>1. DOMAIN results = {}
    BY <1>1
  <2> QED BY <1>0, <1>1, <1>2, <2>1, PoolTypes DEF Books, RunningIsHeld
<1>4. Executing = {}
  BY <1>3 DEF Executing
<1>5. \/ \A i \in Items : Outcome[i] # "none"
      \/ option.stop_on_first_error /\ \E i \in Items : Outcome[i] = "failed"
  <2>1. CASE stop
    <3>1. option.stop_on_first_error /\ \E i \in Items : states[i] = "failed"
      BY <1>0, <2>1 DEF Control
    <3> QED BY <1>0, <3>1 DEF OutcomesByState, OutcomeByState
  <2>2. CASE NothingReady
    <3>1. \A i \in Items : states[i] \in {"completed", "failed", "depfailed"}
      BY <1>1, <1>3, <2>2
      DEF SInv, NothingReady, EP!NothingStranded, EP!Terminal, EP!Finished
    <3> QED BY <1>0, <3>1 DEF OutcomesByState, OutcomeByState
  <2> QED BY <1>1, <2>1, <2>2
<1>6. UNCHANGED <<Executing, Outcome>>
  BY <1>1 DEF Executing, Outcome, Published
<1>7. (pc = "returned")' = TRUE
  BY <1>1
<1>8. Schedule!Return
  BY <1>1, <1>4, <1>5, <1>6, <1>7 DEF Schedule!Return, Executing, Outcome
<1> QED BY <1>8 DEF Schedule!Next

-----------------------------------------------------------------------------
(* The theorem *)

LEMMA ScheduleInit == Init => Schedule!Init
<1> SUFFICES ASSUME Init PROVE Schedule!Init
  OBVIOUS
<1>1. IInv /\ OutcomesByState
  BY InitTypeOK, InitControl, EvaluatorInvariant, OutcomeIs DEF IInv
<1>2. /\ pc = "begin" /\ graph \in Graphs /\ option \in Options
      /\ \A i \in Items : states[i] \in {"waiting", "ready"}
  BY DEF Init, E!Init
<1>3. Executing = {}
  BY <1>2 DEF Executing
<1>4. Outcome = [i \in Items |-> "none"]
  <2>1. Outcome = [i \in Items |-> Outcome[i]]
    BY DEF Outcome
  <2> QED BY <1>1, <1>2, <2>1 DEF OutcomesByState, OutcomeByState
<1>5. /\ option.stop_on_first_error \in BOOLEAN
      /\ (~option.disable_failure_propagation) \in BOOLEAN
      /\ (pc = "returned") = FALSE
  BY <1>2, OptionsAssumption
<1> QED BY <1>2, <1>3, <1>4, <1>5 DEF Schedule!Init, Executing, Outcome

LEMMA ScheduleStep ==
  SInv /\ SInv' /\ [Next]_vars => [Schedule!Next]_Schedule!vars
<1> SUFFICES ASSUME SInv, SInv', [Next]_vars
             PROVE  [Schedule!Next]_Schedule!vars
  OBVIOUS
<1>0. IInv /\ IInv'
  BY DEF SInv
<1>1. CASE /\ UNCHANGED <<graph, option, states, results>>
           /\ pc' = "returned" <=> pc = "returned"
  BY <1>1, ItemUnseen, SameResults, Unseen
<1>2. CASE begin
  BY <1>1, <1>2 DEF begin, E!disableFailurePropagation, evaluator, pool
<1>3. CASE drain
  BY <1>0, <1>3, DrainIsUnseen
<1>4. CASE offer
  BY <1>4, OfferIsStart
<1>5. CASE evaluate
  BY <1>5, EvaluateIsSkip
<1>6. CASE return
  BY <1>6, ReturnIsReturn
<1>7. ASSUME NEW w \in P!Workers, WorkerStep(w)
      PROVE  [Schedule!Next]_Schedule!vars
  <2>1. UNCHANGED <<graph, states, option, pc>>
    BY <1>7 DEF WorkerStep, evaluator
  <2>2. CASE P!start(w) \/ P!dequeue(w)
    BY <1>1, <2>1, <2>2 DEF P!start, P!dequeue
  <2>3. CASE \E status \in BOOLEAN : P!publish(w, status)
    BY <1>0, <2>1, <2>3, PublishIsFinish
  <2> QED BY <1>7, <2>2, <2>3 DEF WorkerStep, P!WorkerStep, P!Status
<1> QED
  BY <1>1, <1>2, <1>3, <1>4, <1>5, <1>6, <1>7
  DEF Next, MainStep, vars, evaluator, pool, chooseWait, wait, P!sleepUnless,
      drained, dispatch, submit, P!processItem, check, joinThreads,
      P!requestShutdown, Returned

\* run() implements the schedule: never more items in work than workers, none
\* before its dependencies have succeeded (without failure propagation, before
\* all of them are decided or one has failed), none twice, skipped only because
\* of a failure, and no return before everything is decided, unless it stops at
\* an error.
THEOREM RefinesSchedule == Spec => ImplementsSchedule
<1>1. SInv /\ SInv' /\ [Next]_vars => [Schedule!Next]_Schedule!vars
  BY ScheduleStep
<1> QED
  BY <1>1, ScheduleInit, ScheduleInvariance, PTL
  DEF Spec, ImplementsSchedule, Schedule!Spec
=============================================================================
