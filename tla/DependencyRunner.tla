-------------------------- MODULE DependencyRunner --------------------------
(***************************************************************************)
(* DependencyRunner.cc: the thread that calls run() drives the evaluator   *)
(* from the results of a pool of worker threads.  It composes the          *)
(* evaluator, which only this thread uses, and the pool, whose workers run *)
(* beside it.                                                              *)
(*                                                                         *)
(* Between two calls on the pool the workers may take any number of steps, *)
(* so every call is an action of its own: what resultsAvailable() said may *)
(* no longer hold when availableWorkers() is asked.                        *)
(***************************************************************************)
EXTENDS GraphContract

CONSTANTS
  Items, Graphs,  \* as in DependencyEvaluator
  num_workers,
  Options         \* the arguments run() may be called with

ASSUME ItemsAssumption == Items \subseteq Nat /\ IsFiniteSet(Items)
\* The evaluator asserts graph.check().
ASSUME GraphsAssumption == \A g \in Graphs : CheckedGraph(g, Items)
\* The pool asserts num_workers >= 1.
ASSUME num_workersAssumption == num_workers \in Nat \ {0}
ASSUME OptionsAssumption ==
  Options \subseteq [stop_on_first_error : BOOLEAN,
                     disable_failure_propagation : BOOLEAN]

VARIABLES
  graph, states, propagate_failure, num_running, pending,
  available_workers, results, queues, shutdown_requested, worker, job, asleep,
  option,      \* the arguments of run()
  pc,          \* where run() is
  item,        \* the item that is about to be submitted
  stop, any_errors

E == INSTANCE DependencyEvaluator
P == INSTANCE WorkerPool WITH PoolItems <- Items

evaluator == <<graph, states, propagate_failure, num_running, pending>>
pool == <<available_workers, results, queues, shutdown_requested, worker, job,
          asleep>>
locals == <<item, stop, any_errors>>
vars == <<evaluator, pool, option, pc, locals>>

NoItem == P!NoJob

Init ==
  /\ E!Init
  /\ P!PoolInit
  /\ option \in Options
  /\ pc = "begin"
  /\ item = NoItem
  /\ stop = FALSE
  /\ any_errors = FALSE

AnyReady == \E i \in Items : E!nextReadyItem(i)

begin ==
  /\ pc = "begin"
  /\ IF option.disable_failure_propagation
     THEN E!disableFailurePropagation
     ELSE UNCHANGED evaluator
  /\ pc' = "loop"
  /\ UNCHANGED <<pool, option, locals>>

chooseWait ==
  /\ pc = "loop"
  /\ pc' = IF AnyReady THEN "wait" ELSE "waitForResults"
  /\ UNCHANGED <<evaluator, pool, option, locals>>

WaitIsOver ==
  IF pc = "wait" THEN P!WaitIsOver ELSE P!WaitForResultsIsOver

wait ==
  /\ pc \in {"wait", "waitForResults"}
  /\ ~asleep
  /\ \/ /\ WaitIsOver
        /\ pc' = "drain"
        /\ UNCHANGED pool
     \/ /\ P!sleepUnless(WaitIsOver)
        /\ UNCHANGED pc
  /\ UNCHANGED <<evaluator, option, locals>>

\* Mutant: new items are started although the run is to stop.
drained_regardless ==
  /\ pc = "drain"
  /\ pending = <<>>
  /\ ~P!resultsAvailable
  /\ pc' = "dispatch"
  /\ UNCHANGED <<evaluator, pool, option, locals>>

\* resultsAvailable(), when the evaluator is done with the last result.
drained ==
  /\ pc = "drain"
  /\ pending = <<>>
  /\ ~P!resultsAvailable
  /\ pc' = IF stop THEN "check" ELSE "dispatch"
  /\ UNCHANGED <<evaluator, pool, option, locals>>

\* A result is taken and reported to the evaluator.
drain ==
  /\ pc = "drain"
  /\ pending = <<>>
  /\ P!getResults
  /\ LET result == Head(results)
     IN IF result.status
        THEN /\ E!setCompleted(result.item)
             /\ UNCHANGED <<any_errors, stop>>
        ELSE /\ E!setFailed(result.item)
             /\ any_errors' = TRUE
             /\ stop' = (stop \/ option.stop_on_first_error)
  /\ UNCHANGED <<option, pc, item>>

evaluate ==
  /\ E!evaluate
  /\ UNCHANGED <<pool, option, pc, locals>>

\* The condition of the dispatch loop: resultsAvailable() ...
dispatch ==
  /\ pc = "dispatch"
  /\ pc' = IF P!resultsAvailable THEN "check" ELSE "offer"
  /\ UNCHANGED <<evaluator, pool, option, locals>>

\* Mutant: items are set running without asking for available workers.
offer_unlimited ==
  /\ pc = "offer"
  /\ IF AnyReady
     THEN \E i \in Items :
            /\ E!nextReadyItem(i)
            /\ E!setRunning(i)
            /\ item' = i
            /\ pc' = "submit"
     ELSE /\ pc' = "check"
          /\ UNCHANGED <<evaluator, item>>
  /\ UNCHANGED <<pool, option, stop, any_errors>>

\* ... then availableWorkers() and nextReadyItem(); setRunning.
offer ==
  /\ pc = "offer"
  /\ IF P!availableWorkers > 0 /\ AnyReady
     THEN \E i \in Items :
            /\ E!nextReadyItem(i)
            /\ E!setRunning(i)
            /\ item' = i
            /\ pc' = "submit"
     ELSE /\ pc' = "check"
          /\ UNCHANGED <<evaluator, item>>
  /\ UNCHANGED <<pool, option, stop, any_errors>>

submit ==
  /\ pc = "submit"
  /\ P!processItem(item)
  /\ item' = NoItem
  /\ pc' = "dispatch"
  /\ UNCHANGED <<evaluator, option, stop, any_errors>>

\* Mutant: the run ends when no results are there, busy workers or not.
check_early ==
  /\ pc = "check"
  /\ pc' = IF ~P!resultsAvailable /\ (stop \/ ~AnyReady) THEN "join" ELSE "loop"
  /\ UNCHANGED <<evaluator, pool, option, locals>>

check ==
  /\ pc = "check"
  /\ pc' = IF P!idle /\ (stop \/ ~AnyReady) THEN "join" ELSE "loop"
  /\ UNCHANGED <<evaluator, pool, option, locals>>

joinThreads ==
  /\ pc = "join"
  /\ P!requestShutdown
  /\ pc' = "joining"
  /\ UNCHANGED <<evaluator, option, locals>>

return ==
  /\ pc = "joining"
  /\ P!allJoined
  /\ pc' = "returned"
  /\ UNCHANGED <<evaluator, pool, option, locals>>

MainStep ==
  \/ begin
  \/ chooseWait
  \/ wait
  \/ drained
  \/ drain
  \/ evaluate
  \/ dispatch
  \/ offer
  \/ submit
  \/ check
  \/ joinThreads
  \/ return

WorkerStep(w) ==
  /\ P!WorkerStep(w)
  /\ UNCHANGED <<evaluator, option, pc, locals>>

Returned == pc = "returned" /\ UNCHANGED vars

Next ==
  \/ MainStep
  \/ \E w \in P!Workers : WorkerStep(w)
  \/ Returned

\* Threads are scheduled, and the method returns for every item.
Spec ==
  /\ Init
  /\ [][Next]_vars
  /\ WF_vars(MainStep)
  /\ \A w \in P!Workers : WF_vars(WorkerStep(w))

-----------------------------------------------------------------------------
(* Properties *)

TypeOK ==
  /\ E!TypeOK
  /\ P!PoolTypeOK
  /\ option \in Options
  /\ pc \in {"begin", "loop", "wait", "waitForResults", "drain", "dispatch",
             "offer", "submit", "check", "join", "joining", "returned"}
  /\ item \in Items \cup {NoItem}
  /\ stop \in BOOLEAN
  /\ any_errors \in BOOLEAN

\* Every running item is in exactly one place (about to be submitted,
\* queued, being processed, or among the results) and nothing else is
\* anywhere: no item is lost or processed twice between the evaluator's
\* books and the pool's, and the evaluator's assertions on the state of an
\* item cannot fail.
RunningItemsAreHeldOnce ==
  LET places == P!Held \cup (IF pc = "submit" THEN {<<"main", 0, 0>>} ELSE {})
      at(place) == IF place[1] = "main" THEN item ELSE P!HeldItem(place)
  IN /\ {at(p) : p \in places} = {i \in Items : states[i] = "running"}
     /\ \A p, q \in places : at(p) = at(q) => p = q

\* run() does not leave capacity unused: while it sleeps, there is no ready
\* item that an available worker could be given ("process as many items in
\* parallel as possible", DependencyRunner.hh:6).
NoIdleCapacity ==
  (asleep /\ ~stop) => ~(AnyReady /\ available_workers # <<>>)

\* What holds when run() returns: no item is left running or unreported,
\* the threads are gone, the return value tells whether any item failed,
\* and unless it stopped at an error every item has a final state.
ResultIsComplete ==
  pc = "returned" =>
    /\ results = <<>>
    /\ \A w \in P!Workers : worker[w] = "exited" /\ queues[w] = <<>>
    /\ \A i \in Items : states[i] # "running"
    /\ any_errors = (\E i \in Items : states[i] = "failed")
    /\ \/ any_errors /\ option.stop_on_first_error
       \/ \A i \in Items : states[i] \in E!Terminal

\* After the first error no item is started ("this method returns after all
\* currently pending jobs are completed", DependencyRunner.hh:23-24).
NothingStartsAfterStop ==
  [][stop => \A i \in Items : states'[i] = "running" => states[i] = "running"]_vars

\* run() implements the schedule a parallel build promises: an item counts
\* as executing from setRunning until its worker publishes the result, and
\* has its outcome from then on, although the evaluator learns of it later.
Published(i, status) ==
  \E n \in DOMAIN results : results[n] = [item |-> i, status |-> status]

Schedule ==
  INSTANCE BuildSchedule WITH
    stop_on_first_error <- option.stop_on_first_error,
    propagate_failure <- ~option.disable_failure_propagation,
    executing <- {i \in Items : /\ states[i] = "running"
                                /\ \A s \in BOOLEAN : ~Published(i, s)},
    outcome <- [i \in Items |->
                  CASE states[i] = "completed" \/ Published(i, TRUE) -> "succeeded"
                    [] states[i] = "failed" \/ Published(i, FALSE) -> "failed"
                    [] states[i] = "depfailed" -> "skipped"
                    [] OTHER -> "none"],
    returned <- pc = "returned"

ImplementsSchedule == Schedule!Spec

\* run() returns, whatever fails.
RunReturns == <>(pc = "returned")
=============================================================================
