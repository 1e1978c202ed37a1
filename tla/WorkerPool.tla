----------------------------- MODULE WorkerPool -----------------------------
(***************************************************************************)
(* WorkerPool.hh: threads that process items handed to them by one client  *)
(* thread.  Every method holds the pool's mutex from its first to its last *)
(* line, except while it waits on the condition, so a method is one action *)
(* and a wait is two: falling asleep, and being woken to look again.       *)
(*                                                                         *)
(* `asleep` says that the client is blocked in condition.wait: it stays so *)
(* until some thread calls notify_all, whatever the state of the pool.     *)
(* A worker blocks in dequeue() of its own ThreadSafeQueue, whose wakeups  *)
(* the module of that name is about.                                       *)
(***************************************************************************)
EXTENDS Integers, Sequences, FiniteSets

CONSTANTS
  PoolItems,     \* what may be submitted, named by naturals
  num_workers   \* a positive number

VARIABLES
  available_workers,   \* the workers that may be given an item, oldest first
  results,             \* finished items with their status, oldest first
  queues,              \* for each worker, the messages for it
  shutdown_requested,
  worker,              \* for each worker, "starting", "idle", "busy", "exited"
  job,                 \* for each worker, the item it is busy with
  asleep               \* the client is blocked in condition.wait

pool == <<available_workers, results, queues, shutdown_requested, worker, job,
          asleep>>

Workers == 1..num_workers

NoJob == -1
\* "A false would tell the thread to exit" (line 173).
Work(item) == [process |-> TRUE, item |-> item]
Exit == [process |-> FALSE, item |-> NoJob]
Message == {Work(i) : i \in PoolItems} \cup {Exit}
Status == BOOLEAN

PoolInit ==
  /\ available_workers = <<>>
  /\ results = <<>>
  /\ queues = [w \in Workers |-> <<>>]
  /\ shutdown_requested = FALSE
  /\ worker = [w \in Workers |-> "starting"]
  /\ job = [w \in Workers |-> NoJob]
  /\ asleep = FALSE

-----------------------------------------------------------------------------
(* worker_main *)

\* Mutant: the client is not notified.
start_silent(w) ==
  /\ worker[w] = "starting"
  /\ worker' = [worker EXCEPT ![w] = "idle"]
  /\ available_workers' = Append(available_workers, w)
  /\ UNCHANGED <<results, queues, shutdown_requested, job, asleep>>

start(w) ==
  /\ worker[w] = "starting"
  /\ worker' = [worker EXCEPT ![w] = "idle"]
  /\ available_workers' = Append(available_workers, w)
  /\ asleep' = FALSE                                     \* notify_all
  /\ UNCHANGED <<results, queues, shutdown_requested, job>>

\* dequeue() returns: the worker leaves, or begins to process the item.
dequeue(w) ==
  /\ worker[w] = "idle"
  /\ queues[w] # <<>>
  /\ LET message == Head(queues[w])
     IN IF ~message.process
        THEN /\ worker' = [worker EXCEPT ![w] = "exited"]
             /\ UNCHANGED job
        ELSE /\ worker' = [worker EXCEPT ![w] = "busy"]
             /\ job' = [job EXCEPT ![w] = message.item]
  /\ queues' = [queues EXCEPT ![w] = Tail(@)]
  /\ UNCHANGED <<available_workers, results, shutdown_requested, asleep>>

\* method(item) has returned, and its status is published.
publish(w, status) ==
  /\ worker[w] = "busy"
  /\ worker' = [worker EXCEPT ![w] = "idle"]
  /\ job' = [job EXCEPT ![w] = NoJob]
  /\ results' = Append(results, [item |-> job[w], status |-> status])
  /\ available_workers' = Append(available_workers, w)
  /\ asleep' = FALSE                                     \* notify_all
  /\ UNCHANGED <<queues, shutdown_requested>>

WorkerStep(w) ==
  start(w) \/ dequeue(w) \/ \E status \in Status : publish(w, status)

-----------------------------------------------------------------------------
(* The client's calls *)

\* wait() returns when this holds, waitForResults() when the next does.
WaitIsOver == shutdown_requested \/ results # <<>> \/ available_workers # <<>>
WaitForResultsIsOver ==
  shutdown_requested \/ results # <<>> \/ Len(available_workers) >= num_workers

\* condition.wait(lock) in one of the loops over these conditions.
sleepUnless(over) ==
  /\ ~asleep
  /\ ~over
  /\ asleep' = TRUE
  /\ UNCHANGED <<available_workers, results, queues, shutdown_requested,
                 worker, job>>

resultsAvailable == results # <<>>
availableWorkers == Len(available_workers)
idle == Len(available_workers) = num_workers /\ results = <<>>

\* Mutant: the result is read but not removed.
getResults_kept ==
  /\ results # <<>>
  /\ UNCHANGED pool

\* The oldest result is taken; notify_all has nobody else to wake.
getResults ==
  /\ results # <<>>
  /\ results' = Tail(results)
  /\ UNCHANGED <<available_workers, queues, shutdown_requested, worker, job,
                 asleep>>

processItem(item) ==
  /\ available_workers # <<>>
  /\ available_workers' = Tail(available_workers)
  /\ queues' = [queues EXCEPT ![Head(available_workers)] =
                                Append(@, Work(item))]
  /\ UNCHANGED <<results, shutdown_requested, worker, job, asleep>>

\* Mutant: only the first worker is told to exit.
requestShutdown_partial ==
  /\ shutdown_requested' = TRUE
  /\ queues' = [queues EXCEPT ![1] = Append(@, Exit)]
  /\ asleep' = FALSE
  /\ UNCHANGED <<available_workers, results, worker, job>>

requestShutdown ==
  /\ shutdown_requested' = TRUE
  /\ queues' = [w \in Workers |-> Append(queues[w], Exit)]
  /\ asleep' = FALSE                                     \* notify_all
  /\ UNCHANGED <<available_workers, results, worker, job>>

\* Every join() of joinThreads has returned.
allJoined == \A w \in Workers : worker[w] = "exited"

-----------------------------------------------------------------------------
(* What the pool guarantees to its client *)

PoolTypeOK ==
  /\ available_workers \in Seq(Workers)
  /\ results \in Seq([item : PoolItems, status : Status])
  /\ queues \in [Workers -> Seq(Message)]
  /\ shutdown_requested \in BOOLEAN
  /\ worker \in [Workers -> {"starting", "idle", "busy", "exited"}]
  /\ job \in [Workers -> PoolItems \cup {NoJob}]
  /\ asleep \in BOOLEAN

\* The items the pool has accepted and not given back, each as often as it
\* occurs, as the places where they are.
Held ==
  (UNION {{<<"queue", w, n>> : n \in {m \in DOMAIN queues[w] : queues[w][m].process}} :
            w \in Workers})
    \cup {<<"worker", w, 0>> : w \in {v \in Workers : worker[v] = "busy"}}
    \cup {<<"result", 0, n>> : n \in DOMAIN results}

HeldItem(place) ==
  CASE place[1] = "queue" -> queues[place[2]][place[3]].item
    [] place[1] = "worker" -> job[place[2]]
    [] place[1] = "result" -> results[place[3]].item
=============================================================================
