--------------------------- MODULE ThreadSafeQueue ---------------------------
(***************************************************************************)
(* ThreadSafeQueue.hh: a list guarded by a mutex, with two conditions.     *)
(* Every method holds the mutex from its first to its last line except     *)
(* while it waits, so a method is one action and a wait is two: going to   *)
(* sleep on the condition, and, once some thread has notified it, looking  *)
(* again.  `not_empty` and `empty` hold the threads that sleep.            *)
(*                                                                         *)
(* The threads of abuild wait without a timeout; removeIf is called by a   *)
(* test only.  Neither is modelled.                                        *)
(***************************************************************************)
EXTENDS Sequences

VARIABLES data, not_empty, empty

QueueInit ==
  /\ data = <<>>
  /\ not_empty = {}
  /\ empty = {}

Awake(t) == t \notin not_empty \cup empty

\* Mutant: those who wait for an item are not notified.
enqueue_silent(item) ==
  /\ data' = Append(data, item)
  /\ UNCHANGED <<not_empty, empty>>

enqueue(item) ==
  /\ data' = Append(data, item)
  /\ not_empty' = {}                      \* notify_all
  /\ UNCHANGED empty

\* head() and dequeue() find nothing, and sleep.
waitForItem(t) ==
  /\ Awake(t)
  /\ data = <<>>
  /\ not_empty' = not_empty \cup {t}
  /\ UNCHANGED <<data, empty>>

\* head() returns an item that stays in the queue.
head(t, item) ==
  /\ Awake(t)
  /\ data # <<>>
  /\ item = Head(data)
  /\ UNCHANGED <<data, not_empty, empty>>

dequeue(t) ==
  /\ Awake(t)
  /\ data # <<>>
  /\ data' = Tail(data)
  /\ empty' = IF data' = <<>> THEN {} ELSE empty    \* notify_all
  /\ UNCHANGED not_empty

\* waitUntilEmpty() sleeps while there is something in the queue ...
waitUntilEmpty(t) ==
  /\ Awake(t)
  /\ data # <<>>
  /\ empty' = empty \cup {t}
  /\ UNCHANGED <<data, not_empty>>

\* ... and returns when it looks and there is nothing.
foundEmpty(t) ==
  /\ Awake(t)
  /\ data = <<>>
  /\ UNCHANGED <<data, not_empty, empty>>
=============================================================================
