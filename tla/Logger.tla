------------------------------- MODULE Logger -------------------------------
(***************************************************************************)
(* Logger.cc: all output of abuild goes through one queue to one thread    *)
(* that prints it.  A build thread logs to a job of its own; a job is      *)
(* buffered (its output appears when it is closed) or not (every line      *)
(* appears at once, with the job's prefix).  The job of the Java builder   *)
(* is never buffered and is left open.  The main thread logs without a job *)
(* and stops the logger when the other threads are gone.                   *)
(*                                                                         *)
(* What matters is the order in which the locks are taken:                 *)
(*   jobdata_mutex      the table of jobs (recursive)                      *)
(*   mutex[j]           the state of job j (recursive)                     *)
(*   queue_write_mutex  held over one write, which looks up the job's      *)
(*                      prefix, and so takes jobdata_mutex, for each line  *)
(* Lines are taken to be complete: the handlers are told of the end of the *)
(* output before a job is closed.                                          *)
(***************************************************************************)
EXTENDS Integers, Sequences, FiniteSets

CONSTANTS
  Workers,         \* threads with one job each, of the thread's name
  BufferedChoices, \* the sets of jobs that may be the buffered ones
  MaxLines,        \* lines each worker logs
  MaxMain          \* lines the main thread logs

ASSUME BufferedAssumption == BufferedChoices \subseteq SUBSET Workers
ASSUME LinesAssumption == MaxLines \in Nat /\ MaxMain \in Nat

VARIABLES
  buffered, jobs, buffer,                     \* the jobs and their buffers
  jobdata_mutex, mutex, queue_write_mutex,    \* their owners
  pc,
  stopping,      \* what stopLogger is doing
  closing,       \* the job it is closing, if any
  logged,        \* lines logged so far, by source
  logger_queue, not_empty, empty,             \* a ThreadSafeQueue
  printer,       \* where loggerMain is
  printed        \* what was written to the output

locks == <<jobdata_mutex, mutex, queue_write_mutex>>
table == <<buffered, jobs>>
stop == <<stopping, closing>>
queue == <<logger_queue, not_empty, empty>>
print == <<printer, printed>>
vars == <<table, buffer, locks, pc, stop, logged, queue, print>>

Q == INSTANCE ThreadSafeQueue WITH data <- logger_queue

Main == "main"
Printer == "printer"
Free == "free"
NO_JOB == "none"
ASSUME WorkersAssumption == Workers \cap {Main, Free, NO_JOB} = {}

Threads == Workers \cup {Main}
Line(t, n) == [from |-> t, line |-> n]
Shutdown == Line(Main, 0)

Init ==
  /\ buffered \in BufferedChoices
  /\ jobs = {}
  /\ buffer = [j \in Workers |-> <<>>]
  /\ jobdata_mutex = Free
  /\ mutex = [j \in Workers |-> Free]
  /\ queue_write_mutex = Free
  /\ pc = [t \in Threads |-> IF t = Main THEN "idle" ELSE "start"]
  /\ stopping = "no"
  /\ closing = NO_JOB
  /\ logged = [t \in Threads |-> 0]
  /\ Q!QueueInit
  /\ printer = "head"
  /\ printed = <<>>

goto(t, label) == pc' = [pc EXCEPT ![t] = label]

-----------------------------------------------------------------------------
(* writeToLogger(message): by any thread, of one line *)

write(t) ==
  /\ pc[t] = "write"
  /\ queue_write_mutex = Free
  /\ queue_write_mutex' = t
  /\ goto(t, "prefix")
  /\ UNCHANGED <<table, buffer, jobdata_mutex, mutex, stop, logged, queue, print>>

Message(t) ==
  IF t = Main /\ stopping = "shutdown" THEN Shutdown ELSE Line(t, logged[t])

\* Mutant: the logger is told to stop before it is given the error message.
enqueue_swapped(t) ==
  /\ jobdata_mutex = Free
  /\ Q!enqueue(IF t = Main /\ stopping = "error" THEN Shutdown ELSE Line(t, logged[t]))
  /\ queue_write_mutex' = Free

\* prefixMessage waits for jobdata_mutex with queue_write_mutex held.
enqueue(t) ==
  /\ jobdata_mutex = Free
  /\ Q!enqueue(Message(t))
  /\ queue_write_mutex' = Free

-----------------------------------------------------------------------------
(* closeJob(j) by a thread that holds jobdata_mutex: JobData::flush *)

\* There is nothing to flush.
flushNothing(t, j) ==
  /\ pc[t] = "flush"
  /\ mutex[j] = Free
  /\ buffer[j] = <<>>
  /\ UNCHANGED <<buffer, mutex, queue_write_mutex, queue>>

flush(t, j) ==
  /\ pc[t] = "flush"
  /\ mutex[j] = Free
  /\ buffer[j] # <<>>
  /\ mutex' = [mutex EXCEPT ![j] = t]
  /\ goto(t, "flushWrite")
  /\ UNCHANGED <<table, buffer, jobdata_mutex, queue_write_mutex, stop, logged,
                 queue, print>>

\* writeToLogger(messages) waits for queue_write_mutex ...
flushWrite(t) ==
  /\ pc[t] = "flushWrite"
  /\ queue_write_mutex = Free
  /\ queue_write_mutex' = t
  /\ goto(t, "flushLines")
  /\ UNCHANGED <<table, buffer, jobdata_mutex, mutex, stop, logged, queue, print>>

\* ... and keeps it for all lines; jobdata_mutex is the thread's already.
flushLine(t, j) ==
  /\ pc[t] = "flushLines"
  /\ Len(buffer[j]) > 1
  /\ Q!enqueue(Line(j, Head(buffer[j])))
  /\ buffer' = [buffer EXCEPT ![j] = Tail(@)]
  /\ UNCHANGED <<table, locks, pc, stop, logged, print>>

flushLast(t, j) ==
  /\ pc[t] = "flushLines"
  /\ Len(buffer[j]) = 1
  /\ Q!enqueue(Line(j, Head(buffer[j])))
  /\ buffer' = [buffer EXCEPT ![j] = <<>>]
  /\ queue_write_mutex' = Free
  /\ mutex' = [mutex EXCEPT ![j] = Free]

-----------------------------------------------------------------------------
(* A thread with a job *)

requestJobHandle(w) ==
  /\ pc[w] = "start"
  /\ jobdata_mutex = Free
  /\ jobs' = jobs \cup {w}
  /\ goto(w, "open")
  /\ UNCHANGED <<buffered, buffer, locks, stop, logged, queue, print>>

\* Mutant: lines of a buffered job are written at once.
handleMessage_unbuffered(w) ==
  /\ pc[w] = "open"
  /\ logged[w] < MaxLines
  /\ mutex[w] = Free
  /\ logged' = [logged EXCEPT ![w] = @ + 1]
  /\ mutex' = [mutex EXCEPT ![w] = w]
  /\ goto(w, "write")
  /\ UNCHANGED <<table, buffer, jobdata_mutex, queue_write_mutex, stop, queue, print>>

\* JobData::handleMessage, reached through the output handler: a line is
\* buffered, or written with the job's mutex held.
handleMessage(w) ==
  /\ pc[w] = "open"
  /\ logged[w] < MaxLines
  /\ mutex[w] = Free
  /\ logged' = [logged EXCEPT ![w] = @ + 1]
  /\ \/ /\ w \in buffered
        /\ buffer' = [buffer EXCEPT ![w] = Append(@, logged'[w])]
        /\ UNCHANGED <<mutex, pc>>
     \/ /\ w \notin buffered
        /\ mutex' = [mutex EXCEPT ![w] = w]
        /\ goto(w, "write")
        /\ UNCHANGED buffer
  /\ UNCHANGED <<table, jobdata_mutex, queue_write_mutex, stop, queue, print>>

written(w) ==
  /\ pc[w] = "prefix"
  /\ enqueue(w)
  /\ mutex' = [mutex EXCEPT ![w] = Free]
  /\ goto(w, "open")
  /\ UNCHANGED <<table, buffer, jobdata_mutex, stop, logged, print>>

\* The job is removed and then flushed with jobdata_mutex held.
closeJob(w) ==
  /\ pc[w] = "open"
  /\ logged[w] = MaxLines
  /\ jobdata_mutex = Free
  /\ jobdata_mutex' = w
  /\ jobs' = jobs \ {w}
  /\ goto(w, "flush")
  /\ UNCHANGED <<buffered, buffer, mutex, queue_write_mutex, stop, logged, queue,
                 print>>

closed(w) ==
  /\ flushNothing(w, w) \/ flushLast(w, w)
  /\ jobdata_mutex' = Free
  /\ goto(w, "closed")
  /\ UNCHANGED <<table, stop, logged, print>>

\* The job of the Java builder is left to stopLogger.
leaveJob(w) ==
  /\ pc[w] = "open"
  /\ w \notin buffered
  /\ logged[w] = MaxLines
  /\ goto(w, "closed")
  /\ UNCHANGED <<table, buffer, locks, stop, logged, queue, print>>

WorkerStep(w) ==
  \/ requestJobHandle(w)
  \/ handleMessage(w)
  \/ write(w)
  \/ written(w)
  \/ closeJob(w)
  \/ flush(w, w)
  \/ flushWrite(w)
  \/ flushLine(w, w)
  \/ closed(w)
  \/ leaveJob(w)

-----------------------------------------------------------------------------
(* The main thread *)

logInfo ==
  /\ pc[Main] = "idle"
  /\ logged[Main] < MaxMain
  /\ logged' = [logged EXCEPT ![Main] = @ + 1]
  /\ goto(Main, "write")
  /\ UNCHANGED <<table, buffer, locks, stop, queue, print>>

callFlushLog ==
  /\ pc[Main] = "idle"
  /\ goto(Main, "flushLog")
  /\ UNCHANGED <<table, buffer, locks, stop, logged, queue, print>>

\* flushLog: "waits for the logger queue to be empty" (Logger.hh:56)
flushLog ==
  /\ pc[Main] = "flushLog"
  /\ \/ /\ Q!waitUntilEmpty(Main)
        /\ UNCHANGED pc
     \/ /\ Q!foundEmpty(Main)
        /\ goto(Main, "flushed")
  /\ UNCHANGED <<table, buffer, locks, stop, logged, print>>

flushed ==
  /\ pc[Main] = "flushed"
  /\ goto(Main, "idle")
  /\ UNCHANGED <<table, buffer, locks, stop, logged, queue, print>>

\* Called at the end of main(), when the other threads are gone.
stopLogger ==
  /\ pc[Main] = "idle"
  /\ \A w \in Workers : pc[w] = "closed"
  /\ jobdata_mutex = Free
  /\ jobdata_mutex' = Main
  /\ stopping' = "closing"
  /\ goto(Main, "closing")
  /\ UNCHANGED <<table, buffer, mutex, queue_write_mutex, closing, logged, queue,
                 print>>

\* The jobs that are left are closed with jobdata_mutex held throughout.
closeNext ==
  /\ pc[Main] = "closing"
  /\ \E j \in jobs :
       /\ jobs' = jobs \ {j}
       /\ closing' = j
  /\ goto(Main, "flush")
  /\ UNCHANGED <<buffered, buffer, locks, stopping, logged, queue, print>>

closedNext ==
  /\ closing # NO_JOB
  /\ flushNothing(Main, closing)
  /\ closing' = NO_JOB
  /\ goto(Main, "closing")
  /\ UNCHANGED <<table, jobdata_mutex, stopping, logged, print>>

\* An error message, if there is one, is logged before the shutdown.
closedAll ==
  /\ pc[Main] = "closing"
  /\ jobs = {}
  /\ jobdata_mutex' = Free
  /\ \/ /\ stopping' = "shutdown"
        /\ UNCHANGED logged
     \/ /\ stopping' = "error"
        /\ logged' = [logged EXCEPT ![Main] = @ + 1]
  /\ goto(Main, "write")
  /\ UNCHANGED <<table, buffer, mutex, queue_write_mutex, closing, queue, print>>

writtenByMain ==
  /\ pc[Main] = "prefix"
  /\ enqueue(Main)
  /\ \/ /\ stopping = "no"
        /\ goto(Main, "idle")
        /\ UNCHANGED stopping
     \/ /\ stopping = "error"
        /\ stopping' = "shutdown"
        /\ goto(Main, "write")
     \/ /\ stopping = "shutdown"
        /\ goto(Main, "join")
        /\ UNCHANGED stopping
  /\ UNCHANGED <<table, buffer, jobdata_mutex, mutex, closing, logged, print>>

joined ==
  /\ pc[Main] = "join"
  /\ printer = "done"
  /\ goto(Main, "stopped")
  /\ UNCHANGED <<table, buffer, locks, stop, logged, queue, print>>

MainStep ==
  \/ logInfo
  \/ flushLog
  \/ flushed
  \/ stopLogger
  \/ closeNext
  \/ closedNext
  \/ closedAll
  \/ write(Main)
  \/ writtenByMain
  \/ joined

-----------------------------------------------------------------------------
(* loggerMain *)

\* The message is acted on while it is still in the queue ...
printHead ==
  /\ printer = "head"
  /\ \/ /\ Q!waitForItem(Printer)
        /\ UNCHANGED <<printer, printed>>
     \/ /\ logger_queue # <<>>
        /\ LET message == Head(logger_queue)
           IN /\ Q!head(Printer, message)
              /\ printed' =
                   IF message = Shutdown THEN printed ELSE Append(printed, message)
        /\ printer' = "dequeue"

\* ... and leaves it then.
printDone ==
  /\ printer = "dequeue"
  /\ Q!dequeue(Printer)
  /\ printer' = IF Head(logger_queue) = Shutdown THEN "done" ELSE "head"
  /\ UNCHANGED printed

loggerMain ==
  /\ printHead \/ printDone
  /\ UNCHANGED <<table, buffer, locks, pc, stop, logged>>

Stopped == pc[Main] = "stopped" /\ UNCHANGED vars

Next ==
  \/ \E w \in Workers : WorkerStep(w)
  \/ callFlushLog
  \/ MainStep
  \/ loggerMain
  \/ Stopped

\* Threads are scheduled; nothing makes the main thread call flushLog.
Spec ==
  /\ Init
  /\ [][Next]_vars
  /\ \A w \in Workers : WF_vars(WorkerStep(w))
  /\ WF_vars(loggerMain)
  /\ WF_vars(MainStep)

-----------------------------------------------------------------------------
(* Properties *)

TypeOK ==
  LET lines == 0..(MaxLines + MaxMain + 1)
      messages == [from : Threads, line : lines]
      owners == Threads \cup {Free}
  IN /\ buffered \subseteq Workers
     /\ jobs \subseteq Workers
     /\ buffer \in [Workers -> Seq(lines)]
     /\ jobdata_mutex \in owners
     /\ mutex \in [Workers -> owners]
     /\ queue_write_mutex \in owners
     /\ pc \in [Threads -> {"start", "open", "write", "prefix", "flush",
                            "flushWrite", "flushLines", "closed", "idle",
                            "flushLog", "flushed", "closing", "join", "stopped"}]
     /\ stopping \in {"no", "closing", "error", "shutdown"}
     /\ closing \in Workers \cup {NO_JOB}
     /\ logged \in [Threads -> lines]
     /\ logger_queue \in Seq(messages)
     /\ not_empty \subseteq {Printer}
     /\ empty \subseteq {Main}
     /\ printer \in {"head", "dequeue", "done"}
     /\ printed \in Seq(messages)

\* The lines of one source are printed in the order in which they were
\* logged, none twice, and "there is no interleaving of output from the
\* builds of different build items" in buffered mode (manual.xml:10922-10930):
\* those of a buffered job stand together, whatever else is logged meanwhile.
OutputInOrder ==
  \A m, n \in DOMAIN printed :
    (m < n /\ printed[m].from = printed[n].from) =>
      /\ printed[m].line < printed[n].line
      /\ printed[m].from \in buffered =>
           \A k \in m..n : printed[k].from = printed[m].from

Printed(t, l) == \E n \in DOMAIN printed : printed[n] = Line(t, l)

\* flushLog does not return "until after we've actually acted on everything
\* in the queue" (Logger.cc:349-351): what the caller itself has logged is on
\* the output by then.  And "the caller should call stopLogger() before
\* exiting to ensure that all logged messages are actually output"
\* (Logger.hh:17-19): when that returns, whatever was logged by any thread is
\* printed, the error message included.
ReturnMeansPrinted ==
  /\ pc[Main] = "flushed" => \A l \in 1..logged[Main] : Printed(Main, l)
  /\ pc[Main] = "stopped" =>
       \A t \in Threads : \A l \in 1..logged[t] : Printed(t, l)

\* Without buffered jobs the locks and the two conditions of the queue hold
\* nobody up: a call of flushLog returns, and stopLogger is reached and
\* returns.
UnbufferedStops ==
  (buffered = {}) =>
    /\ <>(pc[Main] = "stopped" \/ []<>(pc[Main] = "flushed"))
    /\ (pc[Main] = "flushLog") ~> (pc[Main] = "flushed")

\* The same is promised in every output mode.
LoggerStops == <>(pc[Main] = "stopped" \/ []<>(pc[Main] = "flushed"))
=============================================================================
