---------------------------- MODULE LoggerProofs ----------------------------
(***************************************************************************)
(* Proofs about Logger, for every number of threads and of lines and every *)
(* choice of the buffered jobs.                                            *)
(*                                                                         *)
(* The argument is about the stream: what has been printed, and behind it  *)
(* what is queued and not yet acted on.  It only ever grows at its end,    *)
(* while somebody holds queue_write_mutex, except for the shutdown message *)
(* that leaves it at last; printing moves the border within it.  So what   *)
(* holds of the stream holds of the output.                                *)
(***************************************************************************)
EXTENDS Logger, ListLemmas

rest == IF printer = "dequeue" THEN Tail(logger_queue) ELSE logger_queue
stream == printed \o rest
Sent(t, l) == \E n \in DOMAIN stream : stream[n] = Line(t, l)

\* Who holds which lock is a matter of where the threads are.
LocksHeld ==
  /\ \A w \in Workers :
       /\ jobdata_mutex = w <=> pc[w] \in {"flush", "flushWrite", "flushLines"}
       /\ mutex[w] = IF pc[w] \in {"write", "prefix", "flushWrite", "flushLines"}
                     THEN w ELSE Free
  /\ jobdata_mutex = Main <=> pc[Main] \in {"closing", "flush"}
  /\ \A t \in Threads :
       queue_write_mutex = t <=> pc[t] \in {"prefix", "flushLines"}

WorkerControl(w) ==
  /\ pc[w] \in {"start", "open", "write", "prefix", "flush", "flushWrite",
                "flushLines", "closed"}
  /\ w \in buffered => pc[w] \notin {"write", "prefix"}
  /\ pc[w] \in {"flushWrite", "flushLines"} => buffer[w] # <<>>
  /\ w \notin buffered \/ pc[w] \in {"start", "closed"} => buffer[w] = <<>>
  /\ stopping # "no" => pc[w] = "closed"

MainControl ==
  /\ pc[Main] \in {"idle", "write", "prefix", "flushLog", "flushed", "closing",
                   "flush", "join", "stopped"}
  /\ pc[Main] \in {"idle", "flushLog", "flushed"} => stopping = "no"
  /\ pc[Main] \in {"join", "stopped"} => stopping = "shutdown"
  /\ pc[Main] \in {"closing", "flush"} => stopping = "closing"
  /\ pc[Main] \in {"write", "prefix"} => stopping # "closing"

Control == MainControl /\ \A w \in Workers : WorkerControl(w)

Counted ==
  /\ \A w \in Workers : logged[w] <= MaxLines
  /\ logged[Main] <= MaxMain + 1
  /\ stopping \in {"no", "closing"} => logged[Main] <= MaxMain

\* Nothing is queued behind the shutdown message.
EndOfQueue ==
  /\ \A n \in DOMAIN logger_queue :
       logger_queue[n] = Shutdown => n = Len(logger_queue) /\ pc[Main] = "join"
  /\ printer = "dequeue" => logger_queue # <<>>
  /\ printer = "done" => logger_queue = <<>> /\ pc[Main] \in {"join", "stopped"}
  /\ pc[Main] = "stopped" => printer = "done"
  /\ \A n \in DOMAIN printed : printed[n] # Shutdown

\* The thread is about to write the last line it has logged.
ToWrite(t) ==
  pc[t] \in {"write", "prefix"} /\ ~(t = Main /\ stopping = "shutdown")

Announced == \A t \in Threads : ToWrite(t) => logged[t] >= 1

Buffers ==
  \A w \in Workers :
    /\ \A m, n \in DOMAIN buffer[w] : m < n => buffer[w][m] < buffer[w][n]
    /\ \A n \in DOMAIN buffer[w] : buffer[w][n] \in 1..logged[w]

\* What the stream holds was logged, and comes before whatever its source
\* has still to write; while a buffered job is written nobody else writes.
Bounded(n) ==
  LET t == stream[n].from
      l == stream[n].line
  IN /\ l \in 1..logged[t]
     /\ ToWrite(t) => l < logged[t]
     /\ t \in buffered =>
          /\ pc[t] \in {"flushLines", "closed"}
          /\ pc[t] = "flushLines" => stream[Len(stream)].from = t
          /\ \A k \in DOMAIN buffer[t] : l < buffer[t][k]

Bounds == \A n \in DOMAIN stream : stream[n] # Shutdown => Bounded(n)

InOrder ==
  \A m, n \in DOMAIN stream :
    (m < n /\ stream[m].from = stream[n].from /\ stream[n] # Shutdown) =>
      /\ stream[m].line < stream[n].line
      /\ stream[m].from \in buffered =>
           \A k \in m..n : stream[k].from = stream[m].from

\* A line that was logged is in the stream, in a buffer, or in the hands of
\* the thread that logged it.
Complete ==
  \A t \in Threads : \A l \in 1..logged[t] :
    \/ Sent(t, l)
    \/ t \in Workers /\ \E n \in DOMAIN buffer[t] : buffer[t][n] = l
    \/ ToWrite(t) /\ l = logged[t]

StreamInv == Buffers /\ Bounds /\ InOrder /\ Complete

Flushed == pc[Main] = "flushed" => \A l \in 1..logged[Main] : Printed(Main, l)

IInv ==
  /\ TypeOK
  /\ LocksHeld
  /\ Control
  /\ Counted
  /\ Announced
  /\ EndOfQueue
  /\ StreamInv
  /\ Flushed

-----------------------------------------------------------------------------
(* Types *)

Lines == 0..(MaxLines + MaxMain + 1)
Messages == [from : Threads, line : Lines]

LEMMA Names ==
  /\ Main \in Threads /\ Workers \subseteq Threads
  /\ Main \notin Workers /\ Free \notin Threads /\ NO_JOB \notin Workers
  /\ Free # Main
BY WorkersAssumption DEF Threads, Main, Free, NO_JOB

LEMMA ShutdownMessage ==
  Shutdown \in Messages /\ Shutdown.from = Main /\ Shutdown.line = 0
BY LinesAssumption, Names DEF Shutdown, Messages, Lines, Line

LEMMA Message1 ==
  ASSUME NEW t \in Threads, NEW l \in Lines
  PROVE  /\ Line(t, l) \in Messages
         /\ Line(t, l).from = t /\ Line(t, l).line = l
         /\ l >= 1 => Line(t, l) # Shutdown
BY LinesAssumption DEF Shutdown, Messages, Lines, Line

LEMMA InitTypes == Init => TypeOK /\ Counted
<1> SUFFICES ASSUME Init PROVE TypeOK /\ Counted
  OBVIOUS
<1> USE DEF Init, Q!QueueInit, Threads
<1>1. buffered \subseteq Workers
  BY BufferedAssumption
<1>2. 0 \in Lines
  BY LinesAssumption DEF Lines
<1>3. buffer \in [Workers -> Seq(Lines)]
  OBVIOUS
<1>4. logged \in [Threads -> Lines]
  BY <1>2
<1>5. pc \in [Threads -> {"start", "idle"}]
  OBVIOUS
<1>6. TypeOK
  BY <1>1, <1>3, <1>4, <1>5 DEF TypeOK, Lines, Main, Free
<1>7. Counted
  BY LinesAssumption DEF Counted, Main
<1> QED BY <1>6, <1>7

\* What the steps of a thread with a job leave alone.
LEMMA WorkerFrame ==
  ASSUME TypeOK, NEW w \in Workers, WorkerStep(w)
  PROVE  /\ UNCHANGED <<buffered, stop, print>>
         /\ \A t \in Threads : t # w => pc'[t] = pc[t] /\ logged'[t] = logged[t]
         /\ \A v \in Workers : v # w => buffer'[v] = buffer[v] /\ mutex'[v] = mutex[v]
         /\ logged'[w] # logged[w] => logged[w] < MaxLines /\ logged'[w] = logged[w] + 1
<1> USE Names
    DEF TypeOK, goto, vars, table, locks, stop, queue, print
<1>1. CASE requestJobHandle(w) \/ closeJob(w) \/ leaveJob(w)
  BY <1>1 DEF requestJobHandle, closeJob, leaveJob
<1>2. CASE handleMessage(w)
  BY <1>2 DEF handleMessage
<1>3. CASE write(w) \/ written(w)
  BY <1>3 DEF write, written, enqueue, Q!enqueue
<1>4. CASE flush(w, w) \/ flushWrite(w)
  BY <1>4 DEF flush, flushWrite
<1>5. CASE flushLine(w, w)
  BY <1>5 DEF flushLine, Q!enqueue
<1>6. CASE closed(w)
  BY <1>6 DEF closed, flushNothing, flushLast, Q!enqueue
<1> QED BY <1>1, <1>2, <1>3, <1>4, <1>5, <1>6 DEF WorkerStep

\* What the steps of the main thread leave alone.
LEMMA MainFrame ==
  ASSUME TypeOK, MainStep \/ callFlushLog
  PROVE  /\ UNCHANGED <<buffered, buffer, mutex, print>>
         /\ \A w \in Workers : pc'[w] = pc[w] /\ logged'[w] = logged[w]
<1> USE Names
    DEF TypeOK, goto, vars, table, locks, stop, queue, print
<1>1. CASE logInfo \/ callFlushLog \/ flushed \/ joined \/ flushLog
  BY <1>1 DEF logInfo, callFlushLog, flushed, joined, flushLog
<1>2. CASE stopLogger \/ closeNext \/ closedAll
  BY <1>2 DEF stopLogger, closeNext, closedAll
<1>3. CASE closedNext
  BY <1>3 DEF closedNext, flushNothing
<1>4. CASE write(Main) \/ writtenByMain
  BY <1>4 DEF write, writtenByMain, enqueue, Q!enqueue
<1> QED BY <1>1, <1>2, <1>3, <1>4 DEF MainStep

LEMMA CountedStep == IInv /\ [Next]_vars => Counted'
<1> SUFFICES ASSUME IInv, [Next]_vars PROVE Counted'
  OBVIOUS
<1> USE Names, LinesAssumption DEF IInv, Counted
<1>1. \A t \in Threads : logged[t] \in Nat
  BY DEF TypeOK
<1>2. ASSUME NEW w \in Workers, WorkerStep(w) PROVE Counted'
  BY <1>1, <1>2, WorkerFrame DEF stop
<1>3. ASSUME MainStep PROVE Counted'
  <2> USE DEF table, locks, stop, queue, print, Control, MainControl
  <2>1. \A w \in Workers : logged'[w] = logged[w]
    BY <1>3, MainFrame
  <2>2. CASE logInfo
    BY <1>1, <2>1, <2>2 DEF logInfo, TypeOK
  <2>3. CASE closedAll
    BY <1>1, <2>1, <2>3 DEF closedAll, TypeOK
  <2>4. CASE flushLog \/ flushed \/ stopLogger \/ closeNext \/ closedNext \/ joined
    BY <1>1, <2>1, <2>4 DEF flushLog, flushed, stopLogger, closeNext, closedNext, joined
  <2>5. CASE write(Main) \/ writtenByMain
    BY <1>1, <2>1, <2>5 DEF write, writtenByMain
  <2> QED BY <1>3, <2>2, <2>3, <2>4, <2>5 DEF MainStep
<1>4. ASSUME callFlushLog \/ loggerMain \/ Stopped \/ UNCHANGED vars
      PROVE  Counted'
  BY <1>4 DEF callFlushLog, loggerMain, Stopped, vars, stop
<1> QED BY <1>2, <1>3, <1>4 DEF Next

SmallTypes ==
  /\ buffered \subseteq Workers
  /\ jobs \subseteq Workers
  /\ jobdata_mutex \in Threads \cup {Free}
  /\ mutex \in [Workers -> Threads \cup {Free}]
  /\ queue_write_mutex \in Threads \cup {Free}
  /\ pc \in [Threads -> {"start", "open", "write", "prefix", "flush",
                         "flushWrite", "flushLines", "closed", "idle",
                         "flushLog", "flushed", "closing", "join", "stopped"}]
  /\ stopping \in {"no", "closing", "error", "shutdown"}
  /\ closing \in Workers \cup {NO_JOB}
  /\ not_empty \subseteq {Printer}
  /\ empty \subseteq {Main}
  /\ printer \in {"head", "dequeue", "done"}

Logged == logged \in [Threads -> Lines]

ListsTyped ==
  /\ buffer \in [Workers -> Seq(Lines)]
  /\ logger_queue \in Seq(Messages)
  /\ printed \in Seq(Messages)

LEMMA TypeParts == TypeOK <=> SmallTypes /\ Logged /\ ListsTyped
BY DEF TypeOK, SmallTypes, Logged, ListsTyped, Messages, Lines

LEMMA SmallTypesStep == TypeOK /\ [Next]_vars => SmallTypes'
<1> SUFFICES ASSUME SmallTypes, [Next]_vars PROVE SmallTypes'
  BY TypeParts
<1> USE Names DEF SmallTypes, goto, vars, table, locks, stop, queue, print
<1>1. ASSUME NEW t \in Threads, write(t)
      PROVE  SmallTypes'
  BY <1>1 DEF write
<1>2. ASSUME NEW w \in Workers, WorkerStep(w) PROVE SmallTypes'
  <2>1. CASE requestJobHandle(w)
    BY <2>1 DEF requestJobHandle
  <2>2. CASE handleMessage(w)
    BY <2>2 DEF handleMessage
  <2>3. CASE written(w)
    BY <2>3 DEF written, enqueue, Q!enqueue
  <2>4. CASE closeJob(w)
    BY <2>4 DEF closeJob
  <2>5. CASE flush(w, w)
    BY <2>5 DEF flush
  <2>6. CASE flushWrite(w)
    BY <2>6 DEF flushWrite
  <2>7. CASE flushLine(w, w)
    BY <2>7 DEF flushLine, Q!enqueue
  <2>8. CASE closed(w)
    BY <2>8 DEF closed, flushNothing, flushLast, Q!enqueue
  <2>9. CASE leaveJob(w)
    BY <2>9 DEF leaveJob
  <2> QED BY <1>1, <1>2, <2>1, <2>2, <2>3, <2>4, <2>5, <2>6, <2>7, <2>8, <2>9
          DEF WorkerStep
<1>3. ASSUME MainStep PROVE SmallTypes'
  <2>1. CASE logInfo
    BY <2>1 DEF logInfo
  <2>2. CASE flushLog
    BY <2>2 DEF flushLog, Q!waitUntilEmpty, Q!foundEmpty
  <2>3. CASE flushed
    BY <2>3 DEF flushed
  <2>4. CASE stopLogger
    BY <2>4 DEF stopLogger
  <2>5. CASE closeNext
    BY <2>5 DEF closeNext
  <2>6. CASE closedNext
    BY <2>6 DEF closedNext, flushNothing
  <2>7. CASE closedAll
    BY <2>7 DEF closedAll
  <2>8. CASE writtenByMain
    BY <2>8 DEF writtenByMain, enqueue, Q!enqueue
  <2>9. CASE joined
    BY <2>9 DEF joined
  <2> QED BY <1>1, <1>3, <2>1, <2>2, <2>3, <2>4, <2>5, <2>6, <2>7, <2>8, <2>9
          DEF MainStep
<1>4. ASSUME callFlushLog PROVE SmallTypes'
  BY <1>4 DEF callFlushLog
<1>5. ASSUME loggerMain PROVE SmallTypes'
  <2>1. CASE printHead
    BY <1>5, <2>1 DEF loggerMain, printHead, Q!waitForItem, Q!head
  <2>2. CASE printDone
    BY <1>5, <2>2 DEF loggerMain, printDone, Q!dequeue
  <2> QED BY <1>5, <2>1, <2>2 DEF loggerMain
<1>6. ASSUME Stopped \/ UNCHANGED vars PROVE SmallTypes'
  BY <1>6 DEF Stopped
<1> QED BY <1>2, <1>3, <1>4, <1>5, <1>6 DEF Next

LEMMA LoggedStep == IInv /\ [Next]_vars => Logged'
<1> SUFFICES ASSUME IInv, [Next]_vars PROVE Logged'
  OBVIOUS
<1> USE Names
<1>1. /\ logged \in [Threads -> Lines]
      /\ \A t \in Threads : logged'[t] <= MaxLines \/ logged'[t] <= MaxMain + 1
  BY CountedStep, TypeParts DEF IInv, Counted, Logged, Threads
<1> DEFINE OneMore == \E t \in Threads : logged' = [logged EXCEPT ![t] = @ + 1]
<1>2. UNCHANGED logged \/ OneMore
  <2>1. ASSUME NEW w \in Workers, WorkerStep(w) PROVE UNCHANGED logged \/ OneMore
    BY <2>1 DEF WorkerStep, requestJobHandle, handleMessage, write, written, closeJob,
      flush, flushWrite, flushLine, closed, leaveJob
  <2>2. ASSUME MainStep \/ callFlushLog \/ loggerMain \/ Stopped \/ UNCHANGED vars
        PROVE UNCHANGED logged \/ OneMore
    BY <2>2 DEF MainStep, logInfo, flushLog, flushed, stopLogger, closeNext,
      closedNext, closedAll, write, writtenByMain, joined, callFlushLog,
      loggerMain, Stopped, vars
  <2> QED BY <2>1, <2>2 DEF Next
<1>3. CASE OneMore
  <2>1. PICK t \in Threads : logged' = [logged EXCEPT ![t] = @ + 1]
    BY <1>3
  <2>2. logged[t] + 1 \in Lines
    BY <1>1, <2>1, LinesAssumption DEF Lines
  <2> QED BY <1>1, <2>1, <2>2 DEF Logged
<1> QED BY <1>1, <1>2, <1>3 DEF Logged

\* What may be written is a message.
LEMMA MessageTypes ==
  ASSUME Logged, ListsTyped
  PROVE  /\ \A t \in Threads : Message(t) \in Messages
         /\ \A w \in Workers : buffer[w] # <<>> =>
              Line(w, Head(buffer[w])) \in Messages
<1>1. \A t \in Threads : Message(t) \in Messages
  BY ShutdownMessage, Message1 DEF Message, Logged
<1>2. ASSUME NEW w \in Workers, buffer[w] # <<>>
      PROVE  Line(w, Head(buffer[w])) \in Messages
  <2>1. Head(buffer[w]) \in Lines
    BY <1>2, ListTypes DEF ListsTyped
  <2> QED BY <2>1, Message1, Names
<1> QED BY <1>1, <1>2

LEMMA ListsStep == IInv /\ [Next]_vars => ListsTyped'
<1> SUFFICES ASSUME TypeOK, [Next]_vars, Logged' PROVE ListsTyped'
  BY LoggedStep DEF IInv
<1> USE Names, TypeParts DEF table, locks, stop, queue, print
<1>1. CASE UNCHANGED <<buffer, logger_queue, printed>>
  BY <1>1 DEF ListsTyped
<1>2. ASSUME NEW m \in Messages, logger_queue' = Append(logger_queue, m),
             UNCHANGED <<buffer, printed>>
      PROVE  ListsTyped'
  BY <1>2, ListTypes DEF ListsTyped
<1>3. ASSUME NEW w \in Workers, WorkerStep(w) PROVE ListsTyped'
  <2>1. CASE handleMessage(w)
    <3>1. CASE w \in buffered
      <4>1. buffer' = [buffer EXCEPT ![w] = Append(@, logged'[w])]
        BY <2>1, <3>1 DEF handleMessage
      <4>2. Append(buffer[w], logged'[w]) \in Seq(Lines)
        BY ListTypes DEF ListsTyped, Logged
      <4>3. UNCHANGED <<logger_queue, printed>>
        BY <2>1 DEF handleMessage
      <4> QED BY <4>1, <4>2, <4>3 DEF ListsTyped
    <3>2. CASE w \notin buffered
      BY <1>1, <2>1, <3>2 DEF handleMessage
    <3> QED BY <3>1, <3>2
  <2>2. CASE written(w)
    BY <1>2, <2>2, MessageTypes DEF written, enqueue, Q!enqueue
  <2>3. CASE flushLine(w, w)
    <3>1. buffer[w] # <<>>
      BY <2>3 DEF flushLine
    <3>2. Tail(buffer[w]) \in Seq(Lines)
      BY <3>1, ListTypes DEF ListsTyped
    <3>3. /\ logger_queue' = Append(logger_queue, Line(w, Head(buffer[w])))
          /\ buffer' = [buffer EXCEPT ![w] = Tail(@)]
          /\ UNCHANGED printed
      BY <2>3 DEF flushLine, Q!enqueue
    <3> QED BY <3>1, <3>2, <3>3, MessageTypes, ListTypes DEF ListsTyped
  <2>4. CASE closed(w)
    <3>1. CASE flushNothing(w, w)
      BY <1>1, <2>4, <3>1 DEF closed, flushNothing
    <3>2. CASE flushLast(w, w)
      <4>1. buffer[w] # <<>>
        BY <3>2 DEF flushLast
      <4>2. <<>> \in Seq(Lines)
        BY ListTypes
      <4>3. /\ logger_queue' = Append(logger_queue, Line(w, Head(buffer[w])))
            /\ buffer' = [buffer EXCEPT ![w] = <<>>]
            /\ UNCHANGED printed
        BY <2>4, <3>2 DEF closed, flushLast, Q!enqueue
      <4> QED BY <4>1, <4>2, <4>3, MessageTypes, ListTypes DEF ListsTyped
    <3> QED BY <2>4, <3>1, <3>2 DEF closed
  <2>5. CASE ~(handleMessage(w) \/ written(w) \/ flushLine(w, w) \/ closed(w))
    BY <1>1, <1>3, <2>5
    DEF WorkerStep, requestJobHandle, write, closeJob, flush, flushWrite, leaveJob
  <2> QED BY <2>1, <2>2, <2>3, <2>4, <2>5
<1>4. ASSUME MainStep PROVE ListsTyped'
  <2>1. CASE writtenByMain
    BY <1>2, <2>1, MessageTypes DEF writtenByMain, enqueue, Q!enqueue
  <2>2. CASE ~writtenByMain
    BY <1>1, <1>4, <2>2
    DEF MainStep, logInfo, flushLog, flushed, stopLogger, closeNext, closedNext,
        closedAll, write, joined, flushNothing, Q!waitUntilEmpty, Q!foundEmpty
  <2> QED BY <2>1, <2>2
<1>5. ASSUME loggerMain PROVE ListsTyped'
  <2>1. CASE printHead
    <3>1. UNCHANGED <<buffer, logger_queue>>
      BY <1>5, <2>1 DEF loggerMain, printHead, Q!waitForItem, Q!head
    <3>2. \/ UNCHANGED printed
          \/ logger_queue # <<>> /\ printed' = Append(printed, Head(logger_queue))
      BY <1>5, <2>1 DEF loggerMain, printHead
    <3>3. printed' \in Seq(Messages)
      <4>1. logger_queue # <<>> => Head(logger_queue) \in Messages
        BY ElemsOfTail DEF ListsTyped
      <4> QED BY <3>2, <4>1, ListTypes DEF ListsTyped
    <3> QED BY <3>1, <3>3 DEF ListsTyped
  <2>2. CASE printDone
    <3>1. logger_queue # <<>> /\ logger_queue' = Tail(logger_queue)
      BY <2>2 DEF printDone, Q!dequeue
    <3>2. logger_queue' \in Seq(Messages)
      BY <3>1, ListTypes DEF ListsTyped
    <3>3. UNCHANGED <<buffer, printed>>
      BY <1>5, <2>2 DEF loggerMain, printDone
    <3> QED BY <3>2, <3>3 DEF ListsTyped
  <2> QED BY <1>5, <2>1, <2>2 DEF loggerMain
<1>6. ASSUME callFlushLog \/ Stopped \/ UNCHANGED vars PROVE ListsTyped'
  BY <1>1, <1>6 DEF callFlushLog, Stopped, vars
<1> QED BY <1>3, <1>4, <1>5, <1>6 DEF Next

LEMMA TypeStep == IInv /\ [Next]_vars => TypeOK'
<1>1. (SmallTypes /\ Logged /\ ListsTyped)' => TypeOK'
  BY TypeParts, PTL
<1> QED BY <1>1, SmallTypesStep, LoggedStep, ListsStep DEF IInv

-----------------------------------------------------------------------------
(* Locks and control *)

LEMMA LocksStep == IInv /\ [Next]_vars => LocksHeld'
<1> SUFFICES ASSUME TypeOK, LocksHeld, Control, [Next]_vars PROVE LocksHeld'
  BY DEF IInv
<1> USE Names, TypeParts
    DEF SmallTypes, LocksHeld, Control, MainControl, WorkerControl, Threads,
        goto, vars, table, locks, stop, queue, print
<1>2. ASSUME NEW w \in Workers, WorkerStep(w) PROVE LocksHeld'
  <2>1. CASE requestJobHandle(w)
    BY <2>1 DEF requestJobHandle
  <2>2. CASE handleMessage(w)
    BY <2>2 DEF handleMessage
  <2>3. CASE written(w)
    BY <2>3 DEF written, enqueue, Q!enqueue
  <2>4. CASE closeJob(w)
    BY <2>4 DEF closeJob
  <2>5. CASE flush(w, w)
    BY <2>5 DEF flush
  <2>6. CASE flushWrite(w)
    BY <2>6 DEF flushWrite
  <2>7. CASE flushLine(w, w)
    BY <2>7 DEF flushLine, Q!enqueue
  <2>8. CASE closed(w)
    BY <2>8 DEF closed, flushNothing, flushLast, Q!enqueue
  <2>9. CASE leaveJob(w)
    BY <2>9 DEF leaveJob
  <2>10. CASE write(w)
    BY <2>10 DEF write
  <2> QED BY <1>2, <2>1, <2>2, <2>3, <2>4, <2>5, <2>6, <2>7, <2>8, <2>9, <2>10
          DEF WorkerStep
<1>3. ASSUME MainStep PROVE LocksHeld'
  <2>1. CASE logInfo
    BY <2>1 DEF logInfo
  <2>2. CASE flushLog
    BY <2>2 DEF flushLog, Q!waitUntilEmpty, Q!foundEmpty
  <2>3. CASE flushed
    BY <2>3 DEF flushed
  <2>4. CASE stopLogger
    BY <2>4 DEF stopLogger
  <2>5. CASE closeNext
    BY <2>5 DEF closeNext
  <2>6. CASE closedNext
    BY <2>6 DEF closedNext, flushNothing
  <2>7. CASE closedAll
    BY <2>7 DEF closedAll
  <2>8. CASE writtenByMain
    BY <2>8 DEF writtenByMain, enqueue, Q!enqueue
  <2>9. CASE joined
    BY <2>9 DEF joined
  <2>10. CASE write(Main)
    BY <2>10 DEF write
  <2> QED BY <1>3, <2>1, <2>2, <2>3, <2>4, <2>5, <2>6, <2>7, <2>8, <2>9, <2>10
          DEF MainStep
<1>4. ASSUME callFlushLog PROVE LocksHeld'
  BY <1>4 DEF callFlushLog
<1>5. ASSUME loggerMain \/ Stopped \/ UNCHANGED vars PROVE LocksHeld'
  BY <1>5 DEF Stopped, loggerMain
<1> QED BY <1>2, <1>3, <1>4, <1>5 DEF Next

LEMMA ControlStep == IInv /\ [Next]_vars => Control'
<1> SUFFICES ASSUME TypeOK, LocksHeld, Control, [Next]_vars PROVE Control'
  BY DEF IInv
<1> USE Names, TypeParts
    DEF SmallTypes, Control, MainControl, WorkerControl, Threads,
        goto, vars, table, locks, stop, queue, print
<1>1. ASSUME NEW w \in Workers, WorkerStep(w) PROVE Control'
  <2>1. MainControl'
    BY <1>1, WorkerFrame
  <2>2. \A v \in Workers : v # w => WorkerControl(v)'
    BY <1>1, WorkerFrame
  <2>3. buffer \in [Workers -> Seq(Lines)]
    BY DEF ListsTyped
  <2>4. WorkerControl(w)'
    <3>1. CASE requestJobHandle(w)
      BY <3>1 DEF requestJobHandle
    <3>2. CASE handleMessage(w)
      BY <2>3, <3>2 DEF handleMessage
    <3>3. CASE written(w)
      BY <3>3 DEF written, enqueue, Q!enqueue
    <3>4. CASE closeJob(w)
      BY <3>4 DEF closeJob
    <3>5. CASE flush(w, w)
      BY <3>5 DEF flush
    <3>6. CASE flushWrite(w)
      BY <3>6 DEF flushWrite
    <3>7. CASE flushLine(w, w)
      <4>1. Tail(buffer[w]) # <<>>
        BY <2>3, <3>7, TailOfLonger DEF flushLine
      <4>2. buffer' = [buffer EXCEPT ![w] = Tail(@)] /\ UNCHANGED <<buffered, pc, stopping>>
        BY <3>7 DEF flushLine
      <4>3. buffer'[w] = Tail(buffer[w]) /\ pc[w] = "flushLines" /\ w \in buffered
        BY <2>3, <3>7, <4>2 DEF flushLine
      <4> QED BY <4>1, <4>2, <4>3
    <3>8. CASE closed(w)
      BY <2>3, <3>8 DEF closed, flushNothing, flushLast, Q!enqueue
    <3>9. CASE leaveJob(w)
      BY <3>9 DEF leaveJob
    <3>10. CASE write(w)
      BY <3>10 DEF write
    <3> QED BY <1>1, <3>1, <3>2, <3>3, <3>4, <3>5, <3>6, <3>7, <3>8, <3>9, <3>10
            DEF WorkerStep
  <2> QED BY <2>1, <2>2, <2>4
<1>3. ASSUME MainStep PROVE Control'
  <2> HIDE DEF WorkerControl
  <2>1. \A w \in Workers :
          stopping' # "no" /\ stopping = "no" => pc[w] = "closed"
    BY <1>3 DEF MainStep, logInfo, flushLog, flushed, stopLogger, closeNext,
         closedNext, closedAll, write, writtenByMain, joined
  <2>2. \A w \in Workers : WorkerControl(w)'
    BY <1>3, <2>1, MainFrame DEF WorkerControl
  <2>3. MainControl'
    <3>1. CASE logInfo
      BY <3>1 DEF logInfo
    <3>2. CASE flushLog
      BY <3>2 DEF flushLog, Q!waitUntilEmpty, Q!foundEmpty
    <3>3. CASE flushed
      BY <3>3 DEF flushed
    <3>4. CASE stopLogger
      BY <3>4 DEF stopLogger
    <3>5. CASE closeNext
      BY <3>5 DEF closeNext
    <3>6. CASE closedNext
      BY <3>6 DEF closedNext, flushNothing
    <3>7. CASE closedAll
      BY <3>7 DEF closedAll
    <3>8. CASE writtenByMain
      BY <3>8 DEF writtenByMain
    <3>9. CASE joined
      BY <3>9 DEF joined
    <3>10. CASE write(Main)
      BY <3>10 DEF write
    <3> QED BY <1>3, <3>1, <3>2, <3>3, <3>4, <3>5, <3>6, <3>7, <3>8, <3>9, <3>10
            DEF MainStep
  <2> QED BY <2>2, <2>3
<1>4. ASSUME callFlushLog PROVE Control'
  BY <1>4 DEF callFlushLog
<1>5. ASSUME loggerMain \/ Stopped \/ UNCHANGED vars PROVE Control'
  BY <1>5 DEF Stopped, loggerMain
<1> QED BY <1>1, <1>3, <1>4, <1>5 DEF Next

LEMMA AnnouncedStep == IInv /\ [Next]_vars => Announced'
<1> SUFFICES ASSUME TypeOK, Control, Announced, [Next]_vars PROVE Announced'
  BY DEF IInv
<1> USE Names, TypeParts
    DEF SmallTypes, Logged, Announced, ToWrite, goto, table, locks, stop, queue,
        print
<1>1. \A t \in Threads : logged[t] \in Nat
  BY DEF Lines
<1>2. ASSUME NEW w \in Workers, WorkerStep(w) PROVE Announced'
  <2>1. \A t \in Threads : t # w => (ToWrite(t)' => logged'[t] >= 1)
    BY <1>2, WorkerFrame
  <2>2. pc'[w] \in {"write", "prefix"} => logged'[w] >= 1
    <3>1. CASE handleMessage(w) \/ write(w)
      BY <1>1, <3>1 DEF handleMessage, write
    <3>2. CASE ~(handleMessage(w) \/ write(w))
      BY <1>2, <3>2
      DEF WorkerStep, requestJobHandle, written, closeJob, flush, flushWrite,
          flushLine, closed, leaveJob
    <3> QED BY <3>1, <3>2
  <2> QED BY <2>1, <2>2
<1>3. ASSUME MainStep PROVE Announced'
  <2>1. \A w \in Workers : ToWrite(w)' => logged'[w] >= 1
    BY <1>3, MainFrame
  <2>2. ToWrite(Main)' => logged'[Main] >= 1
    <3>1. CASE logInfo \/ write(Main) \/ closedAll
      BY <1>1, <3>1 DEF logInfo, write, closedAll
    <3>2. CASE writtenByMain
      BY <3>2 DEF writtenByMain
    <3>3. CASE ~(logInfo \/ write(Main) \/ closedAll \/ writtenByMain)
      BY <1>3, <3>3, Control
      DEF MainStep, flushLog, flushed, stopLogger, closeNext, closedNext, joined,
          Control, MainControl
    <3> QED BY <3>1, <3>2, <3>3
  <2> QED BY <2>1, <2>2 DEF Threads
<1>4. ASSUME callFlushLog PROVE Announced'
  BY <1>4 DEF callFlushLog
<1>5. ASSUME loggerMain \/ Stopped \/ UNCHANGED vars PROVE Announced'
  BY <1>5 DEF Stopped, loggerMain, vars
<1> QED BY <1>2, <1>3, <1>4, <1>5 DEF Next

-----------------------------------------------------------------------------
(* The queue and the stream *)

\* Whoever puts a message into the queue: no shutdown message is in it.
LEMMA QueueIsOpen ==
  ASSUME IInv, NEW t \in Threads, pc[t] \in {"prefix", "flushLines"}
  PROVE  /\ pc[Main] \notin {"join", "stopped"}
         /\ printer # "done"
         /\ \A n \in DOMAIN logger_queue : logger_queue[n] # Shutdown
         /\ \A w \in Workers : w # t => pc[w] \notin {"prefix", "flushLines"}
<1>1. pc[Main] \notin {"join", "stopped"}
  BY Names DEF IInv, Control, MainControl, WorkerControl, Threads
<1>2. \A w \in Workers : w # t => pc[w] \notin {"prefix", "flushLines"}
  BY Names DEF IInv, LocksHeld
<1> QED BY <1>1, <1>2 DEF IInv, EndOfQueue

\* What is written is not the shutdown message unless it is meant to be.
LEMMA WhatIsWritten ==
  ASSUME IInv, NEW t \in Threads, pc[t] = "prefix"
  PROVE  Message(t) = IF ToWrite(t) THEN Line(t, logged[t]) ELSE Shutdown
BY DEF ToWrite, Message

LEMMA QueueGrows ==
  ASSUME IInv, NEW t \in Threads, pc[t] \in {"prefix", "flushLines"},
         NEW m \in Messages, logger_queue' = Append(logger_queue, m),
         UNCHANGED print,
         pc'[Main] \notin {"stopped", "join"} \/ t = Main,
         pc'[Main] # "stopped",
         m = Shutdown => pc'[Main] = "join"
  PROVE  EndOfQueue'
<1>1. /\ \A n \in DOMAIN logger_queue : logger_queue[n] # Shutdown
      /\ printer # "done"
  BY QueueIsOpen
<1>2. logger_queue \in Seq(Messages)
  BY TypeParts DEF IInv, ListsTyped
<1>3. \A n \in DOMAIN logger_queue' :
        \/ n = Len(logger_queue') /\ logger_queue'[n] = m
        \/ n \in DOMAIN logger_queue /\ logger_queue'[n] = logger_queue[n]
  BY <1>2
<1>4. logger_queue' # <<>>
  BY <1>2, ListTypes
<1> QED BY <1>1, <1>3, <1>4 DEF IInv, EndOfQueue, print

LEMMA EndOfQueueStep == IInv /\ [Next]_vars => EndOfQueue'
<1> SUFFICES ASSUME IInv, [Next]_vars PROVE EndOfQueue'
  OBVIOUS
<1> USE Names DEF table, locks, stop, queue, print
<1>0. /\ DOMAIN pc = Threads /\ EndOfQueue /\ Control
      /\ logger_queue \in Seq(Messages) /\ printed \in Seq(Messages)
      /\ Logged /\ ListsTyped
  BY TypeParts DEF IInv, SmallTypes, ListsTyped
<1>1. ASSUME UNCHANGED <<logger_queue, print>>,
             pc'[Main] = pc[Main] \/ (pc[Main] \notin {"join", "stopped"} /\ pc'[Main] # "stopped")
      PROVE  EndOfQueue'
  BY <1>0, <1>1 DEF EndOfQueue
<1>2. ASSUME NEW w \in Workers, WorkerStep(w) PROVE EndOfQueue'
  <2>1. UNCHANGED print /\ pc'[Main] = pc[Main]
    BY <1>2, WorkerFrame DEF IInv
  <2>2. CASE written(w)
    <3>1. pc[w] = "prefix" /\ logger_queue' = Append(logger_queue, Message(w))
      BY <2>2 DEF written, enqueue, Q!enqueue
    <3>2. Message(w) \in Messages /\ Message(w).from = w
      BY <1>0, MessageTypes DEF Message, Line
    <3> QED BY <2>1, <3>1, <3>2, QueueGrows, QueueIsOpen, ShutdownMessage
  <2>3. CASE flushLine(w, w) \/ flushLast(w, w)
    <3>1. /\ pc[w] = "flushLines" /\ buffer[w] # <<>>
          /\ logger_queue' = Append(logger_queue, Line(w, Head(buffer[w])))
      BY <2>3, <1>0 DEF flushLine, flushLast, Q!enqueue, IInv, Control, WorkerControl
    <3>2. Line(w, Head(buffer[w])) \in Messages /\ Line(w, Head(buffer[w])).from = w
      BY <1>0, <3>1, MessageTypes DEF Line
    <3> QED BY <2>1, <3>1, <3>2, QueueGrows, QueueIsOpen, ShutdownMessage
  <2>4. CASE UNCHANGED logger_queue
    BY <1>1, <2>1, <2>4
  <2> QED BY <1>2, <2>2, <2>3, <2>4
          DEF WorkerStep, requestJobHandle, handleMessage, write, closeJob,
              flush, flushWrite, closed, leaveJob, flushNothing
<1>3. ASSUME MainStep PROVE EndOfQueue'
  <2>1. CASE writtenByMain
    <3>1. /\ pc[Main] = "prefix" /\ logger_queue' = Append(logger_queue, Message(Main))
          /\ UNCHANGED print /\ pc'[Main] # "stopped"
          /\ stopping = "shutdown" => pc'[Main] = "join"
      BY <1>0, <2>1 DEF writtenByMain, enqueue, Q!enqueue, goto
    <3>2. Message(Main) \in Messages
      BY <1>0, MessageTypes
    <3>3. Message(Main) = Shutdown => stopping = "shutdown"
      <4>1. ToWrite(Main) => logged[Main] >= 1 /\ logged[Main] \in Lines
        BY <1>0 DEF IInv, Announced, Logged
      <4> QED BY <3>1, <4>1, WhatIsWritten, Message1 DEF ToWrite
    <3> QED BY <3>1, <3>2, <3>3, QueueGrows
  <2>2. CASE joined
    BY <1>0, <2>2 DEF joined, EndOfQueue, goto
  <2>3. CASE ~(writtenByMain \/ joined)
    BY <1>0, <1>1, <1>3, <2>3
    DEF MainStep, logInfo, flushLog, flushed, stopLogger, closeNext, closedNext,
        closedAll, write, flushNothing, Q!waitUntilEmpty, Q!foundEmpty, goto
  <2> QED BY <2>1, <2>2, <2>3
<1>4. ASSUME callFlushLog PROVE EndOfQueue'
  BY <1>0, <1>1, <1>4 DEF callFlushLog, goto
<1>5. ASSUME loggerMain PROVE EndOfQueue'
  <2>1. CASE printHead
    <3>1. UNCHANGED <<logger_queue, pc>>
      BY <1>5, <2>1 DEF loggerMain, printHead, Q!waitForItem, Q!head
    <3>2. CASE UNCHANGED <<printer, printed>>
      BY <1>1, <3>1, <3>2
    <3>3. CASE ~UNCHANGED <<printer, printed>>
      <4>1. /\ printer' = "dequeue" /\ logger_queue # <<>>
            /\ \/ UNCHANGED printed
               \/ /\ Head(logger_queue) # Shutdown
                  /\ printed' = Append(printed, Head(logger_queue))
        BY <2>1, <3>3 DEF printHead
      <4>2. \A n \in DOMAIN printed' : printed'[n] # Shutdown
        <5>1. CASE UNCHANGED printed
          BY <1>0, <5>1 DEF EndOfQueue
        <5>2. CASE ~UNCHANGED printed
          BY <1>0, <4>1, <5>2, ElemsOfAppend DEF EndOfQueue
        <5> QED BY <5>1, <5>2
      <4>3. pc[Main] # "stopped"
        BY <1>0, <2>1 DEF printHead, EndOfQueue
      <4> QED BY <1>0, <3>1, <4>1, <4>2, <4>3 DEF EndOfQueue
    <3> QED BY <3>2, <3>3
  <2>2. CASE printDone
    <3>1. /\ logger_queue # <<>> /\ logger_queue' = Tail(logger_queue)
          /\ UNCHANGED <<pc, printed>> /\ printer = "dequeue"
          /\ printer' = IF Head(logger_queue) = Shutdown THEN "done" ELSE "head"
      BY <1>5, <2>2 DEF loggerMain, printDone, Q!dequeue
    <3>2. /\ Len(logger_queue) \in Nat /\ Len(logger_queue) > 0
          /\ Len(Tail(logger_queue)) = Len(logger_queue) - 1
          /\ DOMAIN Tail(logger_queue) = 1..Len(logger_queue) - 1
          /\ DOMAIN logger_queue = 1..Len(logger_queue)
          /\ \A n \in 1..Len(logger_queue) - 1 : Tail(logger_queue)[n] = logger_queue[n + 1]
          /\ Head(logger_queue) = logger_queue[1]
      BY <1>0, <3>1
    <3>3. \A n \in DOMAIN logger_queue' :
            logger_queue'[n] = Shutdown => n = Len(logger_queue') /\ pc[Main] = "join"
      BY <1>0, <3>1, <3>2 DEF EndOfQueue
    <3>4. Head(logger_queue) = Shutdown => Len(logger_queue) = 1 /\ pc[Main] = "join"
      BY <1>0, <3>2 DEF EndOfQueue
    <3>5. Head(logger_queue) = Shutdown => logger_queue' = <<>>
      <4>1. Len(logger_queue) = 1 => Tail(logger_queue) = <<>>
        BY <1>0, <3>1
      <4> QED BY <3>1, <3>4, <4>1
    <3>6. pc[Main] # "stopped"
      BY <1>0, <3>1 DEF EndOfQueue
    <3> QED BY <1>0, <3>1, <3>3, <3>4, <3>5, <3>6 DEF EndOfQueue
  <2> QED BY <1>5, <2>1, <2>2 DEF loggerMain
<1>6. ASSUME Stopped \/ UNCHANGED vars PROVE EndOfQueue'
  BY <1>1, <1>6 DEF Stopped, vars
<1> QED BY <1>2, <1>3, <1>4, <1>5, <1>6 DEF Next

LEMMA StreamTypes ==
  ASSUME ListsTyped, EndOfQueue
  PROVE  /\ rest \in Seq(Messages) /\ stream \in Seq(Messages)
         /\ Len(printed) \in Nat /\ Len(stream) \in Nat
         /\ DOMAIN printed = 1..Len(printed) /\ DOMAIN stream = 1..Len(stream)
         /\ Len(printed) <= Len(stream)
         /\ \A n \in DOMAIN printed : stream[n] = printed[n]
         /\ \A n \in DOMAIN stream : stream[n] \in Messages
<1>1. rest \in Seq(Messages)
  BY ListTypes DEF rest, ListsTyped, EndOfQueue
<1>2. stream \in Seq(Messages)
  BY <1>1, ConcatPrefix DEF stream, ListsTyped
<1>3. \A n \in 1..Len(stream) : stream[n] \in Messages
  BY <1>2
<1> QED BY <1>1, <1>2, <1>3, ConcatPrefix DEF stream, ListsTyped

LEMMA StreamTyped == ListsTyped /\ EndOfQueue => stream \in Seq(Messages)
BY StreamTypes

LEMMA StreamTypedNext ==
  ListsTyped' /\ EndOfQueue' => stream' \in Seq(Messages)
<1>1. (ListsTyped /\ EndOfQueue => stream \in Seq(Messages))'
  BY StreamTyped, PTL
<1> QED BY <1>1 DEF Messages

\* A message that is queued comes at the end of the stream.
LEMMA StreamGrows ==
  ASSUME ListsTyped, EndOfQueue, NEW m \in Messages,
         logger_queue' = Append(logger_queue, m), UNCHANGED print
  PROVE  stream' = Append(stream, m)
<1>1. rest' = Append(rest, m)
  BY TailOfAppend DEF rest, ListsTyped, EndOfQueue, print
<1>2. stream' = printed \o Append(rest, m)
  BY <1>1 DEF stream, print
<1>3. printed \in Seq(Messages) /\ rest \in Seq(Messages)
  BY StreamTypes DEF ListsTyped
<1>4. printed \o Append(rest, m) = Append(printed \o rest, m)
  BY <1>3, ConcatAppend
<1> QED BY <1>2, <1>4 DEF stream

\* Acting on a message does not change the stream, except that the shutdown
\* message, its last, is not printed.
LEMMA StreamSettles ==
  ASSUME ListsTyped, EndOfQueue, loggerMain
  PROVE  \/ stream' = stream
         \/ stream = Append(stream', Shutdown) /\ pc[Main] = "join"
<1> USE DEF loggerMain, queue
<1>1. CASE printDone
  BY <1>1 DEF printDone, Q!dequeue, stream, rest
<1>2. CASE printHead
  <2>1. UNCHANGED <<printer, printed, logger_queue>> =>  stream' = stream
    BY DEF stream, rest
  <2>2. CASE ~UNCHANGED <<printer, printed, logger_queue>>
    <3>1. /\ logger_queue # <<>> /\ logger_queue' = logger_queue
          /\ printer = "head" /\ printer' = "dequeue"
          /\ printed' = IF Head(logger_queue) = Shutdown THEN printed
                        ELSE Append(printed, Head(logger_queue))
      BY <1>2, <2>2 DEF printHead, Q!waitForItem, Q!head
    <3>2. stream' = printed' \o Tail(logger_queue) /\ stream = printed \o logger_queue
      BY <3>1 DEF stream, rest
    <3>3. CASE Head(logger_queue) # Shutdown
      BY <3>1, <3>2, <3>3, ConcatShift DEF ListsTyped
    <3>4. CASE Head(logger_queue) = Shutdown
      <4>1. Len(logger_queue) = 1 /\ pc[Main] = "join"
        <5>1. 1 \in DOMAIN logger_queue /\ Head(logger_queue) = logger_queue[1]
          BY <3>1 DEF ListsTyped
        <5> QED BY <3>4, <5>1 DEF EndOfQueue
      <4>2. Tail(logger_queue) = <<>>
        BY <4>1, <3>1, TailOfSingle DEF ListsTyped
      <4>3. stream' = printed
        BY <3>1, <3>2, <3>4, <4>2, ConcatEmptySeq DEF ListsTyped
      <4>4. stream = Append(printed, Shutdown) \o <<>>
        BY <3>1, <3>2, <3>4, <4>2, ConcatShift DEF ListsTyped
      <4>5. Append(printed, Shutdown) \in Seq(Messages)
        BY ListTypes, ShutdownMessage DEF ListsTyped
      <4> QED BY <4>1, <4>3, <4>4, <4>5, ConcatEmptySeq
    <3> QED BY <3>3, <3>4
  <2> QED BY <2>1, <2>2
<1> QED BY <1>1, <1>2

-----------------------------------------------------------------------------
(* What a step does to the stream, in general: nothing that matters, ...   *)

LEMMA Calm ==
  ASSUME StreamInv, Logged, ListsTyped, EndOfQueue, buffered \subseteq Workers,
         UNCHANGED <<stream, logged, buffer, buffered>>,
         \A t \in Threads : ToWrite(t)' <=> ToWrite(t),
         \A w \in Workers :
           /\ pc[w] = "closed" => pc'[w] = "closed"
           /\ pc[w] = "flushLines" => pc'[w] = "flushLines"
  PROVE  StreamInv'
<1> USE DEF StreamInv
<1>1. Buffers'
  BY DEF Buffers
<1>2. Bounds'
  <2> SUFFICES ASSUME NEW n \in DOMAIN stream, stream[n] # Shutdown,
                      NEW t, t = stream[n].from, NEW l, l = stream[n].line
               PROVE  /\ l \in 1..logged[t]
                      /\ ToWrite(t)' => l < logged[t]
                      /\ t \in buffered =>
                           /\ pc'[t] \in {"flushLines", "closed"}
                           /\ pc'[t] = "flushLines" => stream[Len(stream)].from = t
                           /\ \A k \in DOMAIN buffer[t] : l < buffer[t][k]
    BY DEF Bounds, Bounded
  <2>1. t \in Threads
    BY StreamTypes DEF Messages
  <2> QED BY <2>1 DEF Bounds, Bounded
<1>3. InOrder'
  BY DEF InOrder
<1>4. Complete'
  BY DEF Complete, Sent
<1> QED BY <1>1, <1>2, <1>3, <1>4

\* ... or a line is announced, ...
LEMMA Announcing ==
  ASSUME StreamInv, Logged, ListsTyped, EndOfQueue, buffered \subseteq Workers,
         NEW t \in Threads, ~ToWrite(t), ToWrite(t)',
         \A s \in Threads : s # t => pc'[s] = pc[s] /\ (ToWrite(s)' <=> ToWrite(s)),
         t \notin buffered,
         logged' = [logged EXCEPT ![t] = @ + 1],
         UNCHANGED <<stream, buffer, buffered>>
  PROVE  StreamInv'
<1> USE DEF StreamInv
<1>0. /\ \A s \in Threads : logged[s] \in Nat /\ (s # t => logged'[s] = logged[s])
      /\ logged'[t] = logged[t] + 1
  BY DEF Logged, Lines
<1>1. Buffers'
  BY <1>0, Names DEF Buffers
<1>2. Bounds'
  <2> SUFFICES ASSUME NEW n \in DOMAIN stream', stream'[n] # Shutdown
               PROVE  Bounded(n)'
    BY DEF Bounds
  <2> SUFFICES ASSUME NEW s, s = stream'[n].from, NEW l, l = stream'[n].line
               PROVE  /\ l \in 1..logged'[s]
                      /\ ToWrite(s)' => l < logged'[s]
                      /\ s \in buffered =>
                           /\ pc'[s] \in {"flushLines", "closed"}
                           /\ pc'[s] = "flushLines" => stream[Len(stream)].from = s
                           /\ \A k \in DOMAIN buffer[s] : l < buffer[s][k]
    BY DEF Bounds, Bounded
  <2>1. s \in Threads
    BY StreamTypes DEF Messages
  <2>2. /\ l \in 1..logged[s]
        /\ ToWrite(s) => l < logged[s]
        /\ s \in buffered =>
             /\ pc[s] \in {"flushLines", "closed"}
             /\ pc[s] = "flushLines" => stream[Len(stream)].from = s
             /\ \A k \in DOMAIN buffer[s] : l < buffer[s][k]
    BY DEF Bounds, Bounded
  <2> QED BY <1>0, <2>1, <2>2
<1>3. InOrder'
  BY DEF InOrder
<1>4. Complete'
  <2> SUFFICES ASSUME NEW s \in Threads, NEW l \in 1..logged'[s]
               PROVE  \/ Sent(s, l)
                      \/ s \in Workers /\ \E n \in DOMAIN buffer[s] : buffer[s][n] = l
                      \/ ToWrite(s)' /\ l = logged'[s]
    BY DEF Complete, Sent
  <2>1. CASE s = t
    BY <1>0, <2>1 DEF Complete
  <2>2. CASE s # t
    BY <1>0, <2>2 DEF Complete
  <2> QED BY <2>1, <2>2
<1> QED BY <1>1, <1>2, <1>3, <1>4

\* ... or put into the buffer, ...
LEMMA Buffering ==
  ASSUME StreamInv, Logged, ListsTyped, EndOfQueue, buffered \subseteq Workers,
         NEW w \in Workers, pc[w] = "open",
         w \in buffered,
         logged' = [logged EXCEPT ![w] = @ + 1],
         buffer' = [buffer EXCEPT ![w] = Append(@, logged'[w])],
         UNCHANGED <<stream, pc, stopping, buffered>>
  PROVE  StreamInv'
<1> USE DEF StreamInv
<1>0. /\ \A s \in Threads : logged[s] \in Nat /\ (s # w => logged'[s] = logged[s])
      /\ w \in Threads
      /\ logged'[w] = logged[w] + 1
      /\ \A v \in Workers : v # w => buffer'[v] = buffer[v]
      /\ buffer'[w] = Append(buffer[w], logged'[w])
      /\ buffer[w] \in Seq(Lines)
  BY Names DEF Logged, Lines, ListsTyped
<1>a. /\ DOMAIN buffer[w] = 1..Len(buffer[w]) /\ Len(buffer[w]) \in Nat
      /\ DOMAIN buffer'[w] = 1..(Len(buffer[w]) + 1)
      /\ \A n \in DOMAIN buffer[w] : buffer'[w][n] = buffer[w][n]
      /\ buffer'[w][Len(buffer[w]) + 1] = logged'[w]
  BY <1>0, ElemsOfAppend
<1>b. \A n \in DOMAIN stream : stream[n].from = w => stream[n] = Shutdown
  BY DEF Bounds, Bounded
<1>1. Buffers'
  <2>1. \A n \in DOMAIN buffer[w] : buffer[w][n] \in 1..logged[w]
    BY DEF Buffers
  <2>2. \A m, n \in DOMAIN buffer'[w] : m < n => buffer'[w][m] < buffer'[w][n]
    BY <1>0, <1>a, <2>1 DEF Buffers
  <2>3. \A n \in DOMAIN buffer'[w] : buffer'[w][n] \in 1..logged'[w]
    BY <1>0, <1>a, <2>1
  <2>4. \A v \in Workers : v # w =>
          /\ buffer'[v] = buffer[v] /\ logged'[v] = logged[v]
    BY <1>0, Names
  <2> QED BY <2>2, <2>3, <2>4 DEF Buffers
<1>2. Bounds'
  <2> SUFFICES ASSUME NEW n \in DOMAIN stream', stream'[n] # Shutdown
               PROVE  Bounded(n)'
    BY DEF Bounds
  <2> SUFFICES ASSUME NEW s, s = stream'[n].from, NEW l, l = stream'[n].line
               PROVE  /\ l \in 1..logged'[s]
                      /\ ToWrite(s)' => l < logged'[s]
                      /\ s \in buffered =>
                           /\ pc[s] \in {"flushLines", "closed"}
                           /\ pc[s] = "flushLines" => stream[Len(stream)].from = s
                           /\ \A k \in DOMAIN buffer'[s] : l < buffer'[s][k]
    BY DEF Bounds, Bounded
  <2>1. s \in Threads /\ s # w
    BY <1>b, StreamTypes DEF Messages
  <2>2. logged'[s] = logged[s] /\ (s \in Workers => buffer'[s] = buffer[s])
        /\ (ToWrite(s)' <=> ToWrite(s))
    BY <1>0, <2>1 DEF ToWrite
  <2>3. /\ l \in 1..logged[s]
        /\ ToWrite(s) => l < logged[s]
        /\ s \in buffered =>
             /\ pc[s] \in {"flushLines", "closed"}
             /\ pc[s] = "flushLines" => stream[Len(stream)].from = s
             /\ \A k \in DOMAIN buffer[s] : l < buffer[s][k]
    BY DEF Bounds, Bounded
  <2> QED BY <2>2, <2>3
<1>3. InOrder'
  BY DEF InOrder
<1>4. Complete'
  <2> SUFFICES ASSUME NEW s \in Threads, NEW l \in 1..logged'[s]
               PROVE  \/ Sent(s, l)
                      \/ s \in Workers /\ \E n \in DOMAIN buffer'[s] : buffer'[s][n] = l
                      \/ ToWrite(s) /\ l = logged'[s]
    BY DEF Complete, Sent, ToWrite
  <2>1. CASE s = w
    <3>1. CASE l = logged'[w]
      BY <1>a, <2>1, <3>1
    <3>2. CASE l # logged'[w]
      <4>1. l \in 1..logged[w] /\ ~ToWrite(w)
        BY <1>0, <2>1, <3>2 DEF ToWrite
      <4>2. Sent(w, l) \/ \E n \in DOMAIN buffer[w] : buffer[w][n] = l
        BY <1>0, <4>1, Names DEF Complete
      <4>3. ASSUME NEW n \in DOMAIN buffer[w], buffer[w][n] = l
            PROVE  n \in DOMAIN buffer'[w] /\ buffer'[w][n] = l
        BY <1>a, <4>3
      <4> QED BY <1>0, <2>1, <4>2, <4>3
    <3> QED BY <3>1, <3>2
  <2>2. CASE s # w
    BY <1>0, <2>2 DEF Complete
  <2> QED BY <2>1, <2>2
<1> QED BY <1>1, <1>2, <1>3, <1>4

\* The facts about a stream that has grown.
LEMMA Grown ==
  ASSUME ListsTyped, EndOfQueue, NEW m \in Messages, stream' = Append(stream, m)
  PROVE  /\ Len(stream) \in Nat /\ DOMAIN stream = 1..Len(stream)
         /\ DOMAIN stream' = 1..(Len(stream) + 1) /\ Len(stream') = Len(stream) + 1
         /\ stream'[Len(stream) + 1] = m
         /\ \A n \in DOMAIN stream : stream'[n] = stream[n]
BY StreamTypes, ElemsOfAppend

\* ... or a line that was announced is written, ...
LEMMA WritingLine ==
  ASSUME StreamInv, Logged, ListsTyped, EndOfQueue, buffered \subseteq Workers,
         \A n \in DOMAIN stream : stream[n] # Shutdown,
         \A w \in buffered : pc[w] # "flushLines",
         NEW t \in Threads, ToWrite(t), ~ToWrite(t)', t \notin buffered,
         logged[t] >= 1,
         \A s \in Threads : s # t => pc'[s] = pc[s] /\ (ToWrite(s)' <=> ToWrite(s)),
         stream' = Append(stream, Line(t, logged[t])),
         UNCHANGED <<logged, buffer, buffered>>
  PROVE  StreamInv'
<1> USE DEF StreamInv
<1>0. /\ \A s \in Threads : logged[s] \in Nat
      /\ Line(t, logged[t]) \in Messages /\ Line(t, logged[t]) # Shutdown
      /\ Line(t, logged[t]).from = t /\ Line(t, logged[t]).line = logged[t]
  BY Message1 DEF Logged, Lines
<1>a. /\ Len(stream) \in Nat /\ DOMAIN stream = 1..Len(stream)
      /\ DOMAIN stream' = 1..(Len(stream) + 1) /\ Len(stream') = Len(stream) + 1
      /\ stream'[Len(stream) + 1] = Line(t, logged[t])
      /\ \A n \in DOMAIN stream : stream'[n] = stream[n]
  BY <1>0, Grown
<1>b. \A n \in DOMAIN stream : stream[n].from \in Threads
  BY StreamTypes DEF Messages
<1>1. Buffers'
  BY DEF Buffers
<1>2. Bounds'
  <2> SUFFICES ASSUME NEW n \in DOMAIN stream', stream'[n] # Shutdown
               PROVE  Bounded(n)'
    BY DEF Bounds
  <2> SUFFICES ASSUME NEW s, s = stream'[n].from, NEW l, l = stream'[n].line
               PROVE  /\ l \in 1..logged[s]
                      /\ ToWrite(s)' => l < logged[s]
                      /\ s \in buffered =>
                           /\ pc'[s] \in {"flushLines", "closed"}
                           /\ pc'[s] = "flushLines" => stream'[Len(stream')].from = s
                           /\ \A k \in DOMAIN buffer[s] : l < buffer[s][k]
    BY DEF Bounded, ToWrite
  <2>1. CASE n \in DOMAIN stream
    <3>1. /\ stream[n] # Shutdown /\ s = stream[n].from /\ l = stream[n].line
          /\ s \in Threads
      BY <1>a, <1>b, <2>1
    <3>2. /\ l \in 1..logged[s]
          /\ ToWrite(s) => l < logged[s]
          /\ s \in buffered =>
               /\ pc[s] \in {"flushLines", "closed"}
               /\ \A k \in DOMAIN buffer[s] : l < buffer[s][k]
      BY <2>1, <3>1 DEF Bounds, Bounded
    <3> QED BY <3>1, <3>2
  <2>2. CASE n = Len(stream) + 1
    BY <1>0, <1>a, <2>2
  <2>3. n \in DOMAIN stream \/ n = Len(stream) + 1
    BY <1>a
  <2> QED BY <2>1, <2>2, <2>3
<1>3. InOrder'
  <2> SUFFICES ASSUME NEW m \in DOMAIN stream', NEW n \in DOMAIN stream',
                      m < n, stream'[m].from = stream'[n].from
               PROVE  /\ stream'[m].line < stream'[n].line
                      /\ stream'[m].from \in buffered =>
                           \A k \in m..n : stream'[k].from = stream'[m].from
    BY DEF InOrder
  <2>1. CASE n \in DOMAIN stream
    <3>1. m \in DOMAIN stream /\ \A k \in m..n : k \in DOMAIN stream
      BY <1>a, <2>1
    <3> QED BY <1>a, <2>1, <3>1 DEF InOrder
  <2>2. CASE n = Len(stream) + 1
    <3>1. m \in DOMAIN stream
      BY <1>a, <2>2
    <3>2. stream[m].from = t /\ stream'[m] = stream[m] /\ stream'[n].line = logged[t]
      BY <1>0, <1>a, <2>2, <3>1
    <3>3. stream[m].line < logged[t]
      BY <3>1, <3>2 DEF Bounds, Bounded
    <3> QED BY <3>2, <3>3
  <2> QED BY <1>a, <2>1, <2>2
<1>4. Complete'
  <2> SUFFICES ASSUME NEW s \in Threads, NEW l \in 1..logged[s]
               PROVE  \/ Sent(s, l)'
                      \/ s \in Workers /\ \E n \in DOMAIN buffer[s] : buffer[s][n] = l
                      \/ ToWrite(s)' /\ l = logged[s]
    BY DEF Complete
  <2>1. CASE s = t /\ l = logged[t]
    BY <1>a, <2>1 DEF Sent
  <2>2. CASE ~(s = t /\ l = logged[t])
    <3>1. Sent(s, l) => Sent(s, l)'
      BY <1>a DEF Sent
    <3> QED BY <2>2, <3>1 DEF Complete
  <2> QED BY <2>1, <2>2
<1> QED BY <1>1, <1>2, <1>3, <1>4

\* ... or the first line of the buffer, ...
LEMMA WritingBuffered ==
  ASSUME StreamInv, Logged, ListsTyped, EndOfQueue, buffered \subseteq Workers,
         \A n \in DOMAIN stream : stream[n] # Shutdown,
         NEW w \in buffered, pc[w] = "flushLines", buffer[w] # <<>>,
         \A v \in Workers : v # w => pc[v] # "flushLines",
         \A s \in Threads : s # w => pc'[s] = pc[s] /\ (ToWrite(s)' <=> ToWrite(s)),
         pc'[w] = "flushLines" \/ pc'[w] = "closed",
         stream' = Append(stream, Line(w, Head(buffer[w]))),
         buffer' = [buffer EXCEPT ![w] = Tail(@)],
         UNCHANGED <<logged, buffered>>
  PROVE  StreamInv'
<1> USE DEF StreamInv
<1> DEFINE first == Head(buffer[w])
<1>0. /\ w \in Threads /\ w \in Workers
      /\ \A s \in Threads : logged[s] \in Nat
      /\ \A v \in Workers : v # w => buffer'[v] = buffer[v]
      /\ buffer'[w] = Tail(buffer[w])
      /\ buffer[w] \in Seq(Lines)
  BY Names DEF Logged, Lines, ListsTyped
<1>a. /\ first = buffer[w][1] /\ first \in Lines
      /\ DOMAIN buffer[w] = 1..Len(buffer[w]) /\ Len(buffer[w]) \in Nat
      /\ Len(buffer[w]) > 0
      /\ DOMAIN buffer'[w] = 1..(Len(buffer[w]) - 1)
      /\ \A n \in DOMAIN buffer'[w] :
           n \in Nat /\ n + 1 \in DOMAIN buffer[w] /\ buffer'[w][n] = buffer[w][n + 1]
  <2>1. /\ DOMAIN buffer[w] = 1..Len(buffer[w]) /\ Len(buffer[w]) \in Nat
        /\ Len(buffer[w]) > 0 /\ first = buffer[w][1]
    BY <1>0
  <2>2. /\ first \in Lines
        /\ Tail(buffer[w]) \in Seq(Lines)
        /\ Len(Tail(buffer[w])) = Len(buffer[w]) - 1
        /\ \A n \in 1..Len(Tail(buffer[w])) : Tail(buffer[w])[n] = buffer[w][n + 1]
    BY <1>0, HeadTailProperties
  <2>3. DOMAIN Tail(buffer[w]) = 1..Len(Tail(buffer[w]))
    BY <2>2
  <2>4. \A n \in 1..(Len(buffer[w]) - 1) :
          n \in Nat /\ n + 1 \in 1..Len(buffer[w])
    BY <2>1
  <2> HIDE DEF first
  <2> QED BY <1>0, <2>1, <2>2, <2>3, <2>4
<1>b. first \in 1..logged[w] /\ \A k \in DOMAIN buffer'[w] : first < buffer'[w][k]
  BY <1>0, <1>a DEF Buffers
<1>c. /\ Line(w, first) \in Messages /\ Line(w, first) # Shutdown
      /\ Line(w, first).from = w /\ Line(w, first).line = first
  BY <1>0, <1>a, <1>b, Message1
<1>d. /\ Len(stream) \in Nat /\ DOMAIN stream = 1..Len(stream)
      /\ DOMAIN stream' = 1..(Len(stream) + 1) /\ Len(stream') = Len(stream) + 1
      /\ stream'[Len(stream) + 1] = Line(w, first)
      /\ \A n \in DOMAIN stream : stream'[n] = stream[n]
  BY <1>c, Grown
<1>e. \A n \in DOMAIN stream : stream[n].from \in Threads
  BY StreamTypes DEF Messages
<1>f. ~ToWrite(w)' /\ ~ToWrite(w)
  BY DEF ToWrite
<1> HIDE DEF first
<1>1. Buffers'
  <2>1. \A m, n \in DOMAIN buffer'[w] : m < n => buffer'[w][m] < buffer'[w][n]
    <3>1. \A m, n \in DOMAIN buffer[w] : m < n => buffer[w][m] < buffer[w][n]
      BY <1>0 DEF Buffers
    <3> TAKE m, n \in DOMAIN buffer'[w]
    <3>2. /\ m \in Nat /\ n \in Nat
          /\ m + 1 \in DOMAIN buffer[w] /\ buffer'[w][m] = buffer[w][m + 1]
          /\ n + 1 \in DOMAIN buffer[w] /\ buffer'[w][n] = buffer[w][n + 1]
      BY <1>a
    <3>3. m < n => m + 1 < n + 1
      BY <3>2
    <3> QED BY <3>1, <3>2, <3>3
  <2>2. \A n \in DOMAIN buffer'[w] : buffer'[w][n] \in 1..logged[w]
    BY <1>0, <1>a DEF Buffers
  <2> QED BY <1>0, <2>1, <2>2 DEF Buffers
<1>2. Bounds'
  <2> SUFFICES ASSUME NEW n \in DOMAIN stream', stream'[n] # Shutdown
               PROVE  Bounded(n)'
    BY DEF Bounds
  <2> SUFFICES ASSUME NEW s, s = stream'[n].from, NEW l, l = stream'[n].line
               PROVE  /\ l \in 1..logged[s]
                      /\ ToWrite(s)' => l < logged[s]
                      /\ s \in buffered =>
                           /\ pc'[s] \in {"flushLines", "closed"}
                           /\ pc'[s] = "flushLines" => stream'[Len(stream')].from = s
                           /\ \A k \in DOMAIN buffer'[s] : l < buffer'[s][k]
    BY DEF Bounded, ToWrite
  <2>1. CASE n \in DOMAIN stream
    <3>1. /\ stream[n] # Shutdown /\ s = stream[n].from /\ l = stream[n].line
          /\ s \in Threads
      BY <1>d, <1>e, <2>1
    <3>2. /\ l \in 1..logged[s]
          /\ ToWrite(s) => l < logged[s]
          /\ s \in buffered =>
               /\ pc[s] \in {"flushLines", "closed"}
               /\ \A k \in DOMAIN buffer[s] : l < buffer[s][k]
      BY <2>1, <3>1 DEF Bounds, Bounded
    <3>3. CASE s = w
      <4>1. \A k \in DOMAIN buffer[w] : l < buffer[w][k]
        BY <3>2, <3>3
      <4>2. \A k \in DOMAIN buffer'[w] : l < buffer'[w][k]
        BY <1>a, <4>1
      <4>3. stream'[Len(stream')].from = w
        BY <1>c, <1>d
      <4> QED BY <1>f, <3>2, <3>3, <4>2, <4>3
    <3>4. CASE s # w
      <4>1. s \in buffered => buffer'[s] = buffer[s] /\ pc'[s] = pc[s] /\ pc[s] # "flushLines"
        BY <1>0, <3>1, <3>4
      <4> QED BY <3>1, <3>2, <3>4, <4>1
    <3> QED BY <3>3, <3>4
  <2>2. CASE n = Len(stream) + 1
    <3>1. s = w /\ l = first /\ stream'[Len(stream')].from = w
      BY <1>c, <1>d, <2>2
    <3> QED BY <1>b, <1>f, <3>1
  <2>3. n \in DOMAIN stream \/ n = Len(stream) + 1
    BY <1>d
  <2> QED BY <2>1, <2>2, <2>3
<1>3. InOrder'
  <2> SUFFICES ASSUME NEW m \in DOMAIN stream', NEW n \in DOMAIN stream',
                      m < n, stream'[m].from = stream'[n].from
               PROVE  /\ stream'[m].line < stream'[n].line
                      /\ stream'[m].from \in buffered =>
                           \A k \in m..n : stream'[k].from = stream'[m].from
    BY DEF InOrder
  <2>1. CASE n \in DOMAIN stream
    <3>1. m \in DOMAIN stream /\ \A k \in m..n : k \in DOMAIN stream
      BY <1>d, <2>1
    <3> QED BY <1>d, <2>1, <3>1 DEF InOrder
  <2>2. CASE n = Len(stream) + 1
    <3>1. m \in DOMAIN stream
      BY <1>d, <2>2
    <3>2. stream[m].from = w /\ stream'[m] = stream[m] /\ stream'[n].line = first
          /\ stream'[n].from = w
      BY <1>c, <1>d, <2>2, <3>1
    <3>3. /\ stream[m].line < first
          /\ stream[Len(stream)].from = w
      BY <1>a, <3>1, <3>2 DEF Bounds, Bounded
    <3>4. ASSUME NEW k \in m..n PROVE stream'[k].from = w
      <4>1. CASE k = n
        BY <3>2, <4>1
      <4>2. CASE k # n
        <5>1. k \in m..Len(stream) /\ k \in DOMAIN stream /\ Len(stream) \in DOMAIN stream
          BY <1>d, <2>2, <3>1, <4>2
        <5>2. m < Len(stream) => stream[k].from = w
          BY <3>2, <3>3, <3>1, <5>1 DEF InOrder
        <5>3. m = Len(stream) => k = m
          BY <1>d, <3>1, <5>1
        <5>4. m < Len(stream) \/ m = Len(stream)
          BY <1>d, <3>1
        <5> QED BY <1>d, <3>2, <5>1, <5>2, <5>3, <5>4
      <4> QED BY <4>1, <4>2
    <3> QED BY <3>2, <3>3, <3>4
  <2>3. n \in DOMAIN stream \/ n = Len(stream) + 1
    BY <1>d
  <2> QED BY <2>1, <2>2, <2>3
<1>4. Complete'
  <2> SUFFICES ASSUME NEW s \in Threads, NEW l \in 1..logged[s]
               PROVE  \/ Sent(s, l)'
                      \/ s \in Workers /\ \E n \in DOMAIN buffer'[s] : buffer'[s][n] = l
                      \/ ToWrite(s)' /\ l = logged[s]
    BY DEF Complete
  <2>1. CASE s = w /\ l = first
    BY <1>d, <2>1 DEF Sent
  <2>2. CASE ~(s = w /\ l = first)
    <3>1. Sent(s, l) => Sent(s, l)'
      BY <1>d DEF Sent
    <3>2. CASE s # w
      BY <1>0, <3>1, <3>2 DEF Complete
    <3>3. CASE s = w
      <4>1. ASSUME NEW n \in DOMAIN buffer[w], buffer[w][n] = l
            PROVE  \E k \in DOMAIN buffer'[w] : buffer'[w][k] = l
        <5>1. n # 1
          BY <1>a, <2>2, <3>3, <4>1
        <5>2. n - 1 \in DOMAIN buffer'[w] /\ buffer'[w][n - 1] = buffer[w][n]
          BY <1>a, <5>1
        <5> QED BY <4>1, <5>2
      <4> QED BY <1>f, <3>1, <3>3, <4>1 DEF Complete
    <3> QED BY <3>2, <3>3
  <2> QED BY <2>1, <2>2
<1> QED BY <1>1, <1>2, <1>3, <1>4

\* ... or the shutdown message comes, ...
LEMMA WritingShutdown ==
  ASSUME StreamInv, Logged, ListsTyped, EndOfQueue, buffered \subseteq Workers,
         \A n \in DOMAIN stream : stream[n] # Shutdown,
         \A t \in Threads : ~ToWrite(t)' /\ ~ToWrite(t),
         \A w \in Workers : pc[w] = "closed" /\ pc'[w] = "closed",
         stream' = Append(stream, Shutdown),
         UNCHANGED <<logged, buffer, buffered>>
  PROVE  StreamInv'
<1> USE DEF StreamInv
<1>a. /\ Len(stream) \in Nat /\ DOMAIN stream = 1..Len(stream)
      /\ DOMAIN stream' = 1..(Len(stream) + 1) /\ Len(stream') = Len(stream) + 1
      /\ stream'[Len(stream) + 1] = Shutdown
      /\ \A n \in DOMAIN stream : stream'[n] = stream[n]
  BY ShutdownMessage, Grown
<1>b. \A n \in DOMAIN stream : stream[n].from \in Threads
  BY StreamTypes DEF Messages
<1>1. Buffers'
  BY DEF Buffers
<1>2. Bounds'
  <2> SUFFICES ASSUME NEW n \in DOMAIN stream', stream'[n] # Shutdown
               PROVE  Bounded(n)'
    BY DEF Bounds
  <2> SUFFICES ASSUME NEW s, s = stream'[n].from, NEW l, l = stream'[n].line
               PROVE  /\ l \in 1..logged[s]
                      /\ ~ToWrite(s)'
                      /\ s \in buffered =>
                           /\ pc'[s] = "closed"
                           /\ \A k \in DOMAIN buffer[s] : l < buffer[s][k]
    BY DEF Bounded, ToWrite
  <2>1. /\ n \in DOMAIN stream
        /\ stream[n] # Shutdown /\ s = stream[n].from /\ l = stream[n].line
        /\ s \in Threads
    BY <1>a, <1>b
  <2> QED BY <2>1 DEF Bounds, Bounded
<1>3. InOrder'
  <2> SUFFICES ASSUME NEW m \in DOMAIN stream', NEW n \in DOMAIN stream',
                      m < n, stream'[m].from = stream'[n].from, stream'[n] # Shutdown
               PROVE  /\ stream'[m].line < stream'[n].line
                      /\ stream'[m].from \in buffered =>
                           \A k \in m..n : stream'[k].from = stream'[m].from
    BY DEF InOrder
  <2>1. n \in DOMAIN stream /\ m \in DOMAIN stream /\ \A k \in m..n : k \in DOMAIN stream
    BY <1>a
  <2> QED BY <1>a, <2>1 DEF InOrder
<1>4. Complete'
  <2>1. \A t, l : Sent(t, l) => Sent(t, l)'
    BY <1>a DEF Sent
  <2> QED BY <2>1 DEF Complete
<1> QED BY <1>1, <1>2, <1>3, <1>4

\* ... or leaves.
LEMMA DroppingShutdown ==
  ASSUME StreamInv, Logged, ListsTyped, EndOfQueue, ListsTyped', EndOfQueue',
         buffered \subseteq Workers,
         \A w \in Workers : pc[w] = "closed",
         stream = Append(stream', Shutdown),
         UNCHANGED <<logged, buffer, buffered, pc, stopping>>
  PROVE  StreamInv'
<1> USE DEF StreamInv
<1>0. stream' \in Seq(Messages)
  BY StreamTypedNext
<1>a. /\ Len(stream') \in Nat /\ DOMAIN stream' = 1..Len(stream')
      /\ DOMAIN stream = 1..(Len(stream') + 1)
      /\ stream[Len(stream') + 1] = Shutdown
      /\ \A n \in DOMAIN stream' : stream'[n] = stream[n]
  BY <1>0, ElemsOfAppend
<1>1. Buffers'
  BY DEF Buffers
<1>2. Bounds'
  <2> SUFFICES ASSUME NEW n \in DOMAIN stream', stream'[n] # Shutdown
               PROVE  Bounded(n)'
    BY DEF Bounds
  <2> SUFFICES ASSUME NEW s, s = stream'[n].from, NEW l, l = stream'[n].line
               PROVE  /\ l \in 1..logged[s]
                      /\ ToWrite(s) => l < logged[s]
                      /\ s \in buffered =>
                           /\ pc[s] = "closed"
                           /\ \A k \in DOMAIN buffer[s] : l < buffer[s][k]
    BY DEF Bounded, ToWrite
  <2>1. /\ n \in DOMAIN stream
        /\ stream[n] # Shutdown /\ s = stream[n].from /\ l = stream[n].line
    BY <1>a
  <2> QED BY <2>1 DEF Bounds, Bounded
<1>3. InOrder'
  <2> SUFFICES ASSUME NEW m \in DOMAIN stream', NEW n \in DOMAIN stream',
                      m < n, stream'[m].from = stream'[n].from, stream'[n] # Shutdown
               PROVE  /\ stream'[m].line < stream'[n].line
                      /\ stream'[m].from \in buffered =>
                           \A k \in m..n : stream'[k].from = stream'[m].from
    BY DEF InOrder
  <2>1. n \in DOMAIN stream /\ m \in DOMAIN stream
        /\ \A k \in m..n : k \in DOMAIN stream /\ k \in DOMAIN stream'
    BY <1>a
  <2> QED BY <1>a, <2>1 DEF InOrder
<1>4. Complete'
  <2>1. ASSUME NEW t \in Threads, NEW l \in 1..logged[t], Sent(t, l) PROVE Sent(t, l)'
    <3>1. PICK n \in DOMAIN stream : stream[n] = Line(t, l)
      BY <2>1 DEF Sent
    <3>2. Line(t, l).line = l /\ l # 0
      BY DEF Line, Logged, Lines
    <3>3. stream[n] # Shutdown
      BY <3>1, <3>2, ShutdownMessage
    <3>4. n \in DOMAIN stream' /\ stream'[n] = Line(t, l)
      BY <1>a, <3>1, <3>3
    <3> QED BY <3>4 DEF Sent
  <2> QED BY <2>1 DEF Complete, ToWrite
<1> QED BY <1>1, <1>2, <1>3, <1>4

\* No shutdown message in the queue, none in the stream.
LEMMA StreamIsOpen ==
  ASSUME ListsTyped, EndOfQueue,
         \A n \in DOMAIN logger_queue : logger_queue[n] # Shutdown
  PROVE  \A n \in DOMAIN stream : stream[n] # Shutdown
<1>1. Shutdown \notin Elems(logger_queue) /\ Shutdown \notin Elems(printed)
  BY DEF Elems, EndOfQueue
<1>2. Elems(rest) \subseteq Elems(logger_queue)
  BY ElemsOfTail DEF rest, ListsTyped, EndOfQueue
<1>3. Elems(stream) = Elems(printed) \cup Elems(rest)
  BY StreamTypes, ElemsOfConcat DEF stream, ListsTyped
<1>4. Shutdown \notin Elems(stream)
  BY <1>1, <1>2, <1>3
<1> QED BY <1>4 DEF Elems

-----------------------------------------------------------------------------
(* The steps of the program, by what they do to the stream *)

LEMMA InvParts ==
  IInv => /\ StreamInv /\ SmallTypes /\ Logged /\ ListsTyped /\ EndOfQueue
          /\ Control /\ LocksHeld /\ Announced
          /\ buffered \subseteq Workers /\ DOMAIN pc = Threads
BY TypeParts DEF IInv, SmallTypes

LEMMA StreamStepOfWorker ==
  ASSUME IInv, NEW w \in Workers, WorkerStep(w)
  PROVE  StreamInv'
<1> USE Names, InvParts DEF table, locks, stop, queue, print, goto
<1>1. /\ UNCHANGED <<buffered, stop, print>>
      /\ \A t \in Threads : t # w => pc'[t] = pc[t]
      /\ w \in Threads /\ w # Main
  BY WorkerFrame DEF IInv
<1>2. /\ \A t \in Threads : t # w => (ToWrite(t)' <=> ToWrite(t))
      /\ ToWrite(w) <=> pc[w] \in {"write", "prefix"}
      /\ ToWrite(w)' <=> pc'[w] \in {"write", "prefix"}
  BY <1>1 DEF ToWrite
<1>3. ASSUME UNCHANGED <<logger_queue, logged, buffer>>,
             ToWrite(w)' <=> ToWrite(w),
             pc[w] # "closed", pc[w] # "flushLines"
      PROVE  StreamInv'
  <2>1. stream' = stream
    BY <1>1, <1>3 DEF stream, rest
  <2> QED BY <1>1, <1>2, <1>3, <2>1, Calm
<1>4. CASE requestJobHandle(w) \/ write(w) \/ closeJob(w) \/ flush(w, w)
           \/ flushWrite(w) \/ leaveJob(w)
  BY <1>2, <1>3, <1>4
  DEF requestJobHandle, write, closeJob, flush, flushWrite, leaveJob
<1>5. CASE handleMessage(w)
  <2>1. stream' = stream
    BY <1>5 DEF handleMessage, stream, rest
  <2>2. CASE w \in buffered
    BY <1>1, <1>5, <2>1, <2>2, Buffering DEF handleMessage
  <2>3. CASE w \notin buffered
    <3>1. ~ToWrite(w) /\ ToWrite(w)'
      BY <1>2, <1>5, <2>3 DEF handleMessage
    <3>2. /\ logged' = [logged EXCEPT ![w] = @ + 1]
          /\ UNCHANGED buffer
      BY <1>5, <2>3 DEF handleMessage
    <3> QED BY <1>1, <1>2, <2>1, <2>3, <3>1, <3>2, Announcing
  <2> QED BY <2>2, <2>3
<1>6. CASE written(w)
  <2>1. /\ pc[w] = "prefix" /\ pc'[w] = "open"
        /\ logger_queue' = Append(logger_queue, Message(w))
        /\ UNCHANGED <<logged, buffer>>
    BY <1>6 DEF written, enqueue, Q!enqueue
  <2>2. Message(w) = Line(w, logged[w]) /\ Message(w) \in Messages
    BY <1>1, MessageTypes DEF Message
  <2>3. stream' = Append(stream, Line(w, logged[w]))
    BY <1>1, <2>1, <2>2, StreamGrows
  <2>4. \A n \in DOMAIN stream : stream[n] # Shutdown
    BY <1>1, <2>1, QueueIsOpen, StreamIsOpen
  <2>5. \A v \in buffered : pc[v] # "flushLines"
    BY <1>1, <2>1, QueueIsOpen
  <2>6. w \notin buffered /\ logged[w] >= 1 /\ ToWrite(w) /\ ~ToWrite(w)'
    BY <1>1, <1>2, <2>1 DEF Control, WorkerControl, Announced
  <2> QED BY <1>1, <1>2, <2>1, <2>3, <2>4, <2>5, <2>6, WritingLine
<1>7. ASSUME pc[w] = "flushLines", buffer[w] # <<>>,
             pc'[w] = "flushLines" \/ pc'[w] = "closed",
             logger_queue' = Append(logger_queue, Line(w, Head(buffer[w]))),
             buffer' = [buffer EXCEPT ![w] = Tail(@)],
             UNCHANGED logged
      PROVE  StreamInv'
  <2>1. Line(w, Head(buffer[w])) \in Messages
    BY <1>7, MessageTypes
  <2>2. stream' = Append(stream, Line(w, Head(buffer[w])))
    BY <1>1, <1>7, <2>1, StreamGrows
  <2>3. \A n \in DOMAIN stream : stream[n] # Shutdown
    BY <1>1, <1>7, QueueIsOpen, StreamIsOpen
  <2>4. \A v \in Workers : v # w => pc[v] # "flushLines"
    BY <1>1, <1>7, QueueIsOpen
  <2>5. w \in buffered
    BY <1>7 DEF Control, WorkerControl
  <2> QED BY <1>1, <1>2, <1>7, <2>2, <2>3, <2>4, <2>5, WritingBuffered
<1>8. pc[w] = "flushLines" => buffer[w] # <<>>
  BY DEF Control, WorkerControl
<1>9. CASE flushLine(w, w)
  BY <1>7, <1>8, <1>9 DEF flushLine, Q!enqueue
<1>10. CASE closed(w)
  <2>1. pc'[w] = "closed" /\ UNCHANGED logged
    BY <1>1, <1>10 DEF closed
  <2>2. CASE flushNothing(w, w)
    BY <1>2, <1>3, <2>1, <2>2 DEF flushNothing
  <2>3. CASE flushLast(w, w)
    <3>1. /\ pc[w] = "flushLines" /\ Len(buffer[w]) = 1
          /\ logger_queue' = Append(logger_queue, Line(w, Head(buffer[w])))
          /\ buffer' = [buffer EXCEPT ![w] = <<>>]
      BY <2>3 DEF flushLast, Q!enqueue
    <3>2. Tail(buffer[w]) = <<>>
      BY <1>8, <3>1, TailOfSingle DEF ListsTyped
    <3>3. buffer' = [buffer EXCEPT ![w] = Tail(@)]
      BY <3>1, <3>2 DEF ListsTyped
    <3> QED BY <1>7, <1>8, <2>1, <3>1, <3>3
  <2> QED BY <1>10, <2>2, <2>3 DEF closed
<1> QED BY <1>4, <1>5, <1>6, <1>9, <1>10 DEF WorkerStep

LEMMA StreamStepOfMain ==
  ASSUME IInv, MainStep \/ callFlushLog
  PROVE  StreamInv'
<1> USE Names, InvParts DEF table, locks, stop, queue, print, goto
<1>1. /\ UNCHANGED <<buffered, buffer, print>>
      /\ \A w \in Workers : pc'[w] = pc[w]
      /\ \A w \in Workers : ToWrite(w)' <=> ToWrite(w)
      /\ \A t \in Threads : t = Main \/ t \in Workers
      /\ Main \notin buffered
  BY MainFrame DEF IInv, ToWrite, Threads
<1>2. ASSUME UNCHANGED <<logger_queue, logged>>, ToWrite(Main)' <=> ToWrite(Main)
      PROVE  StreamInv'
  <2>1. stream' = stream
    BY <1>1, <1>2 DEF stream, rest
  <2> QED BY <1>1, <1>2, <2>1, Calm
<1>3. ASSUME UNCHANGED logger_queue, logged' = [logged EXCEPT ![Main] = @ + 1],
             ~ToWrite(Main), ToWrite(Main)'
      PROVE  StreamInv'
  <2>1. stream' = stream
    BY <1>1, <1>3 DEF stream, rest
  <2> QED BY <1>1, <1>3, <2>1, Announcing
<1>4. CASE logInfo
  <2>1. stopping = "no"
    BY <1>4 DEF logInfo, Control, MainControl
  <2> QED BY <1>3, <1>4, <2>1 DEF logInfo, ToWrite
<1>5. CASE callFlushLog \/ flushed \/ stopLogger \/ closeNext \/ joined
  BY <1>2, <1>5
  DEF callFlushLog, flushed, stopLogger, closeNext, joined, ToWrite
<1>6. CASE flushLog
  BY <1>2, <1>6 DEF flushLog, Q!waitUntilEmpty, Q!foundEmpty, ToWrite
<1>7. CASE closedNext
  BY <1>2, <1>7 DEF closedNext, flushNothing, ToWrite
<1>8. CASE closedAll
  <2>1. CASE stopping' = "shutdown" /\ UNCHANGED logged
    BY <1>2, <1>8, <2>1 DEF closedAll, ToWrite
  <2>2. CASE ~(stopping' = "shutdown" /\ UNCHANGED logged)
    BY <1>3, <1>8, <2>2 DEF closedAll, ToWrite
  <2> QED BY <2>1, <2>2
<1>9. CASE write(Main)
  BY <1>2, <1>9 DEF write, ToWrite
<1>10. CASE writtenByMain
  <2>1. /\ pc[Main] = "prefix" /\ UNCHANGED logged
        /\ logger_queue' = Append(logger_queue, Message(Main))
        /\ Message(Main) \in Messages
    BY <1>10, MessageTypes DEF writtenByMain, enqueue, Q!enqueue
  <2>2. stream' = Append(stream, Message(Main))
    BY <1>1, <2>1, StreamGrows
  <2>3. \A n \in DOMAIN stream : stream[n] # Shutdown
    BY <2>1, QueueIsOpen, StreamIsOpen
  <2>4. \A v \in buffered : pc[v] # "flushLines"
    BY <1>1, <2>1, QueueIsOpen
  <2>5. ~ToWrite(Main)'
    BY <1>10 DEF writtenByMain, ToWrite
  <2>6. CASE ToWrite(Main)
    <3>1. stream' = Append(stream, Line(Main, logged[Main]))
      BY <2>1, <2>2, <2>6, WhatIsWritten
    <3>2. logged[Main] >= 1
      BY <2>6 DEF Announced
    <3> QED BY <1>1, <2>1, <2>3, <2>4, <2>5, <2>6, <3>1, <3>2, WritingLine
  <2>7. CASE ~ToWrite(Main)
    <3>1. stream' = Append(stream, Shutdown)
      BY <2>1, <2>2, <2>7, WhatIsWritten
    <3>2. stopping = "shutdown"
      BY <2>1, <2>7 DEF ToWrite
    <3>3. \A w \in Workers : pc[w] = "closed"
      BY <3>2 DEF Control, WorkerControl
    <3>4. \A t \in Threads : ~ToWrite(t)' /\ ~ToWrite(t)
      <4>1. \A w \in Workers : ~ToWrite(w)
        BY <3>3 DEF ToWrite
      <4> QED BY <1>1, <2>5, <2>7, <4>1
    <3> QED BY <1>1, <2>1, <2>3, <3>1, <3>3, <3>4, WritingShutdown
  <2> QED BY <2>6, <2>7
<1> QED BY <1>4, <1>5, <1>6, <1>7, <1>8, <1>9, <1>10 DEF MainStep

LEMMA StreamStep == IInv /\ [Next]_vars => StreamInv'
<1> SUFFICES ASSUME IInv, [Next]_vars PROVE StreamInv'
  OBVIOUS
<1> USE Names, InvParts DEF table, locks, stop, queue, print
<1>1. ASSUME UNCHANGED <<stream, logged, buffer, buffered, pc, stopping>>
      PROVE  StreamInv'
  BY <1>1, Calm DEF ToWrite
<1>2. CASE loggerMain
  <2>1. UNCHANGED <<logged, buffer, buffered, pc, stopping>>
    BY <1>2 DEF loggerMain
  <2>2. CASE stream' = stream
    BY <1>1, <2>1, <2>2
  <2>3. CASE stream = Append(stream', Shutdown) /\ pc[Main] = "join"
    <3>1. \A w \in Workers : pc[w] = "closed"
      BY <2>3 DEF Control, MainControl, WorkerControl
    <3>2. ListsTyped' /\ EndOfQueue'
      BY ListsStep, EndOfQueueStep
    <3> QED BY <2>1, <2>3, <3>1, <3>2, DroppingShutdown
  <2> QED BY <1>2, <2>2, <2>3, StreamSettles
<1>3. CASE Stopped \/ UNCHANGED vars
  <2>1. stream' = stream
    BY <1>3 DEF Stopped, vars, stream, rest
  <2> QED BY <1>1, <1>3, <2>1 DEF Stopped, vars
<1> QED BY <1>2, <1>3, StreamStepOfWorker, StreamStepOfMain DEF Next

\* With an empty queue the stream is what has been printed.
LEMMA AllPrinted ==
  ASSUME ListsTyped, EndOfQueue, logger_queue = <<>>,
         NEW t, NEW l, Sent(t, l)
  PROVE  Printed(t, l)
<1>1. rest = <<>>
  BY DEF rest, EndOfQueue
<1>2. stream = printed
  BY <1>1, ConcatEmptySeq DEF stream, ListsTyped
<1> QED BY <1>2 DEF Sent, Printed

LEMMA FlushedStep == IInv /\ [Next]_vars => Flushed'
<1> SUFFICES ASSUME IInv, [Next]_vars, pc'[Main] = "flushed"
             PROVE  \A l \in 1..logged'[Main] : Printed(Main, l)'
  BY DEF Flushed
<1> USE Names, InvParts DEF table, locks, stop, queue, print, goto
<1>1. ASSUME pc[Main] = "flushed", UNCHANGED printed, logged'[Main] = logged[Main]
      PROVE  \A l \in 1..logged'[Main] : Printed(Main, l)'
  BY <1>1 DEF IInv, Flushed, Printed
<1>2. ASSUME NEW w \in Workers, WorkerStep(w)
      PROVE  \A l \in 1..logged'[Main] : Printed(Main, l)'
  BY <1>1, <1>2, WorkerFrame DEF IInv
<1>3. CASE MainStep
  <2>1. flushLog
    BY <1>3
    DEF MainStep, logInfo, flushed, stopLogger, closeNext, closedNext, closedAll,
        write, writtenByMain, joined
  <2>2. CASE Q!foundEmpty(Main)
    <3>1. logger_queue = <<>> /\ UNCHANGED <<logged, printed>> /\ pc[Main] = "flushLog"
      BY <2>1, <2>2 DEF flushLog, Q!foundEmpty
    <3>2. ~ToWrite(Main)
      BY <3>1 DEF ToWrite
    <3>3. \A l \in 1..logged[Main] : Sent(Main, l)
      BY <3>2 DEF StreamInv, Complete
    <3>4. \A l \in 1..logged[Main] : Printed(Main, l)
      BY <3>1, <3>3, AllPrinted
    <3> QED BY <3>1, <3>4 DEF Printed
  <2>3. CASE ~Q!foundEmpty(Main)
    BY <2>1, <2>3 DEF flushLog
  <2> QED BY <2>2, <2>3
<1>4. CASE callFlushLog
  BY <1>4 DEF callFlushLog
<1>5. CASE loggerMain
  <2>1. UNCHANGED <<pc, logged>> /\ \A l \in 1..logged[Main] : Printed(Main, l)
    BY <1>5 DEF loggerMain, IInv, Flushed
  <2>2. UNCHANGED printed \/ \E m : printed' = Append(printed, m)
    BY <1>5 DEF loggerMain, printHead, printDone
  <2>3. \A n \in DOMAIN printed : n \in DOMAIN printed' /\ printed'[n] = printed[n]
    BY <2>2, ElemsOfAppend DEF ListsTyped
  <2> QED BY <2>1, <2>3 DEF Printed
<1>6. CASE Stopped \/ UNCHANGED vars
  BY <1>1, <1>6 DEF Stopped, vars
<1> QED BY <1>2, <1>3, <1>4, <1>5, <1>6 DEF Next

-----------------------------------------------------------------------------
LEMMA InitInv == Init => IInv
<1> SUFFICES ASSUME Init PROVE IInv
  OBVIOUS
<1> USE Names
<1>1. TypeOK /\ Counted
  BY InitTypes
<1>2. /\ printed = <<>> /\ logger_queue = <<>> /\ printer = "head"
      /\ stopping = "no"
      /\ \A w \in Workers : pc[w] = "start" /\ buffer[w] = <<>> /\ mutex[w] = Free
      /\ pc[Main] = "idle"
      /\ \A t \in Threads : logged[t] = 0
      /\ jobdata_mutex = Free /\ queue_write_mutex = Free
  BY DEF Init, Q!QueueInit
<1>3. DOMAIN <<>> = {}
  OBVIOUS
<1>4. stream = <<>>
  <2>1. stream = <<>> \o <<>>
    BY <1>2 DEF stream, rest
  <2> QED BY <2>1, ConcatEmptySeq, EmptySeq
<1>5. LocksHeld
  BY <1>2 DEF LocksHeld, Threads
<1>6. Control
  BY <1>2 DEF Control, MainControl, WorkerControl
<1>7. Announced
  BY <1>2 DEF Announced, ToWrite, Threads
<1>8. EndOfQueue
  BY <1>2, <1>3 DEF EndOfQueue
<1>9. StreamInv
  BY <1>2, <1>3, <1>4 DEF StreamInv, Buffers, Bounds, InOrder, Complete
<1>10. Flushed
  BY <1>2 DEF Flushed
<1> QED BY <1>1, <1>5, <1>6, <1>7, <1>8, <1>9, <1>10 DEF IInv

THEOREM Invariance == Spec => []IInv
<1>1. Init => IInv
  BY InitInv
<1>2. IInv /\ [Next]_vars => IInv'
  BY TypeStep, LocksStep, ControlStep, CountedStep, AnnouncedStep,
     EndOfQueueStep, StreamStep, FlushedStep DEF IInv
<1> QED BY <1>1, <1>2, PTL DEF Spec

THEOREM TypeCorrectness == Spec => []TypeOK
<1>1. IInv => TypeOK
  BY DEF IInv
<1> QED BY <1>1, Invariance, PTL

\* The locks of the logger: a thread is in a section of the code that a lock
\* protects exactly while it owns the lock, so that no two threads are.
OneAtATime ==
  \A s, t \in Threads :
    s # t =>
      /\ ~(pc[s] \in {"prefix", "flushLines"} /\ pc[t] \in {"prefix", "flushLines"})
      /\ ~(/\ pc[s] \in {"closing", "flush", "flushWrite", "flushLines"}
           /\ pc[t] \in {"closing", "flush", "flushWrite", "flushLines"})

\* No two threads write to the queue, and no two close jobs, at a time.
THEOREM MutualExclusion == Spec => []OneAtATime
<1>1. IInv => OneAtATime
  <2> SUFFICES ASSUME IInv PROVE OneAtATime
    OBVIOUS
  <2>1. \A t \in Threads :
          pc[t] \in {"prefix", "flushLines"} => queue_write_mutex = t
    BY InvParts DEF LocksHeld
  <2>2. \A t \in Threads :
          pc[t] \in {"closing", "flush", "flushWrite", "flushLines"} =>
            jobdata_mutex = t
    <3>1. \A w \in Workers :
            pc[w] \in {"closing", "flush", "flushWrite", "flushLines"} =>
              jobdata_mutex = w
      BY InvParts DEF LocksHeld, Control, WorkerControl
    <3>2. pc[Main] \in {"closing", "flush", "flushWrite", "flushLines"} =>
            jobdata_mutex = Main
      BY InvParts DEF LocksHeld, Control, MainControl
    <3> QED BY <3>1, <3>2 DEF Threads
  <2> QED BY <2>1, <2>2 DEF OneAtATime
<1> QED BY <1>1, Invariance, PTL

\* Lines come out in the order in which their source logged them, none
\* twice, and those of a buffered job together: they do in the stream, and
\* what is printed is its beginning.
THEOREM Ordered == Spec => []OutputInOrder
<1>1. IInv => OutputInOrder
  <2> SUFFICES ASSUME IInv,
                      NEW m \in DOMAIN printed, NEW n \in DOMAIN printed,
                      m < n, printed[m].from = printed[n].from
               PROVE  /\ printed[m].line < printed[n].line
                      /\ printed[m].from \in buffered =>
                           \A k \in m..n : printed[k].from = printed[m].from
    BY DEF OutputInOrder
  <2>1. /\ DOMAIN printed = 1..Len(printed) /\ Len(printed) \in Nat
        /\ DOMAIN stream = 1..Len(stream) /\ Len(stream) \in Nat
        /\ Len(printed) <= Len(stream)
        /\ \A k \in DOMAIN printed : stream[k] = printed[k]
    BY InvParts, StreamTypes
  <2>2. m \in DOMAIN stream /\ n \in DOMAIN stream
    BY <2>1
  <2>3. \A k \in m..n : stream[k] = printed[k]
    BY <2>1
  <2>4. stream[n] # Shutdown
    BY <2>1, InvParts DEF EndOfQueue
  <2>5. stream[m] = printed[m] /\ stream[n] = printed[n]
    BY <2>1
  <2> QED BY <2>2, <2>3, <2>4, <2>5, InvParts DEF StreamInv, InOrder
<1> QED BY <1>1, Invariance, PTL

\* When flushLog returns the caller's lines are on the output; when
\* stopLogger does, everybody's are: each line that was logged is in the
\* stream, nothing is left in a buffer or in a thread's hands, and an empty
\* queue makes the stream the output.
THEOREM NothingLost == Spec => []ReturnMeansPrinted
<1>1. IInv => ReturnMeansPrinted
  <2> SUFFICES ASSUME IInv, pc[Main] = "stopped",
                      NEW t \in Threads, NEW l \in 1..logged[t]
               PROVE  Printed(t, l)
    BY DEF ReturnMeansPrinted, IInv, Flushed
  <2>1. logger_queue = <<>> /\ stopping = "shutdown"
    BY InvParts DEF EndOfQueue, Control, MainControl
  <2>2. \A w \in Workers : pc[w] = "closed" /\ buffer[w] = <<>>
    BY <2>1, InvParts DEF Control, WorkerControl
  <2>3. ~ToWrite(t)
    BY <2>1, <2>2 DEF ToWrite, Threads
  <2>4. DOMAIN <<>> = {}
    OBVIOUS
  <2>5. Sent(t, l)
    BY <2>2, <2>3, <2>4, InvParts DEF StreamInv, Complete
  <2> QED BY <2>1, <2>5, InvParts, AllPrinted
<1> QED BY <1>1, Invariance, PTL
=============================================================================
