---------------------------- MODULE JavaBuilder ----------------------------
(***************************************************************************)
(* JavaBuilder.cc: build threads hand ant and groovy builds to one         *)
(* long-running Java process, started on demand by whichever thread asks   *)
(* first, over a socket served by an I/O thread.  The threads:             *)
(*   clients     build threads in invoke(), one request at a time each     *)
(*   io          runIO(): the handlers of its io_service run in it         *)
(*   runner      runJava(): runs the process and waits for its end         *)
(*   main        finish(), when the build is over                          *)
(* Build threads run other programs in the meantime; they and runJava()    *)
(* share the process handler.                                              *)
(* The process itself (`java`) is outside this module: it connects or      *)
(* fails to, answers requests in any order, shuts down when told to, and   *)
(* may end unexpectedly at most MaxExits times.                            *)
(*                                                                         *)
(* Whatever a thread does from taking the mutex to releasing it is one     *)
(* action, except in start(), which keeps the mutex while it joins the     *)
(* I/O thread.  What goes through the socket is the subject of             *)
(* JavaProtocol; here a response arrives whole.                            *)
(***************************************************************************)
EXTENDS Integers, Sequences, FiniteSets

CONSTANTS
  Clients,
  Turns,       \* items each client builds
  Programs,    \* those that another program builds, <<client, turn>>
  MaxExits,    \* unexpected ends of the process
  CaptureOutput

ASSUME TurnsAssumption ==
  /\ Turns \in Nat \ {0} /\ MaxExits \in Nat
  /\ Programs \subseteq Clients \X (1..Turns)
  /\ CaptureOutput \in BOOLEAN

VARIABLES
  run_mode, mutex, asleep, last_request, job_data, sock,
  pc, request, turns,             \* of the clients
  main,                           \* where the main thread is
  io, accepting, reading, writes, stopped,   \* the I/O thread and its io_service
  runner,                         \* where runJava() is
  responses,                      \* the response queue of each request
  java, java_in, java_out, exits, \* the process, and the data on its way
  verdict,                        \* what the process said of each request
  handler_mutex, at, inheritable, holders, child  \* of ProcessHandler

client == <<pc, request, turns>>
service == <<accepting, reading, writes, stopped>>
process == <<java, java_in, java_out, exits, verdict>>
backend == <<run_mode, mutex, asleep, last_request, job_data, sock, main, io, service,
             runner, responses>>
Runner == "runner"
programs == <<handler_mutex, at, inheritable, holders, child>>
P == INSTANCE ProcessHandler WITH Callers <- Clients \cup {Runner}, HasHandler <- CaptureOutput
vars == <<backend, client, process, programs>>

Requests == 1..(Cardinality(Clients) * Turns)
Shutdown == 0       \* the message "shutdown"
Free == "free"
Main == "main"

ASSUME ClientsAssumption ==
  IsFiniteSet(Clients) /\ Clients \cap {Free, Main, Runner, P!Abuild} = {}

Init ==
  /\ run_mode = "idle"
  /\ mutex = Free
  /\ asleep = {}
  /\ last_request = 0
  /\ job_data = {}
  /\ sock = "none"
  /\ pc = [c \in Clients |-> "idle"]
  /\ request = [c \in Clients |-> 0]
  /\ turns = [c \in Clients |-> 0]
  /\ main = "building"
  /\ io = "none" /\ runner = "none"
  /\ accepting = FALSE /\ reading = FALSE /\ writes = {} /\ stopped = FALSE
  /\ responses = [r \in Requests |-> <<>>]
  /\ java = "none" /\ java_in = {} /\ java_out = <<>> /\ exits = 0
  /\ verdict = [r \in Requests |-> {}]
  /\ P!ProcessInit

\* Mutant: those who wait for the mode to change are not told.
setRunMode_silent(mode) ==
  /\ run_mode' = mode
  /\ UNCHANGED asleep

setRunMode(mode) ==
  /\ run_mode' = mode
  /\ asleep' = {}                  \* notify_all

-----------------------------------------------------------------------------
(* invoke(): start, then makeRequest *)

invoke(c) ==
  /\ pc[c] = "idle"
  /\ main = "building"
  /\ turns[c] < Turns
  /\ <<c, turns[c] + 1>> \notin Programs
  /\ turns' = [turns EXCEPT ![c] = @ + 1]
  /\ pc' = [pc EXCEPT ![c] = "start"]
  /\ UNCHANGED <<run_mode, mutex, asleep, last_request, job_data, sock, request,
                 main, io, service, runner, responses, process, programs>>

\* Mutant: a client does not wait for another one's start.
start_unwaited(c) ==
  /\ pc[c] = "start"
  /\ mutex = Free
  /\ run_mode \in {"running", "starting_up"}
  /\ pc' = [pc EXCEPT ![c] = "register"]
  /\ UNCHANGED <<run_mode, mutex, asleep, last_request, job_data, sock, request,
                 turns, main, io, service, runner, responses, process>>

\* start() finds the backend running, or known not to start, or on its way.
start(c) ==
  /\ pc[c] = "start"
  /\ mutex = Free
  /\ \/ /\ run_mode = "running"
        /\ pc' = [pc EXCEPT ![c] = "register"]
        /\ UNCHANGED asleep
     \/ /\ run_mode = "startup_failed"
        /\ pc' = [pc EXCEPT ![c] = "idle"]
        /\ UNCHANGED asleep
     \/ /\ run_mode = "starting_up"
        /\ pc' = [pc EXCEPT ![c] = "startup"]
        /\ asleep' = asleep \cup {c}
     \/ /\ run_mode = "shutting_down"
        /\ pc' = [pc EXCEPT ![c] = "logic_error"]
        /\ UNCHANGED asleep
  /\ UNCHANGED <<run_mode, mutex, last_request, job_data, sock, request, turns,
                 main, io, service, runner, responses, process>>

\* Creates the I/O thread and waits for it.
launch(c) ==
  /\ run_mode' = "starting_up"
  /\ asleep' = {c}
  /\ io' = "setup"
  /\ pc' = [pc EXCEPT ![c] = "startup"]

startIdle(c) ==
  /\ pc[c] = "start"
  /\ mutex = Free
  /\ run_mode = "idle"
  /\ launch(c)
  /\ UNCHANGED <<mutex, last_request, job_data, sock, request, turns, main,
                 service, runner, responses, process>>

\* start() calls cleanup() with the mutex held ...
startStopped(c) ==
  /\ pc[c] = "start"
  /\ mutex = Free
  /\ run_mode = "stopped"
  /\ mutex' = c
  /\ pc' = [pc EXCEPT ![c] = "cleanup"]
  /\ UNCHANGED <<run_mode, asleep, last_request, job_data, sock, request, turns,
                 main, io, service, runner, responses, process>>

\* Mutant: the I/O thread is not joined.
cleanup_unjoined(c) ==
  /\ pc[c] = "cleanup"
  /\ sock' = "none"
  /\ launch(c)
  /\ mutex' = Free
  /\ UNCHANGED <<last_request, job_data, request, turns, main, service, runner,
                 responses, process>>

\* ... and goes on when it has joined the I/O thread.
cleanup(c) ==
  /\ pc[c] = "cleanup"
  /\ io = "done"
  /\ sock' = "none"
  /\ launch(c)
  /\ mutex' = Free
  /\ UNCHANGED <<last_request, job_data, request, turns, main, service, runner,
                 responses, process>>

\* A waiter that was notified looks at the mode it finds then.
waitForStartup(c) ==
  /\ pc[c] = "startup"
  /\ mutex = Free
  /\ c \notin asleep
  /\ \/ /\ run_mode = "running"
        /\ pc' = [pc EXCEPT ![c] = "register"]
        /\ UNCHANGED asleep
     \/ /\ run_mode = "startup_failed"
        /\ pc' = [pc EXCEPT ![c] = "idle"]
        /\ UNCHANGED asleep
     \/ /\ run_mode \notin {"running", "startup_failed"}
        /\ asleep' = asleep \cup {c}
        /\ UNCHANGED pc
  /\ UNCHANGED <<run_mode, mutex, last_request, job_data, sock, request, turns,
                 main, io, service, runner, responses, process>>

\* The request is registered and its message handed to the socket.
makeRequest(c) ==
  LET r == last_request + 1
  IN /\ pc[c] = "register"
     /\ mutex = Free
     /\ last_request' = r
     /\ request' = [request EXCEPT ![c] = r]
     /\ job_data' = job_data \cup {r}
     /\ \/ /\ sock # "none"
           /\ writes' = writes \cup {r}
           /\ pc' = [pc EXCEPT ![c] = "dequeue"]
        \/ /\ sock = "none"
           /\ pc' = [pc EXCEPT ![c] = "null_sock"]
           /\ UNCHANGED writes
     /\ UNCHANGED <<run_mode, mutex, asleep, sock, turns, main, io, accepting,
                    reading, stopped, runner, responses, process>>

\* invoke() returns the first response it finds in the queue.
dequeue(c) ==
  /\ pc[c] = "dequeue"
  /\ responses[request[c]] # <<>>
  /\ pc' = [pc EXCEPT ![c] = "idle"]
  /\ UNCHANGED <<run_mode, mutex, asleep, last_request, job_data, sock, request,
                 turns, main, io, service, runner, responses, process>>

ClientStep(c) ==
  /\ \/ start(c)
     \/ startIdle(c)
     \/ startStopped(c)
     \/ cleanup(c)
     \/ waitForStartup(c)
     \/ makeRequest(c)
     \/ dequeue(c)
  /\ UNCHANGED programs

-----------------------------------------------------------------------------
(* Items that other programs build *)

invokeProgram(c) ==
  /\ pc[c] = "idle"
  /\ main = "building"
  /\ turns[c] < Turns
  /\ <<c, turns[c] + 1>> \in Programs
  /\ turns' = [turns EXCEPT ![c] = @ + 1]
  /\ pc' = [pc EXCEPT ![c] = "program"]
  /\ P!runProgram(c)
  /\ UNCHANGED <<backend, request, process>>

\* runProgram() returns.
programDone(c) ==
  /\ pc[c] = "program"
  /\ P!forkFails(c) \/ P!waitForChild(c)
  /\ pc' = [pc EXCEPT ![c] = "idle"]
  /\ UNCHANGED <<backend, request, turns, process>>

ProgramStep(c) ==
  \/ programDone(c)
  \/ /\ pc[c] = "program"
     /\ P!createPipes(c) \/ P!setCloseOnExec(c) \/ P!fork(c)
     /\ UNCHANGED <<backend, client, process>>

ProgramEnds(c) ==
  /\ pc[c] = "program"
  /\ P!childEnds(c)
  /\ UNCHANGED <<backend, client, process>>

-----------------------------------------------------------------------------
(* finish(), called when the build is over *)

BuildOver == \A c \in Clients : pc[c] = "idle" /\ turns[c] = Turns

finish ==
  /\ main = "building"
  /\ BuildOver
  /\ mutex = Free
  /\ \/ /\ run_mode \in {"idle", "startup_failed"}
        /\ main' = "done"
        /\ UNCHANGED <<run_mode, asleep, writes>>
     \/ /\ run_mode = "running"
        /\ run_mode' = "shutting_down"
        /\ asleep' = {Main}
        /\ writes' = writes \cup {Shutdown}
        /\ main' = "shutdown"
     \/ /\ run_mode = "stopped"
        /\ main' = "cleanup"
        /\ UNCHANGED <<run_mode, asleep, writes>>
  /\ UNCHANGED <<mutex, last_request, job_data, sock, client, io, accepting,
                 reading, stopped, runner, responses, process>>

waitForShutdown ==
  /\ main = "shutdown"
  /\ mutex = Free
  /\ Main \notin asleep
  /\ \/ /\ run_mode = "stopped"
        /\ main' = "cleanup"
        /\ UNCHANGED asleep
     \/ /\ run_mode # "stopped"
        /\ asleep' = asleep \cup {Main}
        /\ UNCHANGED main
  /\ UNCHANGED <<run_mode, mutex, last_request, job_data, sock, client, io,
                 service, runner, responses, process>>

\* cleanup() without the mutex, then back to idle.
finishCleanup ==
  /\ main = "cleanup"
  /\ io = "done"
  /\ mutex = Free
  /\ io' = "none"
  /\ sock' = "none"
  /\ setRunMode("idle")
  /\ main' = "done"
  /\ UNCHANGED <<mutex, last_request, job_data, client, service, runner,
                 responses, process>>

MainStep == (finish \/ waitForShutdown \/ finishCleanup) /\ UNCHANGED programs

-----------------------------------------------------------------------------
(* The I/O thread: runIO() and the handlers that run in it *)

runIO ==
  /\ io = "setup"
  /\ mutex = Free
  /\ sock' = "open"
  /\ accepting' = TRUE
  /\ reading' = FALSE
  /\ writes' = {}
  /\ stopped' = FALSE
  /\ runner' = "running"
  /\ java' = "none"
  /\ java_in' = {}
  /\ java_out' = <<>>
  /\ P!runProgram(Runner)
  /\ io' = "run"
  /\ UNCHANGED <<run_mode, mutex, asleep, last_request, job_data, client, main,
                 responses, exits, verdict>>

Connected == java \in {"connected", "closed", "exited"}

handleAccept ==
  /\ io = "run"
  /\ accepting
  /\ Connected
  /\ mutex = Free
  /\ accepting' = FALSE
  /\ reading' = TRUE
  /\ setRunMode("running")
  /\ UNCHANGED <<mutex, last_request, job_data, sock, client, main, io, writes,
                 stopped, runner, responses, process>>

\* Mutant: a request stays registered when it has been answered.
handleResponse_kept(r, status) ==
  /\ responses' = [responses EXCEPT ![r] = Append(@, status)]
  /\ UNCHANGED job_data

\* The job is unregistered, then its response delivered.
handleResponse(r, status) ==
  /\ job_data' = job_data \ {r}
  /\ responses' = [responses EXCEPT ![r] = Append(@, status)]

\* Outside of running mode input is ignored and no more is asked for.
handleRead ==
  /\ io = "run"
  /\ reading
  /\ java_out # <<>>
  /\ mutex = Free
  /\ java_out' = Tail(java_out)
  /\ IF run_mode = "running"
     THEN /\ handleResponse(Head(java_out).request, Head(java_out).status)
          /\ UNCHANGED reading
     ELSE /\ reading' = FALSE
          /\ UNCHANGED <<job_data, responses>>
  /\ UNCHANGED <<run_mode, mutex, asleep, last_request, sock, client, main, io,
                 accepting, writes, stopped, runner, java, java_in, exits, verdict>>

\* The end of the stream: expected unless in running mode, any other error
\* never is.
handleReadEnd(eof) ==
  /\ io = "run"
  /\ reading
  /\ java_out = <<>>
  /\ java \in {"closed", "exited"}
  /\ mutex = Free
  /\ reading' = FALSE
  /\ IF ~eof \/ run_mode = "running"
     THEN setRunMode("stopped")
     ELSE UNCHANGED <<run_mode, asleep>>
  /\ UNCHANGED <<mutex, last_request, job_data, sock, client, main, io, accepting,
                 writes, stopped, runner, responses, process>>

\* A message reaches the process, or is lost in a closed connection, or the
\* write fails, which takes the mutex to report it and has no other effect.
handleWrite(m) ==
  /\ io = "run"
  /\ m \in writes
  /\ writes' = writes \ {m}
  /\ \/ /\ java = "connected"
        /\ ~accepting
        /\ java_in' = java_in \cup {m}
     \/ /\ java # "connected" \/ accepting
        /\ mutex = Free \/ java = "closed"
        /\ UNCHANGED java_in
  /\ UNCHANGED <<run_mode, mutex, asleep, last_request, job_data, sock, client,
                 main, io, accepting, reading, stopped, runner, responses, java,
                 java_out, exits, verdict>>

\* run() returns when nothing is left to wait for or stop() was called.
runReturns ==
  /\ io = "run"
  /\ stopped \/ (~accepting /\ ~reading /\ writes = {})
  /\ io' = "join"
  /\ UNCHANGED <<run_mode, mutex, asleep, last_request, job_data, sock, client,
                 main, service, runner, responses, process>>

\* Mutant: the requests that are still registered are dropped.
failPending_dropped ==
  /\ job_data' = {}
  /\ UNCHANGED responses

\* "fail any pending requests"
failPending ==
  /\ job_data' = {}
  /\ responses' = [r \in Requests |->
                     IF r \in job_data THEN Append(responses[r], FALSE)
                     ELSE responses[r]]

\* The end of runIO(), after the join with runJava().
runIOEnd ==
  /\ io = "join"
  /\ runner = "done"
  /\ mutex = Free
  /\ io' = "done"
  /\ IF run_mode = "starting_up"
     THEN /\ setRunMode("startup_failed")
          /\ UNCHANGED <<job_data, responses>>
     ELSE /\ failPending
          /\ setRunMode("stopped")
  /\ UNCHANGED <<mutex, last_request, sock, client, main, service, runner, process>>

IOStep ==
  \/ runIO
  \/ /\ \/ handleAccept
        \/ handleRead
        \/ \E eof \in BOOLEAN : handleReadEnd(eof)
        \/ \E m \in writes : handleWrite(m)
        \/ runReturns
        \/ runIOEnd
     /\ UNCHANGED programs

\* runJava() calls runProgram ...
forkJava ==
  /\ P!fork(Runner)
  /\ java' = "starting"
  /\ UNCHANGED <<backend, client, java_in, java_out, exits, verdict>>

forkJavaFails ==
  /\ P!forkFails(Runner)
  /\ java' = "failed"
  /\ UNCHANGED <<backend, client, java_in, java_out, exits, verdict>>

\* ... and goes on when it has returned.
runJava ==
  /\ runner = "running"
  /\ at[Runner] = "outside"
  /\ mutex = Free
  /\ runner' = "done"
  /\ stopped' = (stopped \/ run_mode = "starting_up")
  /\ UNCHANGED <<run_mode, mutex, asleep, last_request, job_data, sock, client,
                 main, io, accepting, reading, writes, responses, process, programs>>

RunnerStep ==
  \/ forkJava
  \/ forkJavaFails
  \/ /\ \/ P!createPipes(Runner)
        \/ P!setCloseOnExec(Runner)
        \/ P!waitForChild(Runner)
     /\ UNCHANGED <<backend, client, process>>
  \/ runJava

-----------------------------------------------------------------------------
(* The process *)

quiet == <<backend, client, programs>>

JavaConnects ==
  /\ java = "starting"
  /\ java' = "connected"
  /\ UNCHANGED <<quiet, java_in, java_out, exits, verdict>>

JavaFailsToStart ==
  /\ java = "starting"
  /\ java' = "failed"
  /\ P!childEnds(Runner)
  /\ UNCHANGED <<backend, client, java_in, java_out, exits, verdict>>

JavaResponds(r, status) ==
  /\ java = "connected"
  /\ r \in java_in \ {Shutdown}
  /\ java_in' = java_in \ {r}
  /\ java_out' = Append(java_out, [request |-> r, status |-> status])
  /\ verdict' = [verdict EXCEPT ![r] = @ \cup {status}]
  /\ UNCHANGED <<quiet, java, exits>>

JavaShutsDown ==
  /\ java = "connected"
  /\ Shutdown \in java_in
  /\ java' = "closed"
  /\ UNCHANGED <<quiet, java_in, java_out, exits, verdict>>

\* What it had sent may be lost with it.
JavaDies ==
  /\ java = "connected"
  /\ exits < MaxExits
  /\ exits' = exits + 1
  /\ java' = "closed"
  /\ java_out' \in {java_out, <<>>}
  /\ UNCHANGED <<quiet, java_in, verdict>>

JavaExits ==
  /\ java = "closed"
  /\ java' = "exited"
  /\ P!childEnds(Runner)
  /\ UNCHANGED <<backend, client, java_in, java_out, exits, verdict>>

JavaProgress ==
  \/ JavaConnects
  \/ JavaFailsToStart
  \/ \E r \in Requests, status \in BOOLEAN : JavaResponds(r, status)
  \/ JavaShutsDown
  \/ JavaExits

-----------------------------------------------------------------------------

Done == main = "done" /\ UNCHANGED vars

Next ==
  \/ \E c \in Clients : invoke(c) \/ ClientStep(c)
  \/ \E c \in Clients : invokeProgram(c) \/ ProgramStep(c) \/ ProgramEnds(c)
  \/ MainStep
  \/ IOStep
  \/ RunnerStep
  \/ JavaProgress
  \/ JavaDies
  \/ Done

\* Threads are scheduled and the process finishes what it was given; that it
\* dies is never certain.
Spec ==
  /\ Init
  /\ [][Next]_vars
  /\ \A c \in Clients : WF_vars(invoke(c) \/ invokeProgram(c)) /\ WF_vars(ClientStep(c))
  /\ \A c \in Clients : WF_vars(ProgramStep(c)) /\ WF_vars(ProgramEnds(c))
  /\ WF_vars(MainStep)
  /\ WF_vars(IOStep)
  /\ WF_vars(RunnerStep)
  /\ WF_vars(JavaProgress)

-----------------------------------------------------------------------------
(* Properties *)

Response == [request : Requests, status : BOOLEAN]

TypeOK ==
  /\ run_mode \in {"idle", "starting_up", "startup_failed", "running",
                   "shutting_down", "stopped"}
  /\ mutex \in Clients \cup {Free}
  /\ asleep \subseteq Clients \cup {Main}
  /\ last_request \in Requests \cup {0}
  /\ job_data \subseteq Requests
  /\ sock \in {"none", "open"}
  /\ pc \in [Clients -> {"idle", "start", "startup", "cleanup", "register",
                        "dequeue", "null_sock", "logic_error", "program"}]
  /\ request \in [Clients -> Requests \cup {0}]
  /\ turns \in [Clients -> 0..Turns]
  /\ main \in {"building", "shutdown", "cleanup", "done"}
  /\ io \in {"none", "setup", "run", "join", "done"}
  /\ accepting \in BOOLEAN /\ reading \in BOOLEAN /\ stopped \in BOOLEAN
  /\ writes \subseteq Requests \cup {Shutdown}
  /\ runner \in {"none", "running", "done"}
  /\ responses \in [Requests -> Seq(BOOLEAN)]
  /\ java \in {"none", "starting", "connected", "closed", "exited", "failed"}
  /\ java_in \subseteq Requests \cup {Shutdown}
  /\ java_out \in Seq(Response)
  /\ exits \in 0..MaxExits
  /\ verdict \in [Requests -> SUBSET BOOLEAN]

\* As long as the process does not end unexpectedly, the assertions hold
\* that runIO and cleanup make on the mode, start() is not called while
\* shutting down, and nobody writes to a socket that is not there.
AssertionsHold ==
  exits = 0 =>
    /\ io = "setup" => run_mode = "starting_up"
    /\ main = "cleanup" => run_mode = "stopped"
    /\ \A c \in Clients : pc[c] \notin {"cleanup", "logic_error", "null_sock"}

\* A request is answered at most once, whether by the process or by the end
\* of the I/O thread, and succeeds only if the process said so: no answer
\* goes to another request, and none is made up.
AnsweredTruthfully ==
  \A r \in Requests :
    /\ Len(responses[r]) <= 1
    /\ \A n \in DOMAIN responses[r] :
         responses[r][n] => verdict[r] = {TRUE}

\* A request whose client still waits is either registered or answered: no
\* client is forgotten, in any mode.
NobodyForgotten ==
  \A c \in Clients :
    pc[c] = "dequeue" => request[c] \in job_data \/ responses[request[c]] # <<>>

\* There is one backend at a time: it is (re)started only when the previous
\* process has exited and its threads have ended, however many clients ask
\* for it at once.
OneBackend ==
  [][run_mode' = "starting_up" /\ run_mode # "starting_up" =>
       /\ io \in {"none", "done"}
       /\ runner \in {"none", "done"}
       /\ java \in {"none", "exited"}]_vars

\* The build ends, unless the process ends unexpectedly: every request is
\* answered, a backend that cannot be started holds nobody up, and finish()
\* returns.
BuildEnds == <>(main = "done") \/ <>(exits > 0)

\* A thread comes back from runProgram() when its program has ended, whatever
\* other programs go on: no other program, of which the Java process lives
\* until the build is over, holds the pipes that the thread reads to their end
\* ("all sorts of problems including ... EOF not appearing on pipes when
\* processes exit", ProcessHandler_unix.cc:81).
ProgramsReturn ==
  \A c \in Clients \cup {Runner} : child[c] = "ended" ~> at[c] = "outside"

\* "JavaBuilder exited unexpectedly; will attempt to recover"
\* (JavaBuilder.cc:321): the build ends although the process did.
BuildRecovers == <>(main = "done")
=============================================================================
