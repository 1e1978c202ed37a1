-------------------------- MODULE JavaBuilderProofs --------------------------
(***************************************************************************)
(* Proofs about JavaBuilder and the process handler it shares, for every   *)
(* number of build threads, of items and of unexpected ends of the Java    *)
(* process.                                                                *)
(*                                                                         *)
(* There are three arguments.  The first follows the mode of the builder   *)
(* through the life of one backend: which modes go with which place of the *)
(* I/O thread, of runJava() and of the process.  The second follows a      *)
(* request from the table of jobs through the socket to its response.  The *)
(* third is about who holds the pipes of a program.                        *)
(***************************************************************************)
EXTENDS JavaBuilder, ListLemmas

-----------------------------------------------------------------------------
(* The program that a caller of runProgram() runs *)

Callers == Clients \cup {Runner}

Handling ==
  /\ handler_mutex \in Callers \cup {P!Free}
  /\ at \in [Callers -> {"outside", "begun", "piped", "marked", "waiting"}]
  /\ inheritable \subseteq Callers
  /\ holders \in [Callers -> SUBSET (Callers \cup {P!Abuild})]
  /\ child \in [Callers -> {"none", "running", "ended"}]

\* Pipes that a program could inherit are those of the owner of the mutex.
OwnPipes ==
  \A c \in Callers :
    /\ at[c] \in {"piped", "marked"} => handler_mutex = c
    /\ c \in inheritable => at[c] = "piped"
    /\ holders[c] \subseteq {P!Abuild, c}
    /\ at[c] \in {"outside", "begun"} => holders[c] = {}
    /\ at[c] = "waiting" => P!Abuild \notin holders[c]
    /\ at[c] # "waiting" => c \notin holders[c]
    /\ child[c] = "ended" => c \notin holders[c]
    /\ child[c] = "none" <=> at[c] # "waiting"

-----------------------------------------------------------------------------
(* The life of a backend *)

\* The process, as far as runJava() has got with it.
ProcessFollowsRunner ==
  CASE runner = "none" -> java = "none" /\ at[Runner] = "outside"
    [] runner = "done" -> java \in {"exited", "failed"} /\ at[Runner] = "outside"
    [] runner = "running" ->
         \/ at[Runner] \in {"begun", "piped", "marked"} /\ java = "none"
         \/ /\ at[Runner] = "waiting" /\ child[Runner] = "running"
            /\ java \in {"starting", "connected", "closed"}
         \/ /\ at[Runner] = "waiting" /\ child[Runner] = "ended"
            /\ java \in {"exited", "failed"}
         \/ at[Runner] = "outside" /\ java \in {"exited", "failed"}

\* The mode, as far as the I/O thread has got.
ModeFollowsIO ==
  CASE io = "none" -> run_mode = "idle" /\ runner # "running"
    [] io = "setup" -> run_mode = "starting_up" /\ runner # "running"
    [] io \in {"run", "join"} ->
         /\ run_mode \in {"starting_up", "running", "shutting_down", "stopped"}
         /\ runner # "none" /\ sock = "open"
    [] io = "done" ->
         run_mode \in {"startup_failed", "stopped"} /\ runner = "done" /\ sock = "open"

ModeFollowsProcess ==
  /\ run_mode \in {"running", "shutting_down", "stopped"} => Connected
  /\ run_mode = "idle" => java \in {"none", "exited"}
  /\ run_mode = "stopped" => java \in {"closed", "exited"}
  /\ accepting /\ io \in {"run", "join"} => run_mode = "starting_up" /\ ~reading

ModeFollowsMain ==
  /\ main # "building" => BuildOver
  /\ main = "shutdown" => run_mode \in {"shutting_down", "stopped"}
  /\ main = "cleanup" => run_mode = "stopped"
  /\ run_mode = "shutting_down" => main = "shutdown"
  /\ Shutdown \in writes \cup java_in => main # "building"

ClientControl ==
  \A c \in Clients :
    /\ mutex = c <=> pc[c] = "cleanup"
    /\ pc[c] = "cleanup" => run_mode = "stopped"
    /\ pc[c] # "logic_error"

\* As long as the process does not end by itself.
Undisturbed ==
  exits = 0 =>
    /\ java \in {"closed", "exited"} => main # "building"
    /\ \A c \in Clients :
         /\ pc[c] = "register" => run_mode = "running"
         /\ pc[c] \notin {"cleanup", "null_sock"}

Backend ==
  /\ ProcessFollowsRunner
  /\ ModeFollowsIO
  /\ ModeFollowsProcess
  /\ ModeFollowsMain
  /\ ClientControl
  /\ Undisturbed

-----------------------------------------------------------------------------
(* The life of a request *)

Asking == {"start", "startup", "cleanup", "register"}

\* The turns of the clients that have made their request, or will not.
TurnsUsed ==
  {turn \in Clients \X (1..Turns) :
     \/ turn[2] < turns[turn[1]]
     \/ turn[2] = turns[turn[1]] /\ pc[turn[1]] \notin Asking}

\* There is a turn for each request.
Counted ==
  /\ last_request <= Cardinality(TurnsUsed)
  /\ \A c \in Clients : pc[c] \in Asking => turns[c] >= 1

\* The requests that the process answers with the messages of a list; that it
\* answers none twice, and does not disagree with its verdicts.
Out(list) == {list[n].request : n \in DOMAIN list}
Once(list) == \A m, n \in DOMAIN list : list[m].request = list[n].request => m = n
Honest(list) == \A n \in DOMAIN list : verdict[list[n].request] = {list[n].status}

OnItsWay(r) == r \in writes \/ r \in java_in \/ r \in Out(java_out)

InOnePlace ==
  /\ \A r \in Requests :
       /\ ~(r \in writes /\ r \in java_in)
       /\ ~(r \in writes /\ r \in Out(java_out))
       /\ ~(r \in java_in /\ r \in Out(java_out))
  /\ Once(java_out)

Jobs ==
  \A r \in Requests :
    /\ r \in job_data => responses[r] = <<>> /\ r <= last_request
    /\ r > last_request => responses[r] = <<>> /\ verdict[r] = {} /\ ~OnItsWay(r)
    /\ io = "run" /\ OnItsWay(r) => r \in job_data
    /\ r \in writes \/ r \in java_in => verdict[r] = {}

Verdicts == Honest(java_out)

Answers ==
  /\ Counted
  /\ InOnePlace
  /\ Jobs
  /\ Verdicts
  /\ AnsweredTruthfully
  /\ NobodyForgotten
  /\ \A c \in Clients : pc[c] = "dequeue" => request[c] \in Requests

IInv == TypeOK /\ Handling /\ OwnPipes /\ Backend /\ Answers

-----------------------------------------------------------------------------
LEMMA Names ==
  /\ Runner \notin Clients /\ Free \notin Clients /\ Main \notin Clients
  /\ P!Free \notin Callers /\ P!Abuild \notin Callers
  /\ P!Free = Free /\ Main # Free
  /\ Runner \in Callers /\ Clients \subseteq Callers
BY ClientsAssumption DEF Runner, Free, Main, P!Free, P!Abuild, Callers

\* One step of one call of runProgram().
HandlerStep(c) ==
  \/ P!runProgram(c)
  \/ P!createPipes(c)
  \/ P!setCloseOnExec(c)
  \/ P!fork(c)
  \/ P!forkFails(c)
  \/ P!waitForChild(c)
  \/ P!childEnds(c)

LEMMA HandlerNext ==
  [Next]_vars => UNCHANGED programs \/ \E c \in Callers : HandlerStep(c)
<1> SUFFICES ASSUME [Next]_vars
             PROVE  UNCHANGED programs \/ \E c \in Callers : HandlerStep(c)
  OBVIOUS
<1> USE Names DEF HandlerStep
<1>1. CASE \E c \in Clients : invoke(c) \/ ClientStep(c)
  BY <1>1 DEF invoke, ClientStep, process, programs
<1>2. CASE \E c \in Clients : invokeProgram(c) \/ ProgramStep(c) \/ ProgramEnds(c)
  BY <1>2 DEF invokeProgram, ProgramStep, ProgramEnds, programDone
<1>3. CASE MainStep \/ Done \/ UNCHANGED vars
  BY <1>3 DEF MainStep, Done, vars
<1>4. CASE IOStep
  BY <1>4 DEF IOStep, runIO
<1>5. CASE RunnerStep
  BY <1>5 DEF RunnerStep, forkJava, forkJavaFails, runJava
<1>6. CASE JavaProgress \/ JavaDies
  BY <1>6
  DEF JavaProgress, JavaDies, JavaConnects, JavaFailsToStart, JavaResponds,
      JavaShutsDown, JavaExits, quiet
<1> QED BY <1>1, <1>2, <1>3, <1>4, <1>5, <1>6 DEF Next

LEMMA HandlingStep ==
  ASSUME Handling, OwnPipes, NEW c \in Callers, HandlerStep(c)
  PROVE  Handling' /\ OwnPipes'
<1> USE Names DEF Handling, OwnPipes
<1>1. CASE P!runProgram(c)
  BY <1>1 DEF P!runProgram
<1>2. CASE P!createPipes(c)
  BY <1>2 DEF P!createPipes
<1>3. CASE P!setCloseOnExec(c)
  BY <1>3 DEF P!setCloseOnExec
<1>4. CASE P!fork(c)
  <2>1. \A d \in Callers : d # c => d \notin inheritable
    BY <1>4 DEF P!fork, P!mayFork
  <2>2. \A d \in Callers : d # c => holders'[d] = holders[d]
    BY <1>4, <2>1 DEF P!fork, Callers
  <2>3. holders'[c] \subseteq {c}
    BY <1>4 DEF P!fork, Callers
  <2>4. holders' \in [Callers -> SUBSET (Callers \cup {P!Abuild})]
    <3>1. DOMAIN holders' = Callers /\ holders' = [d \in Callers |-> holders'[d]]
      BY <1>4 DEF P!fork, Callers
    <3> QED BY <2>2, <2>3, <3>1
  <2>5. /\ handler_mutex' = P!Free /\ handler_mutex \in {P!Free, c}
        /\ child' = [child EXCEPT ![c] = "running"]
        /\ at' = [at EXCEPT ![c] = "waiting"]
        /\ UNCHANGED inheritable
        /\ at[c] \in {"marked", "begun"}
    BY <1>4 DEF P!fork, P!mayFork
  <2> QED BY <2>2, <2>3, <2>4, <2>5
<1>5. CASE P!forkFails(c)
  BY <1>5 DEF P!forkFails, P!mayFork
<1>6. CASE P!waitForChild(c)
  BY <1>6 DEF P!waitForChild
<1>7. CASE P!childEnds(c)
  BY <1>7 DEF P!childEnds, Callers
<1> QED BY <1>1, <1>2, <1>3, <1>4, <1>5, <1>6, <1>7 DEF HandlerStep

LEMMA HandlingPreserved ==
  Handling /\ OwnPipes /\ [Next]_vars => Handling' /\ OwnPipes'
<1> SUFFICES ASSUME Handling, OwnPipes, [Next]_vars
             PROVE  Handling' /\ OwnPipes'
  OBVIOUS
<1>1. CASE UNCHANGED programs
  BY <1>1 DEF programs, Handling, OwnPipes
<1> QED BY <1>1, HandlerNext, HandlingStep

LEMMA HandlingInit == Init => Handling /\ OwnPipes
BY Names DEF Init, P!ProcessInit, Handling, OwnPipes, Callers

\* The runner's call is not touched by those of other threads.
LEMMA OthersCalls ==
  ASSUME Handling, NEW c \in Clients, HandlerStep(c)
  PROVE  at'[Runner] = at[Runner] /\ child'[Runner] = child[Runner]
BY Names
DEF Handling, HandlerStep, P!runProgram, P!createPipes, P!setCloseOnExec, P!fork,
    P!forkFails, P!waitForChild, P!childEnds

-----------------------------------------------------------------------------
(* The backend *)

LEMMA BackendInit == Init => Backend
BY Names
DEF Init, P!ProcessInit, Backend, ProcessFollowsRunner, ModeFollowsIO,
    ModeFollowsProcess, Connected, ModeFollowsMain, ClientControl, Undisturbed,
    Callers

\* A build thread takes part in invoke().
LEMMA BackendOfClient ==
  ASSUME TypeOK, Backend, NEW c \in Clients, invoke(c) \/ ClientStep(c)
  PROVE  Backend'
<1> USE Names
    DEF TypeOK, Backend, client, service, process, programs
<1>1. UNCHANGED programs /\ UNCHANGED <<main, runner, java, java_in, exits, accepting, reading>>
  BY DEF invoke, ClientStep, start, startIdle, startStopped, cleanup,
         waitForStartup, makeRequest, dequeue, launch
<1>2. main = "building"
  BY DEF invoke, ClientStep, start, startIdle, startStopped, cleanup,
         waitForStartup, makeRequest, dequeue, launch, ModeFollowsMain, BuildOver
<1>3. /\ \A d \in Clients : d # c => pc'[d] = pc[d]
      /\ pc'[c] # pc[c] \/ UNCHANGED pc
  BY DEF invoke, ClientStep, start, startIdle, startStopped, cleanup,
         waitForStartup, makeRequest, dequeue, launch
<1>4. CASE startIdle(c) \/ cleanup(c)
  <2>1. /\ run_mode' = "starting_up" /\ io' = "setup" /\ pc'[c] = "startup"
        /\ mutex' = Free /\ io \in {"none", "done"} /\ UNCHANGED writes
        /\ run_mode \in {"idle", "stopped"}
        /\ \A d \in Clients : d # c => pc[d] # "cleanup"
    BY <1>4 DEF startIdle, cleanup, launch, ModeFollowsIO, ClientControl
  <2>2. runner # "running"
    BY <2>1 DEF ModeFollowsIO
  <2>3. ProcessFollowsRunner'
    BY <1>1 DEF ProcessFollowsRunner
  <2>4. ModeFollowsIO'
    BY <1>1, <2>1, <2>2 DEF ModeFollowsIO
  <2>5. ModeFollowsProcess' /\ ModeFollowsMain'
    BY <1>1, <1>2, <2>1 DEF ModeFollowsProcess, ModeFollowsMain, Connected
  <2>6. ClientControl'
    BY <1>3, <2>1 DEF ClientControl
  <2>7. Undisturbed'
    BY <1>1, <1>2, <1>3, <2>1, <2>2
    DEF Undisturbed, ModeFollowsIO, ModeFollowsProcess, Connected
  <2> QED BY <2>3, <2>4, <2>5, <2>6, <2>7
<1>5. CASE ~(startIdle(c) \/ cleanup(c))
  <2>1. UNCHANGED <<run_mode, io, sock>>
    BY <1>5 DEF invoke, ClientStep, start, startStopped, waitForStartup,
                makeRequest, dequeue
  <2>2. Shutdown \in writes' => Shutdown \in writes
    BY <1>5 DEF invoke, ClientStep, start, startStopped, waitForStartup,
                makeRequest, dequeue, Shutdown, Requests
  <2>3. ProcessFollowsRunner' /\ ModeFollowsIO' /\ ModeFollowsProcess'
    BY <1>1, <2>1
    DEF ProcessFollowsRunner, ModeFollowsIO, ModeFollowsProcess, Connected
  <2>4. ModeFollowsMain'
    BY <1>1, <1>2, <2>1, <2>2 DEF ModeFollowsMain
  <2>5. ClientControl'
    <3>1. \/ UNCHANGED mutex /\ pc'[c] # "cleanup" /\ pc[c] # "cleanup"
          \/ /\ mutex = Free /\ mutex' = c
             /\ pc'[c] = "cleanup" /\ run_mode = "stopped"
      BY <1>5 DEF invoke, ClientStep, start, startStopped, waitForStartup,
                  makeRequest, dequeue
    <3>2. pc'[c] # "logic_error"
      BY <1>2, <1>5
      DEF invoke, ClientStep, start, startStopped, waitForStartup, makeRequest,
          dequeue, ClientControl, ModeFollowsMain
    <3> QED BY <1>3, <2>1, <3>1, <3>2 DEF ClientControl
  <2>6. Undisturbed'
    <3>1. exits = 0 =>
            /\ pc'[c] = "register" => run_mode = "running"
            /\ pc'[c] \notin {"cleanup", "null_sock"}
      BY <1>1, <1>2, <1>5
      DEF invoke, ClientStep, start, startStopped, waitForStartup, makeRequest,
          dequeue, Undisturbed, ModeFollowsProcess, ModeFollowsIO, ModeFollowsMain
    <3> QED BY <1>1, <1>2, <1>3, <2>1, <3>1 DEF Undisturbed
  <2> QED BY <2>3, <2>4, <2>5, <2>6
<1> QED BY <1>4, <1>5

LEMMA BackendOfProgram ==
  ASSUME TypeOK, Handling, Backend, NEW c \in Clients,
         invokeProgram(c) \/ ProgramStep(c) \/ ProgramEnds(c)
  PROVE  Backend'
<1> USE Names DEF TypeOK, Backend
<1>1. UNCHANGED <<backend, process>> /\ HandlerStep(c)
  BY DEF invokeProgram, ProgramStep, ProgramEnds, programDone, HandlerStep, client
<1>2. UNCHANGED pc \/ (pc'[c] \in {"program", "idle"} /\ pc[c] \in {"idle", "program"}
                       /\ \A d \in Clients : d # c => pc'[d] = pc[d])
  BY DEF invokeProgram, ProgramStep, ProgramEnds, programDone, client
<1>3. main = "building"
  BY DEF invokeProgram, ProgramStep, ProgramEnds, programDone, ModeFollowsMain,
         BuildOver
<1>4. at'[Runner] = at[Runner] /\ child'[Runner] = child[Runner]
  BY <1>1, OthersCalls
<1> USE DEF backend, process, service
<1>5. ProcessFollowsRunner'
  BY <1>1, <1>4 DEF ProcessFollowsRunner
<1>6. ModeFollowsIO' /\ ModeFollowsProcess'
  BY <1>1 DEF ModeFollowsIO, ModeFollowsProcess, Connected
<1>7. ModeFollowsMain'
  BY <1>1, <1>3 DEF ModeFollowsMain
<1>8. ClientControl'
  BY <1>1, <1>2 DEF ClientControl
<1>9. Undisturbed'
  BY <1>1, <1>2 DEF Undisturbed
<1> QED BY <1>5, <1>6, <1>7, <1>8, <1>9

LEMMA BackendOfMain ==
  ASSUME TypeOK, Backend, MainStep
  PROVE  Backend'
<1> USE Names DEF TypeOK, Backend, client, service, process, programs
<1>1. UNCHANGED <<programs, client, mutex, runner, java, java_in, exits, accepting, reading>>
  BY DEF MainStep, finish, waitForShutdown, finishCleanup
<1>2. main # "done" /\ BuildOver /\ mutex = Free
  BY DEF MainStep, finish, waitForShutdown, finishCleanup, ModeFollowsMain
<1>3. \A c \in Clients : pc[c] = "idle"
  BY <1>2 DEF BuildOver
<1>4. BuildOver'
  BY <1>1, <1>2 DEF BuildOver
<1>5. ProcessFollowsRunner'
  BY <1>1 DEF ProcessFollowsRunner
<1>6. ModeFollowsIO'
  BY DEF MainStep, finish, waitForShutdown, finishCleanup, ModeFollowsIO, setRunMode
<1>7. ModeFollowsProcess'
  BY <1>1
  DEF MainStep, finish, waitForShutdown, finishCleanup, ModeFollowsProcess,
      ModeFollowsIO, ProcessFollowsRunner, setRunMode, Connected, ModeFollowsMain
<1>8. ModeFollowsMain'
  BY <1>1, <1>4
  DEF MainStep, finish, waitForShutdown, finishCleanup, setRunMode, ModeFollowsMain
<1>9. ClientControl'
  BY <1>1, <1>3 DEF ClientControl
<1>10. Undisturbed'
  <2>1. main' # "building"
    BY DEF MainStep, finish, waitForShutdown, finishCleanup
  <2> QED BY <1>1, <1>3, <2>1 DEF Undisturbed
<1> QED BY <1>5, <1>6, <1>7, <1>8, <1>9, <1>10

LEMMA BackendOfIO ==
  ASSUME TypeOK, Handling, Backend, IOStep
  PROVE  Backend'
<1> USE Names DEF TypeOK, Backend, client, service, process
<1>0. \A c \in Clients : pc[c] = "cleanup" => mutex # Free
  BY DEF ClientControl
<1>1. CASE runIO
  <2>1. /\ io = "setup" /\ io' = "run" /\ sock' = "open" /\ runner' = "running"
        /\ UNCHANGED <<run_mode, mutex, client, main, exits>>
        /\ writes' = {} /\ java_in' = {} /\ java' = "none" /\ ~reading'
        /\ at'[Runner] = "begun"
    BY <1>1 DEF runIO, P!runProgram, Handling
  <2>2. run_mode = "starting_up"
    BY <2>1 DEF ModeFollowsIO
  <2>3. ProcessFollowsRunner' /\ ModeFollowsIO' /\ ModeFollowsProcess'
    BY <2>1, <2>2 DEF ProcessFollowsRunner, ModeFollowsIO, ModeFollowsProcess
  <2>4. ModeFollowsMain' /\ ClientControl'
    BY <2>1, <2>2 DEF ModeFollowsMain, ClientControl, BuildOver
  <2>5. Undisturbed'
    BY <2>1, <2>2 DEF Undisturbed
  <2> QED BY <2>3, <2>4, <2>5
<1>2. CASE handleWrite(Shutdown) \/ \E m \in writes : handleWrite(m)
  <2>1. /\ UNCHANGED <<run_mode, mutex, client, main, exits, sock, accepting, io,
                       runner, java, reading>>
        /\ Shutdown \in writes' \cup java_in' => Shutdown \in writes \cup java_in
    BY <1>2 DEF handleWrite
  <2>2. ~runIO /\ UNCHANGED <<at, child>>
    BY <1>2, IOStep DEF IOStep, runIO, handleWrite, programs
  <2>3. ProcessFollowsRunner' /\ ModeFollowsIO' /\ ModeFollowsProcess'
    BY <2>1, <2>2
    DEF ProcessFollowsRunner, ModeFollowsIO, ModeFollowsProcess, Connected
  <2>4. ModeFollowsMain' /\ ClientControl' /\ Undisturbed'
    BY <2>1 DEF ModeFollowsMain, ClientControl, BuildOver, Undisturbed
  <2> QED BY <2>3, <2>4
<1>3. CASE handleAccept
  <2>1. /\ UNCHANGED <<mutex, client, main, exits, sock, io, runner, java, writes, java_in>>
        /\ io = "run" /\ run_mode' = "running" /\ ~accepting' /\ Connected /\ mutex = Free
        /\ accepting
    BY <1>3 DEF handleAccept, setRunMode
  <2>2. UNCHANGED <<at, child>>
    BY <1>3, IOStep DEF IOStep, runIO, handleAccept, programs
  <2>3. run_mode = "starting_up"
    BY <2>1 DEF ModeFollowsProcess
  <2>4. ProcessFollowsRunner' /\ ModeFollowsIO' /\ ModeFollowsProcess'
    BY <2>1, <2>2
    DEF ProcessFollowsRunner, ModeFollowsIO, ModeFollowsProcess, Connected
  <2>5. ModeFollowsMain' /\ ClientControl' /\ Undisturbed'
    BY <1>0, <2>1, <2>3 DEF ModeFollowsMain, ClientControl, BuildOver, Undisturbed
  <2> QED BY <2>4, <2>5
<1>4. CASE handleRead
  <2>1. /\ UNCHANGED <<mutex, client, main, exits, sock, io, runner, java, writes, java_in,
                       run_mode, accepting>>
        /\ reading' => reading
    BY <1>4 DEF handleRead
  <2>2. UNCHANGED <<at, child>>
    BY <1>4, IOStep DEF IOStep, runIO, handleRead, programs
  <2>3. ProcessFollowsRunner' /\ ModeFollowsIO' /\ ModeFollowsProcess'
    BY <2>1, <2>2
    DEF ProcessFollowsRunner, ModeFollowsIO, ModeFollowsProcess, Connected
  <2>4. ModeFollowsMain' /\ ClientControl' /\ Undisturbed'
    BY <2>1 DEF ModeFollowsMain, ClientControl, BuildOver, Undisturbed
  <2> QED BY <2>3, <2>4
<1>5. CASE \E eof \in BOOLEAN : handleReadEnd(eof)
  <2>1. /\ UNCHANGED <<mutex, client, main, exits, sock, io, runner, java, writes,
                       java_in, accepting>>
        /\ io = "run" /\ java \in {"closed", "exited"} /\ mutex = Free
        /\ run_mode' = "stopped" \/ UNCHANGED run_mode
    BY <1>5 DEF handleReadEnd, setRunMode
  <2>2. UNCHANGED <<at, child>>
    BY <1>5, IOStep DEF IOStep, runIO, handleReadEnd, programs
  <2>3. ~accepting
    BY <1>5, <2>1 DEF handleReadEnd, ModeFollowsProcess
  <2>4. ProcessFollowsRunner' /\ ModeFollowsIO' /\ ModeFollowsProcess'
    BY <2>1, <2>2, <2>3
    DEF ProcessFollowsRunner, ModeFollowsIO, ModeFollowsProcess, Connected
  <2>5. ModeFollowsMain' /\ ClientControl'
    BY <1>0, <2>1 DEF ModeFollowsMain, ClientControl, BuildOver
  <2>6. Undisturbed'
    BY <2>1 DEF Undisturbed, ModeFollowsMain, BuildOver
  <2> QED BY <2>4, <2>5, <2>6
<1>6. CASE runReturns
  <2>1. /\ UNCHANGED <<mutex, client, main, exits, sock, runner, java, writes, java_in,
                       run_mode, accepting, reading>>
        /\ io = "run" /\ io' = "join"
    BY <1>6 DEF runReturns
  <2>2. UNCHANGED <<at, child>>
    BY <1>6, IOStep DEF IOStep, runIO, runReturns, programs
  <2>3. ProcessFollowsRunner' /\ ModeFollowsIO' /\ ModeFollowsProcess'
    BY <2>1, <2>2
    DEF ProcessFollowsRunner, ModeFollowsIO, ModeFollowsProcess, Connected
  <2>4. ModeFollowsMain' /\ ClientControl' /\ Undisturbed'
    BY <2>1 DEF ModeFollowsMain, ClientControl, BuildOver, Undisturbed
  <2> QED BY <2>3, <2>4
<1>7. CASE runIOEnd
  <2>1. /\ UNCHANGED <<mutex, client, main, exits, sock, runner, java, writes, java_in,
                       accepting>>
        /\ io = "join" /\ io' = "done" /\ runner = "done" /\ mutex = Free
        /\ run_mode' = IF run_mode = "starting_up" THEN "startup_failed" ELSE "stopped"
    BY <1>7 DEF runIOEnd, setRunMode
  <2>2. UNCHANGED <<at, child>>
    BY <1>7, IOStep DEF IOStep, runIO, runIOEnd, programs
  <2>3. run_mode # "starting_up" => java = "exited"
    BY <2>1 DEF ProcessFollowsRunner, ModeFollowsIO, ModeFollowsProcess, Connected
  <2>4. ProcessFollowsRunner' /\ ModeFollowsIO' /\ ModeFollowsProcess'
    BY <2>1, <2>2, <2>3
    DEF ProcessFollowsRunner, ModeFollowsIO, ModeFollowsProcess, Connected
  <2>5. ModeFollowsMain' /\ ClientControl'
    BY <1>0, <2>1, <2>3 DEF ModeFollowsMain, ClientControl, BuildOver
  <2>6. Undisturbed'
    BY <2>1, <2>3 DEF Undisturbed, ModeFollowsMain, BuildOver
  <2> QED BY <2>4, <2>5, <2>6
<1> QED BY <1>1, <1>2, <1>3, <1>4, <1>5, <1>6, <1>7 DEF IOStep

LEMMA BackendOfRunner ==
  ASSUME TypeOK, Handling, OwnPipes, Backend, RunnerStep \/ JavaProgress \/ JavaDies
  PROVE  Backend'
<1> USE Names DEF TypeOK, Backend, client, service, process, backend
<1>1. /\ UNCHANGED <<run_mode, mutex, client, main, sock, io, writes, accepting, reading>>
      /\ Shutdown \in java_in' => Shutdown \in java_in
  BY DEF RunnerStep, forkJava, forkJavaFails, runJava, JavaProgress, JavaDies,
         JavaConnects, JavaFailsToStart, JavaResponds, JavaShutsDown, JavaExits, quiet
<1>2. CASE RunnerStep
  <2>1. CASE runJava
    <3>1. /\ runner = "running" /\ runner' = "done" /\ at[Runner] = "outside"
          /\ UNCHANGED <<at, child, java, exits>>
      BY <2>1 DEF runJava, programs
    <3>2. ProcessFollowsRunner'
      BY <3>1 DEF ProcessFollowsRunner
    <3>3. ModeFollowsIO'
      BY <1>1, <3>1 DEF ModeFollowsIO
    <3>4. ModeFollowsProcess' /\ ModeFollowsMain' /\ ClientControl' /\ Undisturbed'
      BY <1>1, <3>1
      DEF ModeFollowsProcess, Connected, ModeFollowsMain, ClientControl, BuildOver,
          Undisturbed
    <3> QED BY <3>2, <3>3, <3>4
  <2>2. CASE ~runJava
    <3>1. UNCHANGED <<runner, exits>> /\ at[Runner] # "outside"
      BY <1>2, <2>2
      DEF RunnerStep, forkJava, forkJavaFails, P!createPipes, P!setCloseOnExec, P!fork,
          P!forkFails, P!mayFork, P!waitForChild
    <3>2. runner = "running"
      BY <3>1 DEF ProcessFollowsRunner
    <3>3. UNCHANGED java \/ (java = "none" /\ java' \in {"starting", "failed"})
      BY <1>2, <2>2, <3>2
      DEF RunnerStep, forkJava, forkJavaFails, P!fork, P!forkFails, P!mayFork,
          ProcessFollowsRunner
    <3>4. ProcessFollowsRunner'
      <4>1. CASE forkJava
        <5>1. at'[Runner] = "waiting" /\ child'[Runner] = "running" /\ java' = "starting"
          BY <4>1 DEF forkJava, P!fork, Handling
        <5> QED BY <3>1, <3>2, <5>1 DEF ProcessFollowsRunner
      <4>2. CASE forkJavaFails
        <5>1. at'[Runner] = "outside" /\ java' = "failed"
          BY <4>2 DEF forkJavaFails, P!forkFails, Handling
        <5> QED BY <3>1, <3>2, <5>1 DEF ProcessFollowsRunner
      <4>3. CASE P!createPipes(Runner) \/ P!setCloseOnExec(Runner)
        <5>1. at[Runner] \in {"begun", "piped"} /\ at'[Runner] \in {"piped", "marked"}
          BY <4>3 DEF P!createPipes, P!setCloseOnExec, Handling
        <5>2. UNCHANGED java
          BY <1>2, <2>2, <4>3, <5>1
          DEF RunnerStep, forkJava, forkJavaFails, P!fork, P!forkFails, Handling
        <5> QED BY <3>1, <3>2, <5>1, <5>2 DEF ProcessFollowsRunner
      <4>4. CASE P!waitForChild(Runner)
        <5>1. /\ at[Runner] = "waiting" /\ child[Runner] = "ended"
              /\ at'[Runner] = "outside"
          BY <4>4 DEF P!waitForChild, Handling
        <5>2. UNCHANGED java
          BY <5>1, <3>3, <3>2 DEF ProcessFollowsRunner
        <5> QED BY <3>1, <3>2, <5>1, <5>2 DEF ProcessFollowsRunner
      <4> QED BY <1>2, <2>2, <4>1, <4>2, <4>3, <4>4 DEF RunnerStep
    <3>5. ModeFollowsIO'
      BY <1>1, <3>1 DEF ModeFollowsIO
    <3>6. ModeFollowsProcess'
      BY <1>1, <3>2, <3>3 DEF ModeFollowsProcess, Connected, ModeFollowsIO
    <3>7. ModeFollowsMain' /\ ClientControl' /\ Undisturbed'
      BY <1>1, <3>1, <3>3 DEF ModeFollowsMain, ClientControl, BuildOver, Undisturbed
    <3> QED BY <3>4, <3>5, <3>6, <3>7
  <2> QED BY <2>1, <2>2
<1>3. CASE JavaProgress \/ JavaDies
  <2>1. runner = "running" /\ UNCHANGED <<runner, at>> /\ at[Runner] = "waiting"
        /\ child[Runner] = "running"
    <3>1. java \in {"starting", "connected", "closed"}
      BY <1>3 DEF JavaProgress, JavaDies, JavaConnects, JavaFailsToStart,
         JavaResponds, JavaShutsDown, JavaExits
    <3>2. UNCHANGED <<runner, at>>
      BY <1>3 DEF JavaProgress, JavaDies, JavaConnects, JavaFailsToStart,
         JavaResponds, JavaShutsDown, JavaExits, quiet, programs, P!childEnds
    <3> QED BY <3>1, <3>2 DEF ProcessFollowsRunner
  <2>2. io \in {"run", "join"}
    BY <2>1 DEF ModeFollowsIO
  <2>3. \/ java = "starting" /\ java' = "connected" /\ UNCHANGED <<child, exits>>
        \/ java = "starting" /\ java' = "failed" /\ child'[Runner] = "ended" /\ UNCHANGED exits
        \/ java = "connected" /\ UNCHANGED <<java, child, exits>>
        \/ java = "connected" /\ java' = "closed" /\ UNCHANGED <<child, exits>>
           /\ Shutdown \in java_in
        \/ java = "connected" /\ java' = "closed" /\ UNCHANGED child /\ exits' = exits + 1
        \/ java = "closed" /\ java' = "exited" /\ child'[Runner] = "ended" /\ UNCHANGED exits
    BY <1>3 DEF JavaProgress, JavaDies, JavaConnects, JavaFailsToStart,
         JavaResponds, JavaShutsDown, JavaExits, quiet, programs, P!childEnds, Handling
  <2>4. ProcessFollowsRunner'
    BY <2>1, <2>3 DEF ProcessFollowsRunner
  <2>5. ModeFollowsIO'
    BY <1>1, <2>1 DEF ModeFollowsIO
  <2>6. ModeFollowsProcess'
    BY <1>1, <2>2, <2>3 DEF ModeFollowsProcess, Connected, ModeFollowsIO
  <2>7. ModeFollowsMain' /\ ClientControl'
    BY <1>1 DEF ModeFollowsMain, ClientControl, BuildOver
  <2>8. Undisturbed'
    BY <1>1, <2>3 DEF Undisturbed, ModeFollowsMain
  <2> QED BY <2>4, <2>5, <2>6, <2>7, <2>8
<1> QED BY <1>2, <1>3

LEMMA BackendStep == IInv /\ [Next]_vars => Backend'
<1> SUFFICES ASSUME TypeOK, Handling, OwnPipes, Backend, [Next]_vars PROVE Backend'
  BY DEF IInv
<1>1. CASE Done \/ UNCHANGED vars
  <2>1. /\ UNCHANGED <<run_mode, mutex, sock, main, io, accepting, reading, writes, runner>>
        /\ UNCHANGED <<pc, turns, java, java_in, exits, at, child>>
    BY <1>1 DEF Done, vars, backend, client, service, process, programs
  <2> USE DEF Backend
  <2>2. ProcessFollowsRunner' /\ ModeFollowsIO'
    BY <2>1 DEF ProcessFollowsRunner, ModeFollowsIO
  <2>3. ModeFollowsProcess' /\ ModeFollowsMain'
    BY <2>1 DEF ModeFollowsProcess, Connected, ModeFollowsMain, BuildOver
  <2>4. ClientControl' /\ Undisturbed'
    BY <2>1 DEF ClientControl, Undisturbed
  <2> QED BY <2>2, <2>3, <2>4
<1> QED BY <1>1, BackendOfClient, BackendOfProgram, BackendOfMain, BackendOfIO,
           BackendOfRunner DEF Next

-----------------------------------------------------------------------------
(* The number of requests *)

LEMMA AllTurns ==
  /\ IsFiniteSet(Clients \X (1..Turns))
  /\ Cardinality(Clients \X (1..Turns)) = Cardinality(Clients) * Turns
<1>1. IsFiniteSet(1..Turns) /\ Cardinality(1..Turns) = Turns
  BY FS_Interval, TurnsAssumption
<1> QED BY <1>1, FS_Product, ClientsAssumption

\* What a step does to a build thread's turn.
LEMMA ClientsMove ==
  ASSUME TypeOK, [Next]_vars, NEW d \in Clients
  PROVE  \/ turns'[d] = turns[d] /\ (pc'[d] \in Asking => pc[d] \in Asking)
         \/ turns'[d] = turns[d] + 1 /\ pc[d] = "idle"
<1> USE DEF TypeOK, Asking
<1>1. CASE \E c \in Clients : invoke(c) \/ ClientStep(c)
  BY <1>1 DEF invoke, ClientStep, start, startIdle, startStopped, cleanup,
              waitForStartup, makeRequest, dequeue, launch
<1>2. CASE \E c \in Clients : invokeProgram(c) \/ ProgramStep(c) \/ ProgramEnds(c)
  BY <1>2 DEF invokeProgram, ProgramStep, ProgramEnds, programDone, client
<1>3. CASE MainStep \/ Done \/ UNCHANGED vars
  BY <1>3 DEF MainStep, finish, waitForShutdown, finishCleanup, Done, vars, client
<1>4. CASE IOStep
  BY <1>4 DEF IOStep, runIO, handleAccept, handleRead, handleReadEnd, handleWrite,
              runReturns, runIOEnd, client
<1>5. CASE RunnerStep
  BY <1>5 DEF RunnerStep, forkJava, forkJavaFails, runJava, client
<1>6. CASE JavaProgress \/ JavaDies
  BY <1>6 DEF JavaProgress, JavaDies, JavaConnects, JavaFailsToStart, JavaResponds,
              JavaShutsDown, JavaExits, quiet, client
<1> QED BY <1>1, <1>2, <1>3, <1>4, <1>5, <1>6 DEF Next

\* A turn that has been used stays so.
LEMMA UsedTurnsStay ==
  ASSUME TypeOK, [Next]_vars
  PROVE  TurnsUsed \subseteq TurnsUsed'
<1> SUFFICES ASSUME NEW turn \in TurnsUsed PROVE turn \in TurnsUsed'
  OBVIOUS
<1> DEFINE c == turn[1]
<1>1. c \in Clients /\ turn[2] \in 1..Turns /\ turn \in Clients \X (1..Turns)
  BY DEF TurnsUsed
<1>2. turn[2] < turns[c] \/ (turn[2] = turns[c] /\ pc[c] \notin Asking)
  BY DEF TurnsUsed
<1>3. \/ turns'[c] = turns[c] /\ (pc'[c] \in Asking => pc[c] \in Asking)
      \/ turns'[c] = turns[c] + 1 /\ pc[c] = "idle"
  BY <1>1, ClientsMove
<1>4. turns[c] \in Nat
  BY <1>1 DEF TypeOK
<1>5. turn[2] < turns'[c] \/ (turn[2] = turns'[c] /\ pc'[c] \notin Asking)
  <2> HIDE DEF c
  <2> QED BY <1>1, <1>2, <1>3, <1>4 DEF Asking
<1> QED BY <1>1, <1>5 DEF TurnsUsed

LEMMA CountedKept ==
  ASSUME TypeOK, Counted, [Next]_vars, UNCHANGED last_request
  PROVE  Counted'
<1>1. IsFiniteSet(TurnsUsed') /\ TurnsUsed \subseteq TurnsUsed'
  BY AllTurns, FS_Subset, UsedTurnsStay DEF TurnsUsed
<1>2. IsFiniteSet(TurnsUsed) /\ Cardinality(TurnsUsed) <= Cardinality(TurnsUsed')
  BY <1>1, FS_Subset
<1>3. Cardinality(TurnsUsed) \in Nat /\ Cardinality(TurnsUsed') \in Nat
  BY <1>1, <1>2, FS_CardinalityType
<1>4. last_request' <= Cardinality(TurnsUsed')
  BY <1>2, <1>3 DEF Counted, TypeOK, Requests
<1>5. ASSUME NEW c \in Clients, pc'[c] \in Asking PROVE turns'[c] >= 1
  BY <1>5, ClientsMove DEF Counted, TypeOK
<1> QED BY <1>4, <1>5 DEF Counted

LEMMA RequestCounted ==
  ASSUME TypeOK, Counted, NEW c \in Clients, makeRequest(c)
  PROVE  Counted' /\ last_request + 1 \in Requests
<1> DEFINE turn == <<c, turns[c]>>
<1>1. /\ pc[c] = "register" /\ UNCHANGED turns /\ last_request' = last_request + 1
      /\ \A d \in Clients : d # c => pc'[d] = pc[d]
      /\ pc'[c] \notin Asking
  BY DEF makeRequest, TypeOK, Asking
<1>2. turn \in Clients \X (1..Turns) /\ turn \notin TurnsUsed
  BY <1>1, TurnsAssumption DEF Counted, TypeOK, TurnsUsed, Asking
<1>3. TurnsUsed' = TurnsUsed \cup {turn}
  <2>1. turn \in TurnsUsed'
    BY <1>1, <1>2 DEF TurnsUsed
  <2>2. ASSUME NEW t \in Clients \X (1..Turns), t # turn
        PROVE  t \in TurnsUsed' <=> t \in TurnsUsed
    <3>1. t = <<t[1], t[2]>> /\ t[1] \in Clients
      BY <2>2
    <3>2. CASE t[1] = c
      <4>1. t[2] # turns[c]
        BY <2>2, <3>1, <3>2
      <4> QED BY <1>1, <3>2, <4>1 DEF TurnsUsed
    <3>3. CASE t[1] # c
      BY <1>1, <3>1, <3>3 DEF TurnsUsed
    <3> QED BY <3>2, <3>3
  <2> QED BY <1>2, <2>1, <2>2 DEF TurnsUsed
<1>4. IsFiniteSet(TurnsUsed) /\ IsFiniteSet(TurnsUsed')
  BY AllTurns, FS_Subset DEF TurnsUsed
<1>5. /\ Cardinality(TurnsUsed') = Cardinality(TurnsUsed) + 1
      /\ Cardinality(TurnsUsed) \in Nat
  BY <1>2, <1>3, <1>4, FS_AddElement, FS_CardinalityType
<1>6. Cardinality(TurnsUsed') <= Cardinality(Clients) * Turns
  BY AllTurns, FS_Subset DEF TurnsUsed
<1>7. last_request \in Nat /\ Cardinality(Clients) * Turns \in Nat
  BY ClientsAssumption, TurnsAssumption, FS_CardinalityType DEF TypeOK, Requests
<1>8. last_request' <= Cardinality(TurnsUsed')
  BY <1>1, <1>5, <1>7 DEF Counted
<1>9. \A d \in Clients : pc'[d] \in Asking => turns'[d] >= 1
  BY <1>1 DEF Counted
<1>10. last_request + 1 \in Requests
  <2> DEFINE n == Cardinality(Clients) * Turns
             k == Cardinality(TurnsUsed')
  <2>1. n \in Nat /\ k <= n /\ last_request + 1 <= k /\ k \in Nat
    BY <1>1, <1>5, <1>6, <1>7, <1>8
  <2>2. Requests = 1..n
    BY DEF Requests
  <2> HIDE DEF n, k
  <2> QED BY <1>7, <2>1, <2>2
<1> QED BY <1>8, <1>9, <1>10 DEF Counted

-----------------------------------------------------------------------------
(* The types *)

LEMMA Lists ==
  /\ <<>> \in Seq(Response)
  /\ \A list \in Seq(Response), m \in Response : Append(list, m) \in Seq(Response)
  /\ \A list \in Seq(Response) :
       list # <<>> => Head(list) \in Response /\ Tail(list) \in Seq(Response)
  /\ \A list \in Seq(BOOLEAN), b \in BOOLEAN : Append(list, b) \in Seq(BOOLEAN)
  /\ \A m \in Response : m.request \in Requests /\ m.status \in BOOLEAN
<1>1. \A m \in Response : m.request \in Requests /\ m.status \in BOOLEAN
  BY DEF Response
<1> QED BY <1>1, ListTypes

ControlTypes ==
  /\ run_mode \in {"idle", "starting_up", "startup_failed", "running",
                   "shutting_down", "stopped"}
  /\ mutex \in Clients \cup {Free}
  /\ asleep \subseteq Clients \cup {Main}
  /\ sock \in {"none", "open"}
  /\ main \in {"building", "shutdown", "cleanup", "done"}
  /\ io \in {"none", "setup", "run", "join", "done"}
  /\ accepting \in BOOLEAN /\ reading \in BOOLEAN /\ stopped \in BOOLEAN
  /\ runner \in {"none", "running", "done"}
  /\ java \in {"none", "starting", "connected", "closed", "exited", "failed"}

ClientTypes ==
  /\ pc \in [Clients -> {"idle", "start", "startup", "cleanup", "register",
                        "dequeue", "null_sock", "logic_error", "program"}]
  /\ request \in [Clients -> Requests \cup {0}]
  /\ turns \in [Clients -> 0..Turns]

ExitTypes == exits \in 0..MaxExits

RequestTypes ==
  /\ last_request \in Requests \cup {0}
  /\ job_data \subseteq Requests
  /\ writes \subseteq Requests \cup {Shutdown}
  /\ java_in \subseteq Requests \cup {Shutdown}

AnswerTypes ==
  /\ responses \in [Requests -> Seq(BOOLEAN)]
  /\ java_out \in Seq(Response)
  /\ verdict \in [Requests -> SUBSET BOOLEAN]

LEMMA Types == TypeOK <=> /\ ControlTypes /\ ExitTypes
                        /\ ClientTypes /\ RequestTypes /\ AnswerTypes
BY Zenon DEF TypeOK, ControlTypes, ExitTypes, ClientTypes, RequestTypes, AnswerTypes

LEMMA TypesNext ==
  ASSUME ControlTypes', ExitTypes', ClientTypes', RequestTypes', AnswerTypes'
  PROVE  TypeOK'
BY DEF TypeOK, ControlTypes, ExitTypes, ClientTypes, RequestTypes, AnswerTypes

LEMMA TypeInit == Init => TypeOK
<1> SUFFICES ASSUME Init PROVE TypeOK
  OBVIOUS
<1> USE DEF Init
<1>1. ControlTypes
  BY DEF ControlTypes
<1>5. ExitTypes
  BY TurnsAssumption DEF ExitTypes
<1>2. ClientTypes
  BY TurnsAssumption DEF ClientTypes
<1>3. RequestTypes
  BY DEF RequestTypes
<1>4. AnswerTypes
  BY Lists, ListTypes DEF AnswerTypes
<1> QED BY <1>1, <1>2, <1>3, <1>4, <1>5, Types

LEMMA TypeOfClient ==
  ASSUME TypeOK, Counted, NEW c \in Clients, invoke(c) \/ ClientStep(c)
  PROVE  TypeOK'
<1> USE Types, TurnsAssumption DEF service, process, backend, programs
<1>1. UNCHANGED <<responses, java_out, verdict, java_in, main, accepting, reading,
                  stopped, runner, java, exits>>
  BY DEF invoke, ClientStep, start, startIdle, startStopped, cleanup,
         waitForStartup, makeRequest, dequeue, launch
<1>2. ControlTypes'
  BY <1>1
  DEF ControlTypes, invoke, ClientStep, start, startIdle, startStopped, cleanup,
      waitForStartup, makeRequest, dequeue, launch
<1>3. ClientTypes'
  <2>1. CASE makeRequest(c)
    BY <2>1, RequestCounted DEF makeRequest, ClientTypes
  <2>2. CASE invoke(c)
    BY <2>2 DEF invoke, ClientTypes
  <2>3. CASE startIdle(c) \/ cleanup(c)
    BY <2>3 DEF startIdle, cleanup, launch, ClientTypes
  <2>4. CASE start(c) \/ startStopped(c) \/ waitForStartup(c) \/ dequeue(c)
    BY <2>4 DEF start, startStopped, waitForStartup, dequeue, ClientTypes
  <2> QED BY <2>1, <2>2, <2>3, <2>4 DEF ClientStep
<1>4. RequestTypes'
  <2>1. CASE makeRequest(c)
    BY <1>1, <2>1, RequestCounted DEF makeRequest, RequestTypes
  <2>2. CASE ~makeRequest(c)
    <3>1. UNCHANGED <<last_request, job_data, writes>>
      BY <2>2 DEF invoke, ClientStep, start, startIdle, startStopped, cleanup,
                  waitForStartup, dequeue, launch
    <3> QED BY <1>1, <3>1 DEF RequestTypes
  <2> QED BY <2>1, <2>2
<1>5. AnswerTypes' /\ ExitTypes'
  BY <1>1 DEF AnswerTypes, ExitTypes
<1> QED BY <1>2, <1>3, <1>4, <1>5, TypesNext

LEMMA TypeOfOthers ==
  ASSUME TypeOK,
         \/ \E c \in Clients : invokeProgram(c) \/ ProgramStep(c) \/ ProgramEnds(c)
         \/ MainStep
         \/ RunnerStep
         \/ Done \/ UNCHANGED vars
  PROVE  TypeOK'
<1> USE Types, TurnsAssumption DEF client, service, process, backend, setRunMode
<1>1. CASE \E c \in Clients : invokeProgram(c) \/ ProgramStep(c) \/ ProgramEnds(c)
  <2>1. UNCHANGED <<backend, process>>
    BY <1>1 DEF invokeProgram, ProgramStep, ProgramEnds, programDone
  <2>2. ControlTypes' /\ RequestTypes' /\ AnswerTypes' /\ ExitTypes'
    BY <2>1 DEF ControlTypes, ExitTypes, RequestTypes, AnswerTypes
  <2>3. ClientTypes'
    BY <1>1 DEF invokeProgram, ProgramStep, ProgramEnds, programDone, ClientTypes
  <2> QED BY <2>2, <2>3, TypesNext
<1>2. CASE MainStep
  <2>1. UNCHANGED <<client, process, last_request, job_data, responses>>
    BY <1>2 DEF MainStep, finish, waitForShutdown, finishCleanup
  <2>2. ClientTypes' /\ AnswerTypes' /\ ExitTypes'
    BY <2>1 DEF ClientTypes, ExitTypes, AnswerTypes
  <2>3. ControlTypes'
    BY <1>2 DEF MainStep, finish, waitForShutdown, finishCleanup, ControlTypes
  <2>4. RequestTypes'
    BY <1>2, <2>1 DEF MainStep, finish, waitForShutdown, finishCleanup, RequestTypes
  <2> QED BY <2>2, <2>3, <2>4, TypesNext
<1>3. CASE RunnerStep
  <2>1. UNCHANGED <<client, last_request, job_data, responses, writes, java_in,
                    java_out, verdict, exits>>
    BY <1>3 DEF RunnerStep, forkJava, forkJavaFails, runJava
  <2>2. ClientTypes' /\ AnswerTypes' /\ RequestTypes' /\ ExitTypes'
    BY <2>1 DEF ClientTypes, ExitTypes, AnswerTypes, RequestTypes
  <2>3. ControlTypes'
    <3>1. /\ UNCHANGED <<run_mode, mutex, asleep, sock, main, io, accepting, reading>>
          /\ java' \in {java, "starting", "failed"}
          /\ runner' \in {runner, "done"}
          /\ UNCHANGED stopped \/ stopped' = (stopped \/ run_mode = "starting_up")
      BY <1>3 DEF RunnerStep, forkJava, forkJavaFails, runJava
    <3>2. (stopped \/ run_mode = "starting_up") \in BOOLEAN
      OBVIOUS
    <3>3. stopped' \in BOOLEAN
      BY <3>1, <3>2, Zenon DEF ControlTypes
    <3> QED BY <3>1, <3>3 DEF ControlTypes
  <2> QED BY <2>2, <2>3, TypesNext
<1>4. CASE Done \/ UNCHANGED vars
  <2>1. UNCHANGED <<backend, client, process>>
    BY <1>4 DEF Done, vars
  <2>2. ControlTypes' /\ ClientTypes'
    BY <2>1 DEF ControlTypes, ClientTypes
  <2>3. AnswerTypes' /\ RequestTypes' /\ ExitTypes'
    BY <2>1 DEF ExitTypes, AnswerTypes, RequestTypes
  <2> QED BY <2>2, <2>3, TypesNext
<1> QED BY <1>1, <1>2, <1>3, <1>4

LEMMA TypeOfIO ==
  ASSUME TypeOK, IOStep
  PROVE  TypeOK'
<1> USE Types DEF client, service, process, setRunMode
<1>1. ControlTypes'
  <2>1. CASE runIO \/ handleAccept
    BY <2>1 DEF runIO, handleAccept, ControlTypes
  <2>2. CASE \E eof \in BOOLEAN : handleReadEnd(eof)
    BY <2>2 DEF handleReadEnd, ControlTypes
  <2>3. CASE handleRead \/ (\E m \in writes : handleWrite(m)) \/ runReturns
    <3>1. /\ UNCHANGED <<run_mode, mutex, asleep, sock, main, accepting, stopped,
                         runner, java>>
          /\ io' \in {io, "join"}
      BY <2>3 DEF handleRead, handleWrite, runReturns
    <3>2. reading' \in {reading, FALSE}
      BY <2>3 DEF handleRead, handleWrite, runReturns
    <3>3. reading' \in BOOLEAN
      BY <3>2, Zenon DEF ControlTypes
    <3> QED BY <3>1, <3>3 DEF ControlTypes
  <2>4. CASE runIOEnd
    <3>1. /\ run_mode' \in {"startup_failed", "stopped"} /\ asleep' = {} /\ io' = "done"
          /\ UNCHANGED <<mutex, sock, main, accepting, reading, stopped, runner, java>>
      BY <2>4 DEF runIOEnd
    <3> QED BY <3>1 DEF ControlTypes
  <2> QED BY <2>1, <2>2, <2>3, <2>4 DEF IOStep
<1>2. ClientTypes' /\ ExitTypes'
  BY DEF IOStep, runIO, handleAccept, runReturns, handleReadEnd, handleRead,
         handleWrite, runIOEnd, ClientTypes, ExitTypes
<1>3. RequestTypes'
  BY DEF IOStep, runIO, handleAccept, runReturns, handleReadEnd, handleRead,
         handleWrite, runIOEnd, failPending, handleResponse, RequestTypes
<1>4. AnswerTypes'
  <2> USE DEF AnswerTypes
  <2>1. CASE runIO
    BY <2>1, Lists DEF runIO
  <2>2. CASE handleRead
    <3>1. Head(java_out) \in Response /\ java_out' \in Seq(Response) /\ UNCHANGED verdict
      BY <2>2, Lists DEF handleRead
    <3>2. ASSUME NEW r \in Requests, NEW status \in BOOLEAN, handleResponse(r, status)
          PROVE  responses' \in [Requests -> Seq(BOOLEAN)]
      <4>1. Append(responses[r], status) \in Seq(BOOLEAN)
        BY Lists
      <4> QED BY <3>2, <4>1 DEF handleResponse
    <3>3. responses' \in [Requests -> Seq(BOOLEAN)]
      BY <2>2, <3>1, <3>2, Lists DEF handleRead
    <3> QED BY <3>1, <3>3
  <2>3. CASE runIOEnd
    <3>1. \A r \in Requests : Append(responses[r], FALSE) \in Seq(BOOLEAN)
      BY Lists
    <3> QED BY <2>3, <3>1 DEF runIOEnd, failPending
  <2>4. CASE ~(runIO \/ handleRead \/ runIOEnd)
    BY <2>4 DEF IOStep, handleAccept, runReturns, handleReadEnd, handleWrite
  <2> QED BY <2>1, <2>2, <2>3, <2>4
<1> QED BY <1>1, <1>2, <1>3, <1>4, TypesNext

LEMMA TypeOfJava ==
  ASSUME TypeOK, JavaProgress \/ JavaDies
  PROVE  TypeOK'
<1> USE Types, TurnsAssumption
    DEF client, service, process, backend, quiet, JavaProgress, JavaDies, JavaConnects,
        JavaFailsToStart, JavaShutsDown, JavaExits, JavaResponds
<1>1. ControlTypes'
  <2>1. /\ UNCHANGED <<run_mode, mutex, asleep, sock, main, io, accepting, reading,
                       stopped, runner>>
        /\ java' \in {java, "connected", "failed", "closed", "exited"}
    OBVIOUS
  <2> QED BY <2>1 DEF ControlTypes
<1>2. ClientTypes' /\ RequestTypes'
  <2>1. UNCHANGED <<client, last_request, job_data, writes>> /\ java_in' \subseteq java_in
    OBVIOUS
  <2> QED BY <2>1 DEF ClientTypes, RequestTypes
<1>4. ExitTypes'
  <2>1. UNCHANGED exits \/ (exits < MaxExits /\ exits' = exits + 1)
    OBVIOUS
  <2> QED BY <2>1 DEF ExitTypes
<1>3. AnswerTypes'
  <2> USE DEF AnswerTypes
  <2>1. CASE \E r \in Requests, status \in BOOLEAN : JavaResponds(r, status)
    <3> PICK r \in Requests, status \in BOOLEAN : JavaResponds(r, status)
      BY <2>1
    <3>1. [request |-> r, status |-> status] \in Response
      BY DEF Response
    <3>2. Append(java_out, [request |-> r, status |-> status]) \in Seq(Response)
      BY <3>1, Lists
    <3> QED BY <3>2
  <2>2. CASE JavaDies
    BY <2>2, Lists
  <2>3. CASE JavaConnects \/ JavaFailsToStart \/ JavaShutsDown \/ JavaExits
    BY <2>3
  <2> QED BY <2>1, <2>2, <2>3
<1> QED BY <1>1, <1>2, <1>3, <1>4, TypesNext

LEMMA TypeStep == TypeOK /\ Counted /\ [Next]_vars => TypeOK'
BY TypeOfClient, TypeOfOthers, TypeOfIO, TypeOfJava DEF Next

-----------------------------------------------------------------------------
(* The requests *)

LEMMA OutEmpty == Out(<<>>) = {} /\ Once(<<>>) /\ Honest(<<>>)
BY DEF Out, Once, Honest

LEMMA OutAppend ==
  ASSUME NEW list \in Seq(Response), NEW m \in Response, Once(list),
         m.request \notin Out(list)
  PROVE  /\ Out(Append(list, m)) = Out(list) \cup {m.request}
         /\ Once(Append(list, m))
<1>1. /\ DOMAIN Append(list, m) = DOMAIN list \cup {Len(list) + 1}
      /\ \A n \in DOMAIN list : Append(list, m)[n] = list[n]
      /\ Append(list, m)[Len(list) + 1] = m
  BY ElemsOfAppend
<1>2. \A n \in DOMAIN list : list[n].request # m.request
  BY DEF Out
<1>3. Out(Append(list, m)) = Out(list) \cup {m.request}
  BY <1>1 DEF Out
<1>4. Once(Append(list, m))
  BY <1>1, <1>2 DEF Once
<1> QED BY <1>3, <1>4

LEMMA OutTail ==
  ASSUME NEW list \in Seq(Response), list # <<>>, Once(list)
  PROVE  /\ Out(Tail(list)) = Out(list) \ {Head(list).request}
         /\ Head(list).request \in Out(list)
         /\ Once(Tail(list))
         /\ Honest(list) => Honest(Tail(list))
                            /\ verdict[Head(list).request] = {Head(list).status}
<1>1. /\ Len(list) \in Nat \ {0}
      /\ DOMAIN list = 1..Len(list)
      /\ DOMAIN Tail(list) = 1..(Len(list) - 1)
      /\ \A n \in 1..(Len(list) - 1) : Tail(list)[n] = list[n + 1]
      /\ Head(list) = list[1]
  OBVIOUS
<1>2. Once(Tail(list))
  BY <1>1 DEF Once
<1>3. \A n \in DOMAIN Tail(list) : n + 1 \in DOMAIN list /\ n + 1 # 1
  BY <1>1
<1>4. \A n \in DOMAIN list :
        n # 1 => n - 1 \in DOMAIN Tail(list) /\ Tail(list)[n - 1] = list[n]
  BY <1>1
<1>5. 1 \in DOMAIN list
  BY <1>1
<1>6. Out(Tail(list)) \subseteq Out(list) \ {Head(list).request}
  BY <1>1, <1>3, <1>5 DEF Out, Once
<1>7. Out(list) \ {Head(list).request} \subseteq Out(Tail(list))
  BY <1>1, <1>4 DEF Out
<1>8. Honest(list) => Honest(Tail(list)) /\ verdict[list[1].request] = {list[1].status}
  BY <1>1, <1>3, <1>5 DEF Honest
<1> QED BY <1>1, <1>2, <1>5, <1>6, <1>7, <1>8 DEF Out

\* Most steps leave the requests alone.
Untouched ==
  /\ UNCHANGED <<last_request, job_data, responses, request, java_in, java_out, verdict>>
  /\ \A r \in Requests : r \in writes' <=> r \in writes
  /\ io' = "run" => io = "run"
  /\ \A c \in Clients : pc'[c] = "dequeue" => pc[c] = "dequeue"

LEMMA AnswersKept ==
  ASSUME TypeOK, Answers, [Next]_vars, Untouched
  PROVE  Answers'
<1> USE DEF Answers, Untouched
<1>1. Counted'
  BY CountedKept
<1>2. InOnePlace'
  BY DEF InOnePlace, Out, Once
<1>3. Jobs'
  BY DEF Jobs, OnItsWay, Out
<1>4. Verdicts'
  BY DEF Verdicts, Honest
<1>5. AnsweredTruthfully' /\ NobodyForgotten'
  BY DEF AnsweredTruthfully, NobodyForgotten
<1> QED BY <1>1, <1>2, <1>3, <1>4, <1>5

LEMMA AnswersOfClient ==
  ASSUME TypeOK, Answers, NEW c \in Clients, invoke(c) \/ ClientStep(c), Next
  PROVE  Answers'
<1>1. CASE ~makeRequest(c)
  <2>1. Untouched
    BY <1>1
    DEF Untouched, invoke, ClientStep, start, startIdle, startStopped, cleanup,
        waitForStartup, dequeue, launch, service, process, TypeOK
  <2> QED BY <2>1, AnswersKept
<1>2. CASE makeRequest(c)
  <2> DEFINE r == last_request + 1
  <2>1. Counted' /\ r \in Requests
    BY <1>2, RequestCounted DEF Answers
  <2>2. /\ last_request' = r /\ request' = [request EXCEPT ![c] = r]
        /\ job_data' = job_data \cup {r} /\ writes' \in {writes, writes \cup {r}}
        /\ UNCHANGED <<io, responses, java_in, java_out, verdict>>
        /\ \A d \in Clients : d # c => pc'[d] = pc[d] /\ request'[d] = request[d]
        /\ request'[c] = r
    BY <1>2 DEF makeRequest, process, TypeOK
  <2>3. r > last_request /\ last_request \in Int /\ \A q \in Requests : q \in Int
    BY <2>1 DEF TypeOK, Requests
  <2>4. responses[r] = <<>> /\ verdict[r] = {} /\ ~OnItsWay(r)
    BY <2>1, <2>3 DEF Answers, Jobs
  <2> HIDE DEF r
  <2> USE DEF Answers
  <2>5. InOnePlace'
    BY <2>2, <2>4 DEF InOnePlace, OnItsWay, Out, Once
  <2>6. Jobs'
    <3> SUFFICES ASSUME NEW q \in Requests
                 PROVE  /\ q \in job_data' => responses'[q] = <<>> /\ q <= last_request'
                        /\ q > last_request' =>
                             responses'[q] = <<>> /\ verdict'[q] = {} /\ ~OnItsWay(q)'
                        /\ io' = "run" /\ OnItsWay(q)' => q \in job_data'
                        /\ q \in writes' \/ q \in java_in' => verdict'[q] = {}
      BY DEF Jobs
    <3>1. CASE q = r
      BY <2>1, <2>2, <2>3, <2>4, <3>1
    <3>2. CASE q # r
      <4>1. OnItsWay(q)' <=> OnItsWay(q)
        BY <2>2, <3>2 DEF OnItsWay, Out
      <4>2. q \in job_data' <=> q \in job_data
        BY <2>2, <3>2
      <4>3. q > last_request' => q > last_request
        BY <2>1, <2>2, <2>3
      <4>4. q <= last_request => q <= last_request'
        BY <2>1, <2>2, <2>3
      <4> QED BY <2>2, <3>2, <4>1, <4>2, <4>3, <4>4 DEF Jobs
    <3> QED BY <3>1, <3>2
  <2>7. Verdicts' /\ AnsweredTruthfully'
    BY <2>2 DEF Verdicts, Honest, AnsweredTruthfully
  <2>8. NobodyForgotten' /\ \A d \in Clients : pc'[d] = "dequeue" => request'[d] \in Requests
    BY <2>1, <2>2 DEF NobodyForgotten
  <2> QED BY <2>1, <2>5, <2>6, <2>7, <2>8
<1> QED BY <1>1, <1>2

LEMMA AnswersOfRead ==
  ASSUME TypeOK, Answers, handleRead, Next
  PROVE  Answers'
<1> USE DEF Answers
<1>0. PICK r, status : r = Head(java_out).request /\ status = Head(java_out).status
  OBVIOUS
<1>1. /\ io = "run" /\ java_out # <<>> /\ java_out' = Tail(java_out)
      /\ UNCHANGED <<last_request, client, io, writes, java_in, verdict>>
      /\ \/ handleResponse(r, status)
         \/ UNCHANGED <<job_data, responses>>
  BY <1>0 DEF handleRead
<1>2. r \in Requests /\ status \in BOOLEAN /\ java_out \in Seq(Response)
  BY <1>0, <1>1, Lists DEF TypeOK
<1>3. /\ Out(java_out') = Out(java_out) \ {r}
      /\ r \in Out(java_out)
      /\ Once(java_out')
      /\ verdict[r] = {status}
      /\ Honest(Tail(java_out))
  BY <1>0, <1>1, <1>2, OutTail DEF InOnePlace, Verdicts
<1>4. r \in job_data /\ responses[r] = <<>> /\ r <= last_request
  BY <1>1, <1>2, <1>3 DEF Jobs, OnItsWay
<1>5. Counted'
  BY <1>1, CountedKept
<1>6. InOnePlace'
  BY <1>1, <1>3 DEF InOnePlace, Out, Once
<1>7. Verdicts'
  BY <1>1, <1>3 DEF Verdicts, Honest
<1>8. CASE UNCHANGED <<job_data, responses>>
  <2>1. Jobs'
    BY <1>1, <1>3, <1>8 DEF Jobs, OnItsWay, Out
  <2>2. AnsweredTruthfully' /\ NobodyForgotten'
    BY <1>1, <1>8 DEF AnsweredTruthfully, NobodyForgotten, client
  <2> QED BY <1>1, <1>5, <1>6, <1>7, <2>1, <2>2 DEF client
<1>9. CASE handleResponse(r, status)
  <2>1. /\ job_data' = job_data \ {r}
        /\ \A q \in Requests : q # r => responses'[q] = responses[q]
        /\ responses'[r] = Append(<<>>, status)
    BY <1>2, <1>4, <1>9 DEF handleResponse, TypeOK
  <2>2. /\ Len(responses'[r]) = 1 /\ DOMAIN responses'[r] = {1}
        /\ responses'[r][1] = status
    BY <2>1
  <2>3. responses'[r] # <<>>
    BY <1>2, <2>1, ListTypes
  <2>4. Jobs'
    <3>1. ~OnItsWay(r)'
      BY <1>1, <1>2, <1>3 DEF InOnePlace, OnItsWay, Out
    <3>2. ASSUME NEW q \in Requests, q # r
          PROVE  /\ OnItsWay(q)' => OnItsWay(q)
                 /\ q \in job_data' <=> q \in job_data
      BY <1>1, <1>3, <2>1, <3>2 DEF OnItsWay, Out
    <3>3. r > last_request' => FALSE
      BY <1>1, <1>2, <1>4 DEF TypeOK, Requests
    <3>4. r \notin writes' /\ r \notin java_in' /\ r \notin job_data'
      BY <2>1, <3>1 DEF OnItsWay
    <3> QED BY <1>1, <2>1, <3>1, <3>2, <3>3, <3>4 DEF Jobs
  <2>5. AnsweredTruthfully'
    <3> SUFFICES ASSUME NEW q \in Requests
                 PROVE  /\ Len(responses'[q]) <= 1
                        /\ \A n \in DOMAIN responses'[q] :
                             responses'[q][n] => verdict'[q] = {TRUE}
      BY DEF AnsweredTruthfully
    <3>1. CASE q = r
      <4>1. status => verdict'[r] = {TRUE}
        <5>1. CASE status = TRUE
          BY <1>1, <1>3, <5>1
        <5>2. CASE status = FALSE
          BY <5>2
        <5> QED BY <1>2, <5>1, <5>2
      <4>2. Len(responses'[r]) <= 1 /\ \A n \in DOMAIN responses'[r] : n = 1
        BY <2>2
      <4> QED BY <2>2, <3>1, <4>1, <4>2, Zenon
    <3>2. CASE q # r
      BY <1>1, <2>1, <3>2 DEF AnsweredTruthfully
    <3> QED BY <3>1, <3>2
  <2>6. NobodyForgotten'
    BY <1>1, <2>1, <2>3 DEF NobodyForgotten, client
  <2> QED BY <1>1, <1>5, <1>6, <1>7, <2>4, <2>5, <2>6 DEF client
<1> QED BY <1>1, <1>8, <1>9

LEMMA AnswersOfEnd ==
  ASSUME TypeOK, Answers, runIOEnd, Next
  PROVE  Answers'
<1> USE DEF Answers
<1>1. /\ io' = "done"
      /\ UNCHANGED <<last_request, client, writes, java_in, java_out, verdict>>
      /\ failPending \/ UNCHANGED <<job_data, responses>>
  BY DEF runIOEnd, process, service
<1>2. CASE UNCHANGED <<job_data, responses>>
  <2>1. Untouched
    BY <1>1, <1>2 DEF Untouched, client
  <2> QED BY <2>1, AnswersKept
<1>3. CASE failPending
  <2>1. /\ job_data' = {}
        /\ \A r \in Requests : r \notin job_data => responses'[r] = responses[r]
        /\ \A r \in Requests : r \in job_data => responses'[r] = Append(<<>>, FALSE)
    BY <1>3 DEF failPending, Jobs
  <2>2. \A r \in job_data : r \in Requests
    BY DEF TypeOK
  <2>3. ASSUME NEW r \in job_data
        PROVE  /\ Len(responses'[r]) = 1 /\ DOMAIN responses'[r] = {1}
               /\ responses'[r][1] = FALSE /\ responses'[r] # <<>>
    <3>1. responses'[r] = Append(<<>>, FALSE)
      BY <2>1, <2>2
    <3> QED BY <3>1, ListTypes
  <2>4. Counted'
    BY <1>1, CountedKept
  <2>5. InOnePlace' /\ Verdicts'
    BY <1>1 DEF InOnePlace, Out, Once, Verdicts, Honest
  <2>6. Jobs'
    <3> SUFFICES ASSUME NEW r \in Requests
                 PROVE  /\ r > last_request' =>
                             responses'[r] = <<>> /\ verdict'[r] = {} /\ ~OnItsWay(r)'
                        /\ r \in writes' \/ r \in java_in' => verdict'[r] = {}
      BY <1>1, <2>1 DEF Jobs
    <3>1. OnItsWay(r)' <=> OnItsWay(r)
      BY <1>1 DEF OnItsWay, Out
    <3>2. r > last_request => r \notin job_data
      BY DEF Jobs, TypeOK, Requests
    <3> QED BY <1>1, <2>1, <3>1, <3>2 DEF Jobs
  <2>7. AnsweredTruthfully'
    <3> SUFFICES ASSUME NEW r \in Requests
                 PROVE  /\ Len(responses'[r]) <= 1
                        /\ \A n \in DOMAIN responses'[r] :
                             responses'[r][n] => verdict'[r] = {TRUE}
      BY DEF AnsweredTruthfully
    <3>1. CASE r \in job_data
      <4>1. Len(responses'[r]) = 1 /\ DOMAIN responses'[r] = {1} /\ responses'[r][1] = FALSE
        BY <2>3, <3>1, Zenon
      <4>2. Len(responses'[r]) <= 1 /\ \A n \in DOMAIN responses'[r] : n = 1
        BY <4>1
      <4> QED BY <4>1, <4>2, Zenon
    <3>2. CASE r \notin job_data
      BY <1>1, <2>1, <3>2 DEF AnsweredTruthfully
    <3> QED BY <3>1, <3>2
  <2>8. NobodyForgotten'
    BY <1>1, <2>1, <2>3 DEF NobodyForgotten, client
  <2> QED BY <1>1, <2>4, <2>5, <2>6, <2>7, <2>8 DEF client
<1> QED BY <1>1, <1>2, <1>3

LEMMA AnswersOfIO ==
  ASSUME TypeOK, Answers, IOStep, Next
  PROVE  Answers'
<1> USE DEF Answers
<1>1. CASE runIO
  <2>1. /\ UNCHANGED <<last_request, job_data, responses, client, verdict>>
        /\ writes' = {} /\ java_in' = {} /\ java_out' = <<>>
    BY <1>1 DEF runIO
  <2>2. Out(<<>>) = {} /\ Once(<<>>) /\ Honest(<<>>)'
    BY DEF Out, Once, Honest
  <2>3. Counted'
    BY <2>1, CountedKept
  <2>4. InOnePlace' /\ Verdicts'
    BY <2>1, <2>2 DEF InOnePlace, Verdicts, Out, Once, Honest
  <2>5. \A r \in Requests : ~OnItsWay(r)'
    BY <2>1, <2>2 DEF OnItsWay, Out
  <2>6. Jobs'
    BY <2>1, <2>5 DEF Jobs
  <2>7. AnsweredTruthfully' /\ NobodyForgotten'
    BY <2>1 DEF AnsweredTruthfully, NobodyForgotten, client
  <2> QED BY <2>1, <2>3, <2>4, <2>6, <2>7 DEF client
<1>2. CASE \E m \in writes : handleWrite(m)
  <2> PICK m \in writes : handleWrite(m)
    BY <1>2
  <2>1. /\ UNCHANGED <<last_request, job_data, responses, client, java_out, verdict, io>>
        /\ writes' = writes \ {m} /\ java_in' \in {java_in, java_in \cup {m}}
    BY DEF handleWrite
  <2>2. Counted'
    BY <2>1, CountedKept
  <2>3. InOnePlace'
    BY <2>1 DEF InOnePlace, Out, Once
  <2>4. /\ \A r \in Requests : OnItsWay(r)' => OnItsWay(r)
        /\ \A r \in Requests : r \in writes' \/ r \in java_in' => r \in writes \/ r \in java_in
    BY <2>1 DEF OnItsWay, Out
  <2>5. Jobs'
    BY <2>1, <2>4 DEF Jobs
  <2>6. Verdicts' /\ AnsweredTruthfully' /\ NobodyForgotten'
    BY <2>1 DEF Verdicts, Honest, AnsweredTruthfully, NobodyForgotten, client
  <2> QED BY <2>1, <2>2, <2>3, <2>5, <2>6 DEF client
<1>3. CASE handleAccept \/ runReturns \/ \E eof \in BOOLEAN : handleReadEnd(eof)
  <2>1. Untouched
    BY <1>3 DEF Untouched, handleAccept, runReturns, handleReadEnd, process, service, client
  <2> QED BY <2>1, AnswersKept
<1> QED BY <1>1, <1>2, <1>3, AnswersOfRead, AnswersOfEnd DEF IOStep

LEMMA AnswersOfJava ==
  ASSUME TypeOK, Answers, JavaProgress \/ JavaDies, Next
  PROVE  Answers'
<1> USE DEF Answers
<1>1. CASE \E r \in Requests, status \in BOOLEAN : JavaResponds(r, status)
  <2> PICK r \in Requests, status \in BOOLEAN : JavaResponds(r, status)
    BY <1>1
  <2> DEFINE m == [request |-> r, status |-> status]
  <2>1. /\ UNCHANGED <<last_request, job_data, responses, client, io, writes>>
        /\ r \in java_in /\ java_in' = java_in \ {r}
        /\ java_out' = Append(java_out, m)
        /\ \A q \in Requests : q # r => verdict'[q] = verdict[q]
        /\ verdict'[r] = verdict[r] \cup {status}
    BY DEF JavaResponds, quiet, backend, service, TypeOK
  <2>2. m \in Response /\ java_out \in Seq(Response) /\ m.request = r /\ m.status = status
    BY DEF Response, TypeOK
  <2> HIDE DEF m
  <2>3. r \notin writes /\ r \notin Out(java_out) /\ verdict[r] = {}
    BY <2>1 DEF InOnePlace, Jobs
  <2>4. Out(java_out') = Out(java_out) \cup {r} /\ Once(java_out')
    BY <2>1, <2>2, <2>3, OutAppend DEF InOnePlace
  <2>5. Counted'
    BY <2>1, CountedKept
  <2>6. InOnePlace'
    BY <2>1, <2>3, <2>4 DEF InOnePlace, Out, Once
  <2>7. \A q \in Requests : OnItsWay(q)' <=> OnItsWay(q)
    BY <2>1, <2>4 DEF OnItsWay, Out
  <2>8. Jobs'
    <3> SUFFICES ASSUME NEW q \in Requests
                 PROVE  /\ q > last_request' => verdict'[q] = {} /\ ~OnItsWay(q)'
                        /\ q \in writes' \/ q \in java_in' => verdict'[q] = {}
      BY <2>1, <2>7 DEF Jobs
    <3>1. OnItsWay(r)
      BY <2>1 DEF OnItsWay
    <3> QED BY <2>1, <2>3, <2>7, <3>1 DEF Jobs
  <2>9. Verdicts'
    <3>1. /\ DOMAIN java_out' = DOMAIN java_out \cup {Len(java_out) + 1}
          /\ \A n \in DOMAIN java_out : java_out'[n] = java_out[n]
          /\ java_out'[Len(java_out) + 1] = m
      BY <2>1, <2>2, ElemsOfAppend
    <3>2. ASSUME NEW n \in DOMAIN java_out
          PROVE  verdict'[java_out[n].request] = {java_out[n].status}
      <4>1. java_out[n] \in Response /\ java_out[n].request \in Requests
        BY <2>2, Lists
      <4>2. java_out[n].request # r
        BY <2>3 DEF Out
      <4> QED BY <2>1, <4>1, <4>2 DEF Verdicts, Honest
    <3>3. verdict'[m.request] = {m.status}
      BY <2>1, <2>2, <2>3
    <3> QED BY <3>1, <3>2, <3>3 DEF Verdicts, Honest
  <2>10. AnsweredTruthfully'
    <3> SUFFICES ASSUME NEW q \in Requests
                 PROVE  /\ Len(responses[q]) <= 1
                        /\ \A n \in DOMAIN responses[q] :
                             responses[q][n] => verdict'[q] = {TRUE}
      BY <2>1 DEF AnsweredTruthfully
    <3>1. {} # {TRUE}
      OBVIOUS
    <3> QED BY <2>1, <2>3, <3>1, Zenon DEF AnsweredTruthfully
  <2>11. NobodyForgotten'
    BY <2>1 DEF NobodyForgotten, client
  <2> QED BY <2>1, <2>5, <2>6, <2>8, <2>9, <2>10, <2>11 DEF client
<1>2. CASE JavaDies
  <2>1. /\ UNCHANGED <<last_request, job_data, responses, client, io, writes, java_in, verdict>>
        /\ java_out' \in {java_out, <<>>}
    BY <1>2 DEF JavaDies, quiet, backend, service
  <2>2. Out(java_out') \subseteq Out(java_out) /\ Once(java_out') /\ Honest(java_out')
    BY <2>1, OutEmpty DEF InOnePlace, Verdicts
  <2>3. Counted'
    BY <2>1, CountedKept
  <2>4. InOnePlace'
    BY <2>1, <2>2 DEF InOnePlace, Out, Once
  <2>5. \A r \in Requests : OnItsWay(r)' => OnItsWay(r)
    BY <2>1, <2>2 DEF OnItsWay, Out
  <2>6. Jobs'
    BY <2>1, <2>5 DEF Jobs
  <2>7. Verdicts'
    BY <2>1, <2>2 DEF Verdicts, Honest
  <2>8. AnsweredTruthfully' /\ NobodyForgotten'
    BY <2>1 DEF AnsweredTruthfully, NobodyForgotten, client
  <2> QED BY <2>1, <2>3, <2>4, <2>6, <2>7, <2>8 DEF client
<1>3. CASE JavaConnects \/ JavaFailsToStart \/ JavaShutsDown \/ JavaExits
  <2>1. Untouched
    BY <1>3 DEF Untouched, JavaConnects, JavaFailsToStart, JavaShutsDown, JavaExits,
                quiet, backend, service, client
  <2> QED BY <2>1, AnswersKept
<1> QED BY <1>1, <1>2, <1>3 DEF JavaProgress

LEMMA AnswersStep ==
  ASSUME TypeOK, Answers, [Next]_vars
  PROVE  Answers'
<1>1. CASE \E c \in Clients : invokeProgram(c) \/ ProgramStep(c) \/ ProgramEnds(c)
  <2>1. Untouched
    BY <1>1 DEF Untouched, invokeProgram, ProgramStep, ProgramEnds, programDone, backend,
                service, process, client, TypeOK
  <2> QED BY <2>1, AnswersKept
<1>2. CASE MainStep
  <2>1. \A r \in Requests : r # Shutdown
    BY DEF Requests, Shutdown
  <2>2. Untouched
    BY <1>2, <2>1 DEF Untouched, MainStep, finish, waitForShutdown, finishCleanup, process,
                client, service
  <2> QED BY <2>2, AnswersKept
<1>3. CASE RunnerStep
  <2>1. Untouched
    BY <1>3 DEF Untouched, RunnerStep, forkJava, forkJavaFails, runJava, backend, process,
                client, service
  <2> QED BY <2>1, AnswersKept
<1>4. CASE Done \/ UNCHANGED vars
  <2>1. Untouched
    BY <1>4 DEF Untouched, Done, vars, backend, process, client, service
  <2> QED BY <2>1, AnswersKept
<1> QED BY <1>1, <1>2, <1>3, <1>4, AnswersOfClient, AnswersOfIO, AnswersOfJava DEF Next

LEMMA AnswersInit == Init => Answers
<1> SUFFICES ASSUME Init PROVE Answers
  OBVIOUS
<1> USE DEF Init
<1>1. Counted
  <2>1. IsFiniteSet(TurnsUsed)
    BY AllTurns, FS_Subset DEF TurnsUsed
  <2> QED BY <2>1, FS_CardinalityType DEF Counted, Asking
<1>2. \A r \in Requests : ~OnItsWay(r)
  BY OutEmpty DEF OnItsWay
<1>3. InOnePlace /\ Verdicts
  BY OutEmpty DEF InOnePlace, Verdicts
<1>4. Jobs
  BY <1>2 DEF Jobs
<1>5. AnsweredTruthfully /\ NobodyForgotten
  BY DEF AnsweredTruthfully, NobodyForgotten
<1> QED BY <1>1, <1>3, <1>4, <1>5 DEF Answers

-----------------------------------------------------------------------------
(* The theorems *)

\* The inductive invariant.  The types need the count of requests (makeRequest
\* never runs out of numbers), the backend needs the handler (runJava() goes
\* on only when its program has ended), and the answers need neither.
THEOREM Invariance == Spec => []IInv
<1>1. Init => IInv
  BY TypeInit, HandlingInit, BackendInit, AnswersInit DEF IInv
<1>2. IInv /\ [Next]_vars => IInv'
  <2> SUFFICES ASSUME IInv, [Next]_vars PROVE IInv'
    OBVIOUS
  <2>1. TypeOK' /\ Answers'
    BY TypeStep, AnswersStep DEF IInv, Answers
  <2>2. Handling' /\ OwnPipes'
    BY HandlingPreserved DEF IInv
  <2>3. Backend'
    BY BackendStep
  <2> QED BY <2>1, <2>2, <2>3 DEF IInv
<1> QED BY <1>1, <1>2, PTL DEF Spec

\* Every variable of the builder keeps its type; in particular the numbers of
\* requests never exceed those of the turns (makeRequest, JavaBuilder.cc:102).
THEOREM TypeCorrectness == Spec => []TypeOK
<1>1. IInv => TypeOK
  BY DEF IInv
<1> QED BY <1>1, Invariance, PTL

\* The assertions that runIO(), finish() and cleanup() make on the mode hold
\* in every interleaving as long as the process does not end by itself, and
\* makeRequest() never finds the socket gone.
THEOREM AssertionsAreHeld == Spec => []AssertionsHold
<1>1. IInv => AssertionsHold
  BY DEF IInv, Backend, AssertionsHold, ModeFollowsIO, ModeFollowsMain, ClientControl,
         Undisturbed
<1> QED BY <1>1, Invariance, PTL

\* No request is answered twice or with what the process did not say of it,
\* whether by handleResponse() or at the end of runIO().
THEOREM Truthful == Spec => []AnsweredTruthfully
<1>1. IInv => AnsweredTruthfully
  BY DEF IInv, Answers
<1> QED BY <1>1, Invariance, PTL

\* A build thread that waits for its response has a job registered, or the
\* response in its queue: no end of the process and no order of the handlers
\* loses it.
THEOREM NoneForgotten == Spec => []NobodyForgotten
<1>1. IInv => NobodyForgotten
  BY DEF IInv, Answers
<1> QED BY <1>1, Invariance, PTL

\* What a thread waits for at the end of runProgram() is there when its
\* program has ended: nobody else holds the pipes that it reads to their end.
\* This is the part of ProgramsReturn that does not depend on fairness.
PipesAtEnd ==
  \A c \in Callers : child[c] = "ended" => at[c] = "waiting" /\ holders[c] = {}

THEOREM PipesEnd == Spec => []PipesAtEnd
<1>1. IInv => PipesAtEnd
  <2> SUFFICES ASSUME IInv, NEW c \in Callers, child[c] = "ended"
               PROVE  at[c] = "waiting" /\ holders[c] = {}
    BY DEF PipesAtEnd
  <2>1. holders[c] \subseteq {P!Abuild, c} /\ at[c] = "waiting"
    BY DEF IInv, OwnPipes
  <2>2. c \notin holders[c] /\ P!Abuild \notin holders[c]
    BY <2>1 DEF IInv, OwnPipes
  <2> QED BY <2>1, <2>2
<1> QED BY <1>1, Invariance, PTL

\* start() makes a new backend only when the I/O thread, runJava() and the
\* process of the last one have ended.
THEOREM OneBackendAtATime == Spec => OneBackend
<1>1. ASSUME IInv, [Next]_vars, run_mode' = "starting_up", run_mode # "starting_up"
      PROVE  /\ io \in {"none", "done"}
             /\ runner \in {"none", "done"}
             /\ java \in {"none", "exited"}
  <2>1. PICK c \in Clients : startIdle(c) \/ cleanup(c)
    <3>1. ASSUME NEW c \in Clients, invoke(c) \/ ClientStep(c)
          PROVE  startIdle(c) \/ cleanup(c)
      BY <1>1, <3>1 DEF invoke, ClientStep, start, startStopped, waitForStartup,
                        makeRequest, dequeue
    <3>2. ASSUME NEW c \in Clients, invokeProgram(c) \/ ProgramStep(c) \/ ProgramEnds(c)
          PROVE  FALSE
      BY <1>1, <3>2 DEF invokeProgram, ProgramStep, ProgramEnds, programDone, backend
    <3>3. ~MainStep
      BY <1>1 DEF MainStep, finish, waitForShutdown, finishCleanup, setRunMode
    <3>4. ~IOStep
      BY <1>1 DEF IOStep, runIO, handleAccept, handleRead, handleReadEnd, handleWrite,
                  runReturns, runIOEnd, setRunMode
    <3>5. ~RunnerStep
      BY <1>1 DEF RunnerStep, forkJava, forkJavaFails, runJava, backend
    <3>6. ~(JavaProgress \/ JavaDies \/ Done \/ UNCHANGED vars)
      BY <1>1 DEF JavaProgress, JavaDies, JavaConnects, JavaFailsToStart, JavaResponds,
                  JavaShutsDown, JavaExits, quiet, Done, vars, backend
    <3> QED BY <1>1, <3>1, <3>2, <3>3, <3>4, <3>5, <3>6 DEF Next
  <2> USE <1>1 DEF IInv, Backend
  <2>2. CASE startIdle(c)
    <3>1. run_mode = "idle"
      BY <2>2 DEF startIdle
    <3> QED BY <3>1 DEF TypeOK, ModeFollowsIO, ModeFollowsProcess
  <2>3. CASE cleanup(c)
    <3>1. pc[c] = "cleanup" /\ io = "done"
      BY <2>3 DEF cleanup
    <3>2. run_mode = "stopped" /\ runner = "done"
      BY <3>1 DEF ClientControl, ModeFollowsIO
    <3> QED BY <3>1, <3>2 DEF ProcessFollowsRunner, ModeFollowsProcess
  <2> QED BY <2>1, <2>2, <2>3
<1>2. IInv /\ [Next]_vars =>
        [run_mode' = "starting_up" /\ run_mode # "starting_up" =>
           /\ io \in {"none", "done"}
           /\ runner \in {"none", "done"}
           /\ java \in {"none", "exited"}]_vars
  BY <1>1
<1> QED BY <1>2, Invariance, PTL DEF Spec, OneBackend
=============================================================================
