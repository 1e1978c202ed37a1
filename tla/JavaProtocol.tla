---------------------------- MODULE JavaProtocol ----------------------------
(***************************************************************************)
(* The stream from the Java process to abuild: responses and captured      *)
(* output of the builds, from the threads of JavaBuilder.java through its  *)
(* one-place queue and the socket to handleRead() and handleResponse() of  *)
(* JavaBuilder.cc.  abuild reads the stream in chunks cut anywhere.        *)
(*                                                                         *)
(* The stream is a sequence of tokens: the text of a response line or of a *)
(* data header, line ends, and the bytes of captured output, which may     *)
(* themselves be line ends.  Job 0 stands for output that belongs to no    *)
(* build.                                                                  *)
(***************************************************************************)
EXTENDS Integers, Sequences, FiniteSets

CONSTANTS
  LastJob,      \* builds are numbered 1..LastJob
  Payloads,     \* what may be printed at a time: sequences of bytes
  Streams,      \* System.out and System.err, each with a lock
  MaxOutputs,   \* messages that are printed in all
  MaxDeaths,    \* unexpected ends of the process
  MaxChunk      \* max_data_size

Jobs == 1..LastJob

VARIABLES
  up,             \* the process is there
  eol,            \* what println ends a line with
  building,       \* builds whose response is not in the queue yet
  assigned,       \* builds that are the job of their thread group
  putting,        \* messages whose threads are blocked in put, by stream
  outputs,        \* how many messages have been printed
  sent,           \* by job, the output that was put in the queue
  late,           \* builds whose threads put output after the response
  responseQueue,  \* messages on their way to the responder thread
  stream,         \* tokens on their way to abuild
  deaths,
  left_over,      \* a process has ended in the middle of a message
  last_request, job_data,
  accumulated_response,
  parsing,        \* inside the loop of handleResponse
  delivered,      \* by job, what its output handler was given
  answers,        \* by job, its results
  protocol_error  \* QEXC::General was thrown in the I/O thread

threads == <<building, assigned, putting, outputs>>
java == <<up, threads, responseQueue>>
printed == <<sent, late>>
ends == <<deaths, left_over>>
abuild == <<last_request, job_data, accumulated_response, parsing, delivered,
            answers, protocol_error>>
vars == <<eol, java, printed, stream, ends, abuild>>

NL == [token |-> "NL"]
CR == [token |-> "CR"]
Response(job, status) == [token |-> "response", job |-> job, status |-> status]
Header(job, length) == [token |-> "header", job |-> job, length |-> length]

Bytes == UNION {{payload[n] : n \in DOMAIN payload} : payload \in Payloads}
Lines == [token : {"response"}, job : Jobs, status : BOOLEAN]
         \cup [token : {"header"}, job : Jobs \cup {0}, length : Nat]

\* What a build prints may itself look like a header or a response.
ASSUME JavaAssumptions ==
  /\ LastJob \in Nat /\ MaxOutputs \in Nat /\ MaxDeaths \in Nat /\ MaxChunk \in Nat
  /\ Payloads \subseteq Seq(Bytes)
  /\ \A byte \in Bytes : byte.token \in {"response", "header"} => byte \in Lines

Init ==
  /\ up = TRUE
  /\ eol \in {<<NL>>, <<CR, NL>>}
  /\ building = {}
  /\ assigned = {}
  /\ putting = {}
  /\ outputs = 0
  /\ late = {}
  /\ sent = [job \in Jobs \cup {0} |-> <<>>]
  /\ responseQueue = <<>>
  /\ stream = <<>>
  /\ deaths = 0
  /\ left_over = FALSE
  /\ last_request = 0
  /\ job_data = {}
  /\ accumulated_response = <<>>
  /\ parsing = FALSE
  /\ delivered = [job \in Jobs \cup {0} |-> <<>>]
  /\ answers = [job \in Jobs |-> <<>>]
  /\ protocol_error = FALSE

-----------------------------------------------------------------------------
(* The process *)

\* The thread that runs the build prints (own), or another one of its thread
\* group; threads of no group, and those of a group without a job, print for
\* job 0.  The job is read when the lock of the stream has been taken.
sendOutput(s, job, own, payload) ==
  /\ up
  /\ outputs < MaxOutputs
  /\ \A m \in putting : m.stream # s
  /\ IF own THEN /\ job \in building
                 /\ \A m \in putting : ~(m.own /\ m.job = job)
            ELSE job \in assigned \cup {0}
  /\ payload # <<>>
  /\ putting' = putting \cup
                {[stream |-> s, job |-> job, own |-> own, payload |-> payload]}
  /\ outputs' = outputs + 1
  /\ UNCHANGED <<eol, up, building, assigned, responseQueue, printed, stream, ends, abuild>>

\* The job may have been answered since.
putOutput(m) ==
  /\ m \in putting
  /\ responseQueue = <<>>                      \* put() blocks while it is full
  /\ putting' = putting \ {m}
  /\ responseQueue' = <<<<Header(m.job, Len(m.payload)), NL>> \o m.payload>>
  /\ IF m.own \/ m.job \in building \cup {0}
     THEN /\ sent' = [sent EXCEPT ![m.job] = Append(@, m.payload)]
          /\ UNCHANGED late
     ELSE /\ late' = late \cup {m.job}
          /\ UNCHANGED sent
  /\ UNCHANGED <<eol, up, building, assigned, outputs, stream, ends, abuild>>

\* Mutant: the response overtakes the output that is still queued.
sendResponse_unqueued(job, status) ==
  /\ job \in building
  /\ \A m \in putting : ~(m.own /\ m.job = job)
  /\ building' = building \ {job}
  /\ stream' = stream \o <<Response(job, status)>> \o eol
  /\ UNCHANGED <<eol, up, assigned, putting, outputs, responseQueue, printed, ends, abuild>>

\* The build's own thread has returned from the build, while others of its
\* group may still be there.
sendResponse(job, status) ==
  /\ job \in building
  /\ \A m \in putting : ~(m.own /\ m.job = job)
  /\ responseQueue = <<>>
  /\ responseQueue' = <<<<Response(job, status)>>>>
  /\ building' = building \ {job}
  /\ UNCHANGED <<eol, up, assigned, putting, outputs, printed, stream, ends, abuild>>

\* The end of InputHandler.run: the thread group has no job any more.
setJobNull(job) ==
  /\ job \in assigned \ building
  /\ assigned' = assigned \ {job}
  /\ UNCHANGED <<eol, up, building, putting, outputs, responseQueue, printed, stream, ends,
                 abuild>>

\* Responder.run: take, println, flush.
respond ==
  /\ responseQueue # <<>>
  /\ responseQueue' = <<>>
  /\ stream' = stream \o Head(responseQueue) \o eol
  /\ UNCHANGED <<eol, up, threads, printed, ends, abuild>>

\* The process ends; what it sent may be cut anywhere.  abuild reads what is
\* left up to the end of the stream before it fails the pending requests.
die ==
  /\ up
  /\ deaths < MaxDeaths
  /\ up' = FALSE
  /\ deaths' = deaths + 1
  /\ building' = {} /\ assigned' = {} /\ putting' = {}
  /\ responseQueue' = <<>>
  /\ \E n \in 0..Len(stream) : stream' = SubSeq(stream, 1, n)
  /\ UNCHANGED <<eol, outputs, printed, left_over, abuild>>

-----------------------------------------------------------------------------
(* abuild *)

Alive == ~protocol_error

\* makeRequest; the process gets the request and starts the build.
makeRequest ==
  /\ Alive
  /\ ~parsing
  /\ up
  /\ last_request < LastJob
  /\ last_request' = last_request + 1
  /\ job_data' = job_data \cup {last_request'}
  /\ building' = building \cup {last_request'}
  /\ assigned' = assigned \cup {last_request'}
  /\ UNCHANGED <<eol, up, putting, outputs, responseQueue, printed, stream, ends,
                 accumulated_response, parsing, delivered, answers, protocol_error>>

handleRead(length) ==
  /\ Alive
  /\ ~parsing
  /\ length \in 1..MaxChunk
  /\ length <= Len(stream)
  /\ accumulated_response' = accumulated_response \o SubSeq(stream, 1, length)
  /\ stream' = SubSeq(stream, length + 1, Len(stream))
  /\ parsing' = TRUE
  /\ UNCHANGED <<eol, java, printed, ends, last_request, job_data, delivered,
                 answers, protocol_error>>

\* The end of the stream: pending requests fail, and the process is started
\* anew for the next one.
failPending ==
  /\ Alive
  /\ ~parsing
  /\ ~up
  /\ stream = <<>>
  /\ answers' = [job \in Jobs |->
                   IF job \in job_data THEN Append(answers[job], FALSE)
                   ELSE answers[job]]
  /\ job_data' = {}
  /\ up' = TRUE
  /\ left_over' = (left_over \/ accumulated_response # <<>>)
  /\ UNCHANGED <<eol, threads, responseQueue, printed, stream, deaths, last_request,
                 accumulated_response, parsing, delivered, protocol_error>>

\* The first line of what is accumulated, and what follows it.
LineEnd ==
  CHOOSE n \in DOMAIN accumulated_response :
    /\ accumulated_response[n] = NL
    /\ \A m \in 1..(n - 1) : accumulated_response[m] # NL
HasLine == NL \in {accumulated_response[n] : n \in DOMAIN accumulated_response}
Line == SubSeq(accumulated_response, 1, LineEnd - 1)
Rest == SubSeq(accumulated_response, LineEnd + 1, Len(accumulated_response))

\* The expressions a line is matched with: text and an optional CR.
Matches(kind) ==
  /\ Line # <<>>
  /\ Line[1].token = kind
  /\ Tail(Line) \in {<<>>, <<CR>>}

\* Mutant: only a bare NL ends a message.
RestAfter_unix(length) ==
  LET rest == SubSeq(Rest, length + 1, Len(Rest))
  IN IF Len(Rest) > length /\ rest[1] = NL THEN {Tail(rest)} ELSE {}

\* What remains once a message of that length and its line end are removed,
\* if they are there.
RestAfter(length) ==
  LET rest == SubSeq(Rest, length + 1, Len(Rest))
  IN CASE Len(Rest) > length /\ rest[1] = NL -> {Tail(rest)}
       [] Len(Rest) > length + 1 /\ SubSeq(rest, 1, 2) = <<CR, NL>> ->
            {SubSeq(rest, 3, Len(rest))}
       [] OTHER -> {}

quiet == <<eol, java, printed, stream, ends, last_request>>

\* The job is unregistered and answered; an unknown one is an error.
lineResponse ==
  /\ Matches("response")
  /\ LET job == Line[1].job
     IN /\ protocol_error' = (job \notin job_data)
        /\ job_data' = job_data \ {job}
        /\ answers' = [answers EXCEPT ![job] =
                         IF job \in job_data THEN Append(@, Line[1].status) ELSE @]
        /\ accumulated_response' = Rest
  /\ UNCHANGED <<quiet, parsing, delivered>>

lineData ==
  /\ Matches("header")
  /\ LET job == Line[1].job
         length == Line[1].length
     IN \/ /\ RestAfter(length) = {}        \* put back; wait for more
           /\ parsing' = FALSE
           /\ UNCHANGED <<accumulated_response, delivered, protocol_error>>
        \/ \E rest \in RestAfter(length) :
             /\ accumulated_response' = rest
             /\ \/ /\ job \in job_data \cup {0}
                   /\ delivered' =
                        [delivered EXCEPT ![job] = Append(@, SubSeq(Rest, 1, length))]
                   /\ UNCHANGED protocol_error
                \/ /\ job \notin job_data \cup {0}
                   /\ protocol_error' = TRUE
                   /\ UNCHANGED delivered
             /\ UNCHANGED parsing
  /\ UNCHANGED <<quiet, job_data, answers>>

lineOther ==
  /\ ~Matches("response")
  /\ ~Matches("header")
  /\ protocol_error' = TRUE
  /\ UNCHANGED <<quiet, job_data, accumulated_response, parsing, delivered, answers>>

lineNone ==
  /\ parsing' = FALSE
  /\ UNCHANGED <<quiet, job_data, accumulated_response, delivered, answers,
                 protocol_error>>

\* One turn of the loop.
handleResponse ==
  /\ Alive
  /\ parsing
  /\ IF HasLine THEN lineResponse \/ lineData \/ lineOther ELSE lineNone

JavaStep ==
  \/ \E s \in Streams, job \in Jobs \cup {0}, own \in BOOLEAN, payload \in Payloads :
       sendOutput(s, job, own, payload)
  \/ \E m \in putting : putOutput(m)
  \/ \E job \in Jobs, status \in BOOLEAN : sendResponse(job, status)
  \/ \E job \in Jobs : setJobNull(job)

Read == \E length \in 1..MaxChunk : handleRead(length)

\* Everything is answered and nothing under way, or the I/O thread is gone.
Quiescent ==
  /\ protocol_error \/ (last_request = LastJob /\ job_data = {})
  /\ UNCHANGED vars

Next ==
  \/ JavaStep
  \/ respond
  \/ die
  \/ makeRequest
  \/ Read
  \/ handleResponse
  \/ failPending
  \/ Quiescent

Spec == Init /\ [][Next]_vars

-----------------------------------------------------------------------------
(* Properties *)

TypeOK ==
  LET tokens == Bytes \cup {NL, CR} \cup Lines
  IN /\ up \in BOOLEAN
     /\ eol \in {<<NL>>, <<CR, NL>>}
     /\ building \subseteq Jobs /\ assigned \subseteq Jobs /\ late \subseteq Jobs
     /\ putting \subseteq [stream : Streams, job : Jobs \cup {0}, own : BOOLEAN,
                           payload : Payloads]
     /\ outputs \in 0..MaxOutputs
     /\ sent \in [Jobs \cup {0} -> Seq(Payloads)]
     /\ responseQueue \in Seq(Seq(tokens)) /\ Len(responseQueue) <= 1
     /\ stream \in Seq(tokens)
     /\ accumulated_response \in Seq(tokens)
     /\ deaths \in 0..MaxDeaths
     /\ left_over \in BOOLEAN
     /\ last_request \in 0..LastJob
     /\ job_data \subseteq Jobs
     /\ parsing \in BOOLEAN /\ protocol_error \in BOOLEAN
     /\ delivered \in [Jobs \cup {0} -> Seq(Seq(tokens))]
     /\ answers \in [Jobs -> Seq(BOOLEAN)]

\* Each job's output handler gets what was put in the queue for the job before
\* its response, in order and uncut, however the stream is cut into chunks, and
\* has got all of it when the process's answer arrives.  What the thread that
\* runs a build prints is always among it; only what another thread of its
\* group puts after the response is not, and is never given to a handler:
\* nothing else makes handleResponse throw an exception, which ends the I/O
\* thread.  This survives the end of the process and its restart, unless it
\* ended in the middle of a message: what it left half-sent stays in
\* accumulated_response and meets the next one's stream.
StreamIntact ==
  ~left_over =>
    /\ protocol_error => late # {}
    /\ \A j \in IF deaths = 0 THEN Jobs \cup {0} ELSE Jobs :
         /\ Len(delivered[j]) <= Len(sent[j])
         /\ delivered[j] = SubSeq(sent[j], 1, Len(delivered[j]))
    /\ \A j \in Jobs :
         \/ answers[j] = <<>>
         \/ delivered[j] = sent[j]
         \/ deaths > 0 /\ answers[j] = <<FALSE>>

\* When all that a process sent has been read, nothing waits in
\* accumulated_response for bytes that will not come: everything that its
\* builds sent was delivered, and exactly the builds that have sent no response
\* are still unanswered.
NothingHeldBack ==
  (up /\ ~left_over /\ responseQueue = <<>> /\ stream = <<>> /\ ~parsing) =>
    /\ \A j \in building : delivered[j] = sent[j]
    /\ deaths = 0 => delivered = sent
    /\ job_data = building
=============================================================================
