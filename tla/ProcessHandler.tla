--------------------------- MODULE ProcessHandler ---------------------------
(***************************************************************************)
(* ProcessHandler_unix.cc: threads that run a program each and, if there   *)
(* is an output handler, read what it prints to the end, through a pipe    *)
(* for each of its outputs (one here, as they are handled alike).          *)
(*                                                                         *)
(* A program starts with a copy of every descriptor that abuild has open   *)
(* and that is not to be closed on exec.  The end of a pipe is read when   *)
(* nobody holds its write end any more, neither abuild nor any program.    *)
(* Between fork() and execve() a program holds the other pipes, too; that  *)
(* moment is left out, as are programs that leave their outputs to others. *)
(***************************************************************************)
EXTENDS FiniteSets

CONSTANTS
  Callers,               \* the threads that call runProgram()
  HasHandler             \* whether they give an output handler

VARIABLES
  handler_mutex,
  at,                    \* by caller, where it is in runProgram()
  inheritable,           \* those whose pipes are not closed on exec
  holders,               \* by caller, who holds the write ends of its pipes
  child                  \* by caller, its program

processes == <<handler_mutex, at, inheritable, holders, child>>

Free == "free"
Abuild == "abuild"

ProcessInit ==
  /\ handler_mutex = Free
  /\ at = [c \in Callers |-> "outside"]
  /\ inheritable = {}
  /\ holders = [c \in Callers |-> {}]
  /\ child = [c \in Callers |-> "none"]

runProgram(c) ==
  /\ at[c] = "outside"
  /\ at' = [at EXCEPT ![c] = "begun"]
  /\ UNCHANGED <<handler_mutex, inheritable, holders, child>>

\* Mutant: the mutex is taken for fork() only.
createPipes_unlocked(c) ==
  /\ at[c] = "begun"
  /\ HasHandler
  /\ holders' = [holders EXCEPT ![c] = {Abuild}]
  /\ inheritable' = inheritable \cup {c}
  /\ at' = [at EXCEPT ![c] = "piped"]
  /\ UNCHANGED <<handler_mutex, child>>

createPipes(c) ==
  /\ at[c] = "begun"
  /\ HasHandler
  /\ handler_mutex = Free
  /\ handler_mutex' = c
  /\ holders' = [holders EXCEPT ![c] = {Abuild}]
  /\ inheritable' = inheritable \cup {c}
  /\ at' = [at EXCEPT ![c] = "piped"]
  /\ UNCHANGED <<child>>

setCloseOnExec(c) ==
  /\ at[c] = "piped"
  /\ inheritable' = inheritable \ {c}
  /\ at' = [at EXCEPT ![c] = "marked"]
  /\ UNCHANGED <<handler_mutex, holders, child>>

mayFork(c) ==
  /\ at[c] = IF HasHandler THEN "marked" ELSE "begun"
  /\ handler_mutex \in {Free, c}

\* Its own pipes the program has as its standard output and error.  That
\* abuild closes its copies of the write ends is part of the step: no other
\* program gets them any more.
fork(c) ==
  /\ mayFork(c)
  /\ handler_mutex' = Free
  /\ child' = [child EXCEPT ![c] = "running"]
  /\ LET inherited == {d \in inheritable \cup {c} : Abuild \in holders[d]}
     IN holders' = [d \in Callers |->
                      (IF d \in inherited THEN holders[d] \cup {c} ELSE holders[d])
                      \ (IF d = c THEN {Abuild} ELSE {})]
  /\ at' = [at EXCEPT ![c] = "waiting"]
  /\ UNCHANGED inheritable

\* runProgram() returns false.
forkFails(c) ==
  /\ mayFork(c)
  /\ handler_mutex' = Free
  /\ holders' = [holders EXCEPT ![c] = {}]
  /\ at' = [at EXCEPT ![c] = "outside"]
  /\ UNCHANGED <<inheritable, child>>

\* The end of the output is read, then the program waited for.
waitForChild(c) ==
  /\ at[c] = "waiting"
  /\ holders[c] = {}
  /\ child[c] = "ended"
  /\ child' = [child EXCEPT ![c] = "none"]
  /\ at' = [at EXCEPT ![c] = "outside"]
  /\ UNCHANGED <<handler_mutex, inheritable, holders>>

\* The program itself
childEnds(c) ==
  /\ child[c] = "running"
  /\ child' = [child EXCEPT ![c] = "ended"]
  /\ holders' = [d \in Callers |-> holders[d] \ {c}]
  /\ UNCHANGED <<handler_mutex, at, inheritable>>
=============================================================================
