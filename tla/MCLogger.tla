------------------------------ MODULE MCLogger ------------------------------
(* Two threads with two lines each and one or two lines of the main        *)
(* thread: enough for every pair of threads to meet at every lock.  No job *)
(* is buffered, or one of two: the other is then the Java builder's.       *)
EXTENDS Logger

CONSTANTS w1, w2

NoneOrOne == {{}, {w1}}
Both == {{w1, w2}}
=============================================================================
