--------------------------- MODULE MCJavaBuilder ---------------------------
(* Two build threads with two items each: one arrives while the other      *)
(* starts the backend, and one returns after its end.  Two unexpected      *)
(* exits let a backend that was started again end in its turn.             *)
EXTENDS JavaBuilder, TLC

\* One thread's first item is built by another program.
MCPrograms == {<<CHOOSE c \in Clients : TRUE, 1>>}
NoPrograms == {}
=============================================================================
