-------------------------- MODULE MCDependencyGraph --------------------------
(* All graphs that can be built over four names with up to two             *)
(* dependencies, and over up to three of them with up to four, which lets  *)
(* cycles overlap: unknown items, self-dependencies, repeated dependencies *)
(* and cycles of every length up to three occur.                           *)
EXTENDS DependencyGraph

DenserWhenSmall == <<2, 4, 4, 2>>
=============================================================================
