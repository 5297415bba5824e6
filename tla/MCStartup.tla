------------------------------ MODULE MCStartup ------------------------------
(***************************************************************************)
(* Instances of Startup for TLC.                                           *)
(***************************************************************************)
EXTENDS Startup

\* a script of two statements, and one of a single statement after it
MCStatements == [v \in 1 .. Last |-> IF v = 1 THEN 2 ELSE 1]
=============================================================================
