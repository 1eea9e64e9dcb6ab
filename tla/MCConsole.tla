------------------------------ MODULE MCConsole ------------------------------
(* Two executions of a job, three lines each, a limit of two pieces.        *)
EXTENDS Console

TestLines == 3
=============================================================================
