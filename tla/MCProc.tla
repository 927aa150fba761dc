------------------------------- MODULE MCProc -------------------------------
(***************************************************************************)
(* Two CPUs, a table of three entries that are used again and again.       *)
(***************************************************************************)
EXTENDS Proc
============================================================================
