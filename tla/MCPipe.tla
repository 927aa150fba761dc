------------------------------- MODULE MCPipe -------------------------------
(***************************************************************************)
(* One reader, two writers, a ring smaller than the longest write.         *)
(***************************************************************************)
EXTENDS Pipe
============================================================================
