-------------------------------- MODULE MCVm --------------------------------
(* Instance of Vm for TLC. *)
EXTENDS Vm

MCDeltas == {3, -1, -2}
Part(end, bad) == [end |-> end, bad |-> bad]
MCImages == {<<>>, <<Part(1, "no")>>, <<Part(1, "data")>>, <<Part(6, "no")>>, <<Part(1, "header")>>}
=============================================================================
