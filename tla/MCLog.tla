------------------------------- MODULE MCLog -------------------------------
(***************************************************************************)
(* Instances of Log: a disk of a few blocks, all of them 0 at first.       *)
(* Processes are interchangeable, and so are blocks.                       *)
(***************************************************************************)
EXTENDS Log, TLC

ZeroDisk == [b \in Blocks |-> 0]

Symmetry == Permutations(Procs) \cup Permutations(Blocks)
============================================================================
