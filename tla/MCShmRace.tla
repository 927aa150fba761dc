----------------------------- MODULE MCShmRace -----------------------------
(***************************************************************************)
(* Instances of ShmRace: who creates, attaches and removes is set in each  *)
(* configuration.                                                          *)
(***************************************************************************)
EXTENDS ShmRace, TLC

FrameSymmetry == Permutations(Frames)
============================================================================
