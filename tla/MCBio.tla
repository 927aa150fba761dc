-------------------------------- MODULE MCBio --------------------------------
(* Instance of Bio for TLC: nothing to define beyond the constants. *)
EXTENDS Bio
=============================================================================
