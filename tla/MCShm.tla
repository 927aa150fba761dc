------------------------------- MODULE MCShm -------------------------------
(***************************************************************************)
(* Instances of Shm.  Frames are interchangeable.                          *)
(***************************************************************************)
EXTENDS Shm, TLC

FrameSymmetry == Permutations(Frames)

\* -1 is also the mark of a free entry.
KeysWithFree == {1, FreeKey}

\* Every entry, and ids on both sides of the table.
AllIds == -1 .. SHMMAXSEG

\* Buffers for a segment of one page that is not attached, or attached once.
SomeBufs ==
    {[key |-> 1, mode |-> {}, segsz |-> 2, nattch |-> k] : k \in {0, 1}}
============================================================================
