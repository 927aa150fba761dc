-------------------------------- MODULE Fit --------------------------------
(***************************************************************************)
(* What the first-fit searches of the shared-memory code promise, as       *)
(* constant operators.  allocShmSeg (shm.c:93-115) looks for free entries  *)
(* of shm_segs, shmatHelper (shm.c:288-306) for unattached slots of the    *)
(* process; both run the same loop, which module FirstFit models step by   *)
(* step and shows to compute ScanResult.                                   *)
(***************************************************************************)
EXTENDS Integers

\* The entries s .. s+need-1 lie below len and are all free.
FitsAt(free, len, need, s) ==
    /\ s \in 0 .. len - 1
    /\ s + need <= len
    /\ \A j \in s .. s + need - 1 : free[j]

\* s is the lowest index at which a run of need free entries starts.
IsFirstFit(free, len, need, s) ==
    /\ FitsAt(free, len, need, s)
    /\ \A t \in 0 .. len - 1 : FitsAt(free, len, need, t) => s <= t

(***************************************************************************)
(* The value of `index' after the loop.  A search for zero pages never     *)
(* succeeds: zc is compared with reqPages only after it was incremented.   *)
(***************************************************************************)
ScanResult(free, len, need) ==
    IF need > 0 /\ \E s \in 0 .. len - 1 : FitsAt(free, len, need, s)
    THEN CHOOSE s \in 0 .. len - 1 : IsFirstFit(free, len, need, s)
    ELSE -1
============================================================================
