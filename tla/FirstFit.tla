------------------------------ MODULE FirstFit ------------------------------
(***************************************************************************)
(* The search loop shared by allocShmSeg (shm.c:93-115, over the entries   *)
(* 0..lastShmSegIndex of shm_segs) and shmatHelper (shm.c:288-306, over    *)
(* the SHMMAXSEG slots of the process), one iteration per step.            *)
(*                                                                         *)
(* The loop keeps si, the start of the current run of free entries (-1:    *)
(* none), and zc, its length so far.                                       *)
(***************************************************************************)
EXTENDS Fit

CONSTANT SHMMAXSEG  \* length of both tables, as in Shm

VARIABLES
    free,   \* free[j]: entry j has key -1 / slot j has isAttached = 0
    len,    \* number of entries searched: lastShmSegIndex + 1, or SHMMAXSEG
    need,   \* reqPages
    i, si, zc, index,   \* the locals of the loop
    done    \* the loop has been left

vars == <<free, len, need, i, si, zc, index, done>>
table == <<free, len, need>>

Init ==
    /\ free \in [0 .. SHMMAXSEG - 1 -> BOOLEAN]
    /\ len \in 0 .. SHMMAXSEG
    /\ need \in 0 .. SHMMAXSEG
    /\ i = 0
    /\ si = -1
    /\ zc = 0
    /\ index = -1
    /\ done = FALSE

\* i reached the end of the table: the loop condition fails.
Exhausted ==
    /\ ~done
    /\ i = len
    /\ done' = TRUE
    /\ UNCHANGED <<table, i, si, zc, index>>

\* A free entry extends the run; the run that is long enough ends the loop.
FreeEntry ==
    /\ ~done
    /\ i < len
    /\ free[i]
    /\ si' = IF si = -1 THEN i ELSE si
    /\ zc' = zc + 1
    /\ IF zc' = need
       THEN /\ index' = si'
            /\ done' = TRUE
            /\ i' = i
       ELSE /\ i' = i + 1
            /\ UNCHANGED <<index, done>>
    /\ UNCHANGED table

\* A busy entry ends the run.
BusyEntry ==
    /\ ~done
    /\ i < len
    /\ ~free[i]
    /\ si' = -1
    /\ zc' = 0
    /\ i' = i + 1
    /\ UNCHANGED <<table, index, done>>

Next == Exhausted \/ FreeEntry \/ BusyEntry

Spec == Init /\ [][Next]_vars

----------------------------------------------------------------------------

TypeOK ==
    /\ free \in [0 .. SHMMAXSEG - 1 -> BOOLEAN]
    /\ len \in 0 .. SHMMAXSEG
    /\ need \in 0 .. SHMMAXSEG
    /\ i \in 0 .. len
    /\ si \in -1 .. len - 1
    /\ zc \in 0 .. len
    /\ index \in -1 .. len - 1
    /\ done \in BOOLEAN

(***************************************************************************)
(* What the callers of the loop (shm.c:117, shm.c:308) rely on: when it    *)
(* ends, index is the lowest start of a run of reqPages free entries that  *)
(* fits below len, and -1 only when there is no such run or zero pages     *)
(* were asked for.                                                         *)
(***************************************************************************)
Correct == done => index = ScanResult(free, len, need)

----------------------------------------------------------------------------
(***************************************************************************)
(* The inductive invariant.  While the loop runs, the zc entries before i  *)
(* are the maximal free run ending there and no run of `need' free entries *)
(* ends at or before i.                                                    *)
(***************************************************************************)
RunSoFar ==
    /\ si = IF zc = 0 THEN -1 ELSE i - zc
    /\ zc <= i
    /\ \A j \in i - zc .. i - 1 : free[j]
    /\ zc < i => ~free[i - zc - 1]
    /\ need > 0 => zc < need

NoEarlierFit ==
    need > 0 => \A s \in 0 .. len - 1 : FitsAt(free, len, need, s) => s + need > i

Found == need > 0 /\ IsFirstFit(free, len, need, index)

IInv ==
    /\ TypeOK
    /\ ~done => index = -1 /\ RunSoFar /\ NoEarlierFit
    /\ done /\ index = -1 => i = len /\ NoEarlierFit
    /\ done /\ index # -1 => Found
============================================================================
