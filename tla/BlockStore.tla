----------------------------- MODULE BlockStore -----------------------------
(***************************************************************************)
(* What the buffer cache promises: every block has one content, and a      *)
(* process reads and changes it only while it alone has the block.  Module *)
(* Bio is shown to implement this specification.                           *)
(***************************************************************************)
CONSTANTS Procs, NoProc, Blocks, Vals

VARIABLES
    val,        \* the content of each block
    holder      \* the process that has it

vars == <<val, holder>>

Init ==
    /\ val \in [Blocks -> Vals]
    /\ holder = [n \in Blocks |-> NoProc]

Take(p, n) ==
    /\ holder[n] = NoProc
    /\ holder' = [holder EXCEPT ![n] = p]
    /\ UNCHANGED val

Set(p, n, v) ==
    /\ holder[n] = p
    /\ val' = [val EXCEPT ![n] = v]
    /\ UNCHANGED holder

Give(p, n) ==
    /\ holder[n] = p
    /\ holder' = [holder EXCEPT ![n] = NoProc]
    /\ UNCHANGED val

Next == \E p \in Procs, n \in Blocks :
    Take(p, n) \/ Give(p, n) \/ (\E v \in Vals : Set(p, n, v))

Spec == Init /\ [][Next]_vars
=============================================================================
