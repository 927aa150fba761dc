---------------------------- MODULE AtomicDisk ----------------------------
(***************************************************************************)
(* What the log promises to the file system (log.c:9-15): the blocks that  *)
(* a crash leaves behind are those at some moment when no FS system call   *)
(* was in progress, so the writes of a call survive together or not at     *)
(* all.  Module Log is shown to implement this specification.              *)
(***************************************************************************)
CONSTANTS Procs, Blocks, Vals, InitDisk

VARIABLES
    durable,    \* the blocks after a crash now and recovery
    current,    \* the blocks as the running system sees them
    active      \* the processes inside an FS system call

vars == <<durable, current, active>>

Init ==
    /\ durable = InitDisk
    /\ current = InitDisk
    /\ active = {}

Begin(p) ==
    /\ p \notin active
    /\ active' = active \cup {p}
    /\ UNCHANGED <<durable, current>>

Write(p) ==
    /\ p \in active
    /\ \E b \in Blocks, v \in Vals : current' = [current EXCEPT ![b] = v]
    /\ UNCHANGED <<durable, active>>

End(p) ==
    /\ p \in active
    /\ active' = active \ {p}
    /\ UNCHANGED <<durable, current>>

Commit ==
    /\ active = {}
    /\ durable' = current
    /\ UNCHANGED <<current, active>>

Crash ==
    /\ current' = durable
    /\ active' = {}
    /\ UNCHANGED durable

Next ==
    \/ \E p \in Procs : Begin(p) \/ Write(p) \/ End(p)
    \/ Commit \/ Crash

Spec == Init /\ [][Next]_vars
============================================================================
