-------------------------------- MODULE Fifo --------------------------------
(***************************************************************************)
(* What a pipe promises: the bytes written come out in order, none lost,   *)
(* none twice, at most PIPESIZE of them under way.  Module Pipe is shown   *)
(* to implement this specification.                                        *)
(***************************************************************************)
EXTENDS Integers, Sequences

CONSTANTS Bytes, PIPESIZE

VARIABLES
    queue,          \* the bytes written and not yet read
    ropen, wopen    \* whether each end is open

vars == <<queue, ropen, wopen>>

Init ==
    /\ queue = << >>
    /\ ropen = TRUE
    /\ wopen = TRUE

Put ==
    /\ wopen
    /\ \E k \in 1 .. PIPESIZE - Len(queue) : \E s \in [1 .. k -> Bytes] :
          queue' = queue \o s
    /\ UNCHANGED <<ropen, wopen>>

Get ==
    /\ ropen
    /\ \E k \in 1 .. Len(queue) : queue' = SubSeq(queue, k + 1, Len(queue))
    /\ UNCHANGED <<ropen, wopen>>

CloseRead == ropen /\ ropen' = FALSE /\ UNCHANGED <<queue, wopen>>

CloseWrite == wopen /\ wopen' = FALSE /\ UNCHANGED <<queue, ropen>>

Next == Put \/ Get \/ CloseRead \/ CloseWrite

Spec == Init /\ [][Next]_vars
============================================================================
