-------------------------------- MODULE Pipe --------------------------------
(***************************************************************************)
(* A pipe (pipe.c) shared by reading and writing processes, with the sleep *)
(* and wakeup of proc.c it waits by: the two locks are taken in the code's *)
(* order, so that a wakeup or a kill may fall between any two of its steps.*)
(*                                                                         *)
(* Copying bytes under the pipe's lock is one step.  A process closes its  *)
(* descriptor when it is done; the last one of a side calls pipeclose.     *)
(***************************************************************************)
EXTENDS Integers, Sequences, FiniteSets

CONSTANTS
    Readers, Writers, NoProc,
    Bytes,
    PIPESIZE,
    UINTMOD,    \* 2^32: nread and nwrite are uints
    Killable,   \* the processes that may be killed
    Lengths     \* n of the calls read(fd, buf, n) and write(fd, buf, n)

Procs == Readers \cup Writers

ASSUME PipeAssumption ==
    /\ PIPESIZE \in Nat \ {0} /\ UINTMOD \in Nat
    /\ UINTMOD % PIPESIZE = 0 /\ UINTMOD > PIPESIZE
    /\ Lengths \subseteq Nat
    /\ Killable \subseteq Procs
    /\ Readers \cap Writers = {} /\ NoProc \notin Procs

VARIABLES
    data, nread, nwrite, readopen, writeopen,   \* struct pipe
    freed,      \* the page of the pipe was given back
    lock,       \* holder of pipe.lock
    ptlock,     \* holder of ptable.lock
    pc,         \* what each process does next
    n, i,       \* the locals of pipewrite and piperead
    killed      \* proc.killed

ring == <<data, nread, nwrite>>
ends == <<readopen, writeopen, freed>>
vars == <<data, nread, nwrite, readopen, writeopen, freed, lock, ptlock, pc, n, i, killed>>

Init ==
    /\ \E b \in Bytes : data = [k \in 0 .. PIPESIZE - 1 |-> b]
    /\ nread = 0 /\ nwrite = 0
    /\ readopen = TRUE /\ writeopen = TRUE /\ freed = FALSE
    /\ lock = NoProc /\ ptlock = NoProc
    /\ pc = [p \in Procs |-> "user"]
    /\ n = [p \in Procs |-> 0]
    /\ i = [p \in Procs |-> 0]
    /\ killed = [p \in Procs |-> FALSE]

\* Unsigned arithmetic.
Plus(a, k) == (a + k) % UINTMOD
Count == (nwrite - nread + UINTMOD) % UINTMOD
Full == nwrite = Plus(nread, PIPESIZE)
Empty == nread = nwrite

At(p, label) == pc[p] = label
Goto(p, label) == pc' = [pc EXCEPT ![p] = label]

\* wakeup1: the sleepers of one side go on to take the pipe's lock again.
Woken(side, s) == [q \in Procs |-> IF q \in side /\ s[q] = "asleep" THEN "acquire" ELSE s[q]]

\* Return from the call to user space, where a killed process exits: the
\* states of the processes are s but for p, whose locals are gone.
Return(p, s) ==
    /\ pc' = [s EXCEPT ![p] = "user"]
    /\ n' = [n EXCEPT ![p] = 0]
    /\ i' = [i EXCEPT ![p] = 0]

----------------------------------------------------------------------------
(* Calls *)

Call(p, len) ==
    /\ At(p, "user") /\ ~killed[p]
    /\ Goto(p, "acquire")
    /\ n' = [n EXCEPT ![p] = len]
    /\ i' = [i EXCEPT ![p] = 0]
    /\ UNCHANGED <<ring, ends, lock, ptlock, killed>>

Acquire(p) ==
    /\ At(p, "acquire")
    /\ lock = NoProc
    /\ lock' = p
    /\ Goto(p, "loop")
    /\ UNCHANGED <<ring, ends, ptlock, n, i, killed>>

\* The bytes s go into the ring from nwrite on.
Copied(s) ==
    [k \in 0 .. PIPESIZE - 1 |->
        IF \E j \in 1 .. Len(s) : Plus(nwrite, j - 1) % PIPESIZE = k
        THEN s[CHOOSE j \in 1 .. Len(s) : Plus(nwrite, j - 1) % PIPESIZE = k]
        ELSE data[k]]

\* Mutant for ImplementsFifo: one byte too many goes into a full ring.
Room_OneMore(p) == IF n[p] - i[p] < PIPESIZE - Count + 1 THEN n[p] - i[p] ELSE PIPESIZE - Count + 1

\* How many bytes pipewrite stores before the ring is full or it is done.
Room(p) == IF n[p] - i[p] < PIPESIZE - Count THEN n[p] - i[p] ELSE PIPESIZE - Count

WriteBytes(p) ==
    /\ p \in Writers /\ At(p, "loop")
    /\ i[p] < n[p] /\ ~Full
    /\ \E s \in [1 .. Room(p) -> Bytes] : data' = Copied(s)
    /\ nwrite' = Plus(nwrite, Room(p))
    /\ i' = [i EXCEPT ![p] = @ + Room(p)]
    /\ UNCHANGED <<nread, ends, lock, ptlock, pc, n, killed>>

\* The reader is gone or this process was killed: return -1.
WriteFails(p) ==
    /\ p \in Writers /\ At(p, "loop")
    /\ i[p] < n[p] /\ Full
    /\ ~readopen \/ killed[p]
    /\ lock' = NoProc
    /\ Return(p, pc)
    /\ UNCHANGED <<ring, ends, ptlock, killed>>

WriteFull(p) ==
    /\ p \in Writers /\ At(p, "loop")
    /\ i[p] < n[p] /\ Full
    /\ readopen /\ ~killed[p]
    /\ Goto(p, "full")
    /\ UNCHANGED <<ring, ends, lock, ptlock, n, i, killed>>

\* Mutant for ReaderServed: a writer that finds the ring full wakes nobody.
WakeReaders_Not(p) ==
    /\ At(p, "full") /\ ptlock = NoProc
    /\ pc' = [pc EXCEPT ![p] = "sleep"]
    /\ UNCHANGED <<ring, ends, lock, ptlock, n, i, killed>>

\* wakeup(&p->nread) before the writer sleeps.
WakeReaders(p) ==
    /\ At(p, "full") /\ ptlock = NoProc
    /\ pc' = Woken(Readers, [pc EXCEPT ![p] = "sleep"])
    /\ UNCHANGED <<ring, ends, lock, ptlock, n, i, killed>>

WriteDone(p) ==
    /\ p \in Writers /\ At(p, "loop")
    /\ i[p] = n[p] /\ ptlock = NoProc
    /\ lock' = NoProc
    /\ Return(p, Woken(Readers, pc))
    /\ UNCHANGED <<ring, ends, ptlock, killed>>

----------------------------------------------------------------------------

ReadFails(p) ==
    /\ p \in Readers /\ At(p, "loop")
    /\ Empty /\ writeopen /\ killed[p]
    /\ lock' = NoProc
    /\ Return(p, pc)
    /\ UNCHANGED <<ring, ends, ptlock, killed>>

ReadEmpty(p) ==
    /\ p \in Readers /\ At(p, "loop")
    /\ Empty /\ writeopen /\ ~killed[p]
    /\ Goto(p, "sleep")
    /\ UNCHANGED <<ring, ends, lock, ptlock, n, i, killed>>

\* As many bytes as there are, up to n; none at the end of the file.
ReadBytes(p) ==
    /\ p \in Readers /\ At(p, "loop")
    /\ ~Empty \/ ~writeopen
    /\ LET m == IF n[p] < Count THEN n[p] ELSE Count
       IN  /\ nread' = Plus(nread, m)
           /\ i' = [i EXCEPT ![p] = m]
    /\ Goto(p, "wake")
    /\ UNCHANGED <<data, nwrite, ends, lock, ptlock, n, killed>>

ReadDone(p) ==
    /\ At(p, "wake") /\ ptlock = NoProc
    /\ lock' = NoProc
    /\ Return(p, Woken(Writers, pc))
    /\ UNCHANGED <<ring, ends, ptlock, killed>>

----------------------------------------------------------------------------
(* sleep, kill, close *)

\* Mutant for NoLostWakeup: sleep releases lk without ptable.lock.
SleepLocks_None(p) ==
    /\ lock' = NoProc
    /\ UNCHANGED ptlock

\* sleep takes ptable.lock and only then releases the pipe's lock.
SleepLocks(p) ==
    /\ ptlock = NoProc
    /\ ptlock' = p
    /\ lock' = NoProc

Sleep(p) ==
    /\ At(p, "sleep")
    /\ SleepLocks(p)
    /\ Goto(p, "block")
    /\ UNCHANGED <<ring, ends, n, i, killed>>

\* p->state = SLEEPING; sched() gives ptable.lock to the scheduler, which
\* releases it.
Block(p) ==
    /\ At(p, "block")
    /\ ptlock' = NoProc
    /\ Goto(p, "asleep")
    /\ UNCHANGED <<ring, ends, lock, n, i, killed>>

Kill(p) ==
    /\ p \in Killable /\ ~killed[p] /\ ptlock = NoProc /\ ~At(p, "closed")
    /\ killed' = [killed EXCEPT ![p] = TRUE]
    /\ pc' = IF At(p, "asleep") THEN [pc EXCEPT ![p] = "acquire"] ELSE pc
    /\ UNCHANGED <<ring, ends, lock, ptlock, n, i>>

Side(p) == IF p \in Readers THEN Readers ELSE Writers

\* Mutant for NoUseAfterFree: every close is taken for the last one.
LastOf_Any(p) == TRUE

\* No other process has this side open.
LastOf(p) == \A q \in Side(p) \ {p} : At(q, "closed")

\* fileclose: only the last reference calls pipeclose.
CloseFd(p) ==
    /\ At(p, "user")
    /\ Goto(p, IF LastOf(p) THEN "close" ELSE "closed")
    /\ UNCHANGED <<ring, ends, lock, ptlock, n, i, killed>>

PipeClose(p) ==
    /\ At(p, "close")
    /\ lock = NoProc /\ ptlock = NoProc
    /\ readopen' = (readopen /\ p \notin Readers)
    /\ writeopen' = (writeopen /\ p \notin Writers)
    /\ freed' = (~readopen' /\ ~writeopen')
    /\ pc' = Woken(Procs \ Side(p), [pc EXCEPT ![p] = "closed"])
    /\ UNCHANGED <<ring, lock, ptlock, n, i, killed>>

AllClosed == (\A p \in Procs : At(p, "closed")) /\ UNCHANGED vars

\* A step of p inside a call.
Inside(p) ==
    \/ Acquire(p) \/ WriteBytes(p) \/ WriteFails(p) \/ WriteFull(p) \/ WakeReaders(p)
    \/ WriteDone(p) \/ ReadFails(p) \/ ReadEmpty(p) \/ ReadBytes(p) \/ ReadDone(p)
    \/ Sleep(p) \/ Block(p) \/ PipeClose(p)

Next ==
    \/ \E p \in Procs : Inside(p) \/ Kill(p) \/ CloseFd(p)
    \/ \E p \in Procs, len \in Lengths : Call(p, len)
    \/ AllClosed

(***************************************************************************)
(* A process that runs in the kernel keeps running: it is only kept from   *)
(* its next step by a lock or by sleeping.  Nothing is assumed of when     *)
(* processes make calls, nor of the fairness of a lock.                    *)
(***************************************************************************)
Spec == Init /\ [][Next]_vars /\ \A p \in Procs : WF_vars(Inside(p))

----------------------------------------------------------------------------
(* Properties *)

\* The bytes in the ring, the next one to be read first.
Queue == [k \in 1 .. Count |-> data[Plus(nread, k - 1) % PIPESIZE]]

Fifo == INSTANCE Fifo WITH queue <- Queue, ropen <- readopen, wopen <- writeopen

(***************************************************************************)
(* The ring of pipe.c is a first-in first-out queue of at most PIPESIZE    *)
(* bytes, also where nread and nwrite wrap around.                         *)
(***************************************************************************)
ImplementsFifo == Fifo!Spec

(***************************************************************************)
(* A writer that finds itself killed in pipewrite returns without waking   *)
(* the readers, also when it has stored bytes (pipe.c:86-89).              *)
(***************************************************************************)
WriterKilled == \E p \in Writers : killed[p]

(***************************************************************************)
(* No wakeup is lost between the test of the loop and the sleep: while     *)
(* nobody holds the pipe's lock, a reader sleeps only on an empty pipe     *)
(* that may still be written, a writer only on a full one that may still   *)
(* be read (proc.c:451-460).  A killed writer may leave bytes to a         *)
(* sleeping reader, until another write or close.                          *)
(***************************************************************************)
NoLostWakeup ==
    lock = NoProc =>
        /\ \A p \in Readers : At(p, "asleep") => writeopen /\ (Empty \/ WriterKilled)
        /\ \A p \in Writers : At(p, "asleep") => Full /\ readopen

\* The page of the pipe is freed (pipe.c:70) only when no process is in
\* pipewrite or piperead or may still call them.
NoUseAfterFree == freed => \A p \in Procs : At(p, "closed")

(***************************************************************************)
(* A reader asleep in piperead returns from the call once there is         *)
(* something to read or no writer is left, unless a writer was killed.     *)
(***************************************************************************)
ReaderServed ==
    \A p \in Readers :
        (At(p, "asleep") /\ (~Empty \/ ~writeopen)) ~> (At(p, "user") \/ WriterKilled)
============================================================================
