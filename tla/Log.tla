-------------------------------- MODULE Log --------------------------------
(***************************************************************************)
(* The write-ahead log of log.c: group commit of concurrent FS system      *)
(* calls, the steps of a commit as the disk sees them, crashes at any      *)
(* point, recovery at boot, and the sleep and wakeup of begin_op.          *)
(*                                                                         *)
(* The buffer cache is represented by what bread returns: cache[b] is the  *)
(* content of block b for the running system.  A block that is not         *)
(* B_DIRTY and not locked may be recycled and read again (bio.c:82).       *)
(* A disk write of one block is atomic.                                    *)
(***************************************************************************)
EXTENDS Integers, Sequences, FiniteSets, Functions

CONSTANTS
    Procs,          \* processes that make FS system calls
    Blocks,         \* home blocks of the file system
    Vals,           \* block contents
    InitDisk,       \* what mkfs left
    LOGSIZE,        \* entries of the log header
    MAXOPBLOCKS,    \* blocks begin_op reserves for a call
    NLOG,           \* blocks of the on-disk log, header included
    OpBlocks,       \* distinct blocks a call really writes, at most
    NoBlock,
    MaxCrashes      \* bound: crashes in a behaviour

ASSUME LogAssumption ==
    /\ LOGSIZE \in Nat \ {0} /\ MAXOPBLOCKS \in Nat \ {0} /\ NLOG \in Nat \ {0}
    /\ OpBlocks \in 0 .. MAXOPBLOCKS /\ MaxCrashes \in Nat
    /\ 2 * MAXOPBLOCKS <= LOGSIZE      \* 3 * MAXOPBLOCKS in param.h
    /\ LOGSIZE <= NLOG                 \* equal in mkfs.c
    /\ InitDisk \in [Blocks -> Vals]
    /\ NoBlock \notin Blocks
    /\ IsFiniteSet(Procs) /\ IsFiniteSet(Blocks)

VARIABLES
    home,       \* disk: the home blocks
    logd,       \* disk: the data blocks of the log
    head,       \* disk: the log header, as the sequence of its block numbers
    cache,      \* the blocks as bread returns them
    dirty,      \* the blocks with B_DIRTY
    lh,         \* log.lh
    committing, \* log.committing
    phase,      \* what the thread that commits or recovers does next
    tail,       \* its loop counter
    pc,         \* what each process does
    wrote,      \* ghost: the blocks each FS call has logged
    held,       \* the buffer a process has modified and not logged yet
    panicked,   \* log_write has panicked: no system call goes on
    crashes

disk == <<home, logd, head>>
vars == <<home, logd, head, cache, dirty, lh, committing, phase, tail, pc, wrote,
          held, panicked, crashes>>

Active == {p \in Procs : pc[p] \in {"in", "append"}}
outstanding == Cardinality(Active)
Recovering == phase \in {"boot", "redo"}

Init ==
    /\ home = InitDisk
    /\ \E v \in Vals : logd = [i \in 1 .. LOGSIZE |-> v]
    /\ head = << >>
    /\ cache = home
    /\ dirty = {}
    /\ lh = << >>
    /\ committing = FALSE
    /\ phase = "boot"
    /\ tail = 0
    /\ pc = [p \in Procs |-> "user"]
    /\ wrote = [p \in Procs |-> {}]
    /\ held = [p \in Procs |-> NoBlock]
    /\ panicked = FALSE
    /\ crashes = 0

----------------------------------------------------------------------------
(* FS system calls *)

HasRoom == Len(lh) + (outstanding + 1) * MAXOPBLOCKS <= LOGSIZE

Admits == ~committing /\ HasRoom

Begin(p) ==
    /\ ~Recovering /\ ~panicked
    /\ pc[p] \in {"user", "begin"}
    /\ Admits
    /\ pc' = [pc EXCEPT ![p] = "in"]
    /\ UNCHANGED <<disk, cache, dirty, lh, committing, phase, tail, wrote, held, panicked, crashes>>

\* sleep(&log, &log.lock)
BeginSleeps(p) ==
    /\ ~Recovering /\ ~panicked
    /\ pc[p] \in {"user", "begin"}
    /\ ~Admits
    /\ pc' = [pc EXCEPT ![p] = "asleep"]
    /\ UNCHANGED <<disk, cache, dirty, lh, committing, phase, tail, wrote, held, panicked, crashes>>

\* log_write's test: an entry of the header and a block of the log are left.
HasEntry == Len(lh) < LOGSIZE /\ Len(lh) < NLOG - 1

(***************************************************************************)
(* The call modifies a locked buffer and enters log_write, which tests the *)
(* space before it takes the lock and panics without it, whether or not    *)
(* the block would be absorbed.                                            *)
(***************************************************************************)
Modify(p, b, v) ==
    /\ pc[p] = "in" /\ ~panicked
    /\ Cardinality(wrote[p] \cup {b}) <= OpBlocks
    /\ \A q \in Procs : held[q] # b
    /\ panicked' = ~HasEntry
    /\ cache' = [cache EXCEPT ![b] = v]
    /\ held' = [held EXCEPT ![p] = b]
    /\ pc' = [pc EXCEPT ![p] = "append"]
    /\ UNCHANGED <<disk, dirty, lh, committing, phase, tail, wrote, crashes>>

\* Mutant for NeverTooBig: a block is entered again each time it is logged.
Entered_Again(b) == Append(lh, b)

\* A block already in the header is absorbed.
Entered(b) == IF b \in Range(lh) THEN lh ELSE Append(lh, b)

Pinned(b) == dirty \cup {b}

\* The rest of log_write, under log.lock.
LogWrite(p) ==
    /\ pc[p] = "append" /\ ~panicked
    /\ lh' = Entered(held[p])
    /\ dirty' = Pinned(held[p])
    /\ wrote' = [wrote EXCEPT ![p] = @ \cup {held[p]}]
    /\ held' = [held EXCEPT ![p] = NoBlock]
    /\ pc' = [pc EXCEPT ![p] = "in"]
    /\ UNCHANGED <<disk, cache, committing, phase, tail, panicked, crashes>>

\* Mutant for NoLostWakeup: nobody is woken.
Woke_Nobody(s) == s

\* wakeup(&log), applied to the processes' states s.
Woke(s) == [q \in Procs |-> IF s[q] = "asleep" THEN "begin" ELSE s[q]]

\* Mutant for DurableWhenIdle: a single block is not worth a commit.
Logged_Several == Len(lh) > 1

\* commit does nothing when nothing was logged.
Logged == Len(lh) > 0

\* The last call to end becomes the committer.
EndOp(p) ==
    /\ pc[p] = "in" /\ ~panicked
    /\ wrote' = [wrote EXCEPT ![p] = {}]
    /\ IF Active = {p}
       THEN /\ committing' = TRUE
            /\ phase' = IF Logged THEN "log" ELSE "done"
            /\ tail' = 0
            /\ pc' = [pc EXCEPT ![p] = "commit"]
       ELSE /\ pc' = Woke([pc EXCEPT ![p] = "user"])
            /\ UNCHANGED <<committing, phase, tail>>
    /\ UNCHANGED <<disk, cache, dirty, lh, held, panicked, crashes>>

----------------------------------------------------------------------------
(* commit *)

\* One block of write_log.
WriteLog ==
    /\ phase = "log" /\ tail < Len(lh)
    /\ logd' = [logd EXCEPT ![tail + 1] = cache[lh[tail + 1]]]
    /\ tail' = tail + 1
    /\ UNCHANGED <<home, head, cache, dirty, lh, committing, phase, pc, wrote, held, panicked, crashes>>

\* Mutant for ImplementsAtomicDisk: the header is written before the blocks.
LogWritten_Early == phase = "log"

\* write_log is through with its loop.
LogWritten == phase = "log" /\ tail = Len(lh)

\* write_head: the commit point.
WriteHead ==
    /\ LogWritten
    /\ head' = lh
    /\ phase' = "install"
    /\ tail' = 0
    /\ UNCHANGED <<home, logd, cache, dirty, lh, committing, pc, wrote, held, panicked, crashes>>

\* One block of install_trans, in a commit or at boot.
InstallTrans ==
    /\ phase \in {"install", "redo"} /\ tail < Len(lh)
    /\ home' = [home EXCEPT ![lh[tail + 1]] = logd[tail + 1]]
    /\ cache' = [cache EXCEPT ![lh[tail + 1]] = logd[tail + 1]]
    /\ dirty' = dirty \ {lh[tail + 1]}
    /\ tail' = tail + 1
    /\ UNCHANGED <<logd, head, lh, committing, phase, pc, wrote, held, panicked, crashes>>

\* log.lh.n = 0 and the second write_head.
ClearHead ==
    /\ phase \in {"install", "redo"} /\ tail = Len(lh)
    /\ lh' = << >>
    /\ head' = << >>
    /\ tail' = 0
    /\ phase' = IF phase = "redo" THEN "run" ELSE "done"
    /\ UNCHANGED <<home, logd, cache, dirty, committing, pc, wrote, held, panicked, crashes>>

\* The end of end_op in the committer.
Committed(p) ==
    /\ pc[p] = "commit" /\ phase = "done"
    /\ committing' = FALSE
    /\ phase' = "run"
    /\ pc' = Woke([pc EXCEPT ![p] = "user"])
    /\ UNCHANGED <<disk, cache, dirty, lh, tail, wrote, held, panicked, crashes>>

----------------------------------------------------------------------------
(* Recovery, eviction, crash *)

\* read_head
ReadHead ==
    /\ phase = "boot"
    /\ lh' = head
    /\ phase' = "redo"
    /\ tail' = 0
    /\ UNCHANGED <<disk, cache, dirty, committing, pc, wrote, held, panicked, crashes>>

\* bget recycles the buffer of a block; the next bread reads it from disk.
Evict(b) ==
    /\ b \notin dirty /\ ~panicked
    /\ \A p \in Procs : held[p] # b
    /\ cache' = [cache EXCEPT ![b] = home[b]]
    /\ UNCHANGED <<disk, dirty, lh, committing, phase, tail, pc, wrote, held, panicked, crashes>>

\* A power failure, or the reset of a machine that has panicked.
Crash ==
    /\ crashes < MaxCrashes
    /\ panicked' = FALSE
    /\ crashes' = crashes + 1
    /\ cache' = home
    /\ dirty' = {}
    /\ lh' = << >>
    /\ committing' = FALSE
    /\ phase' = "boot"
    /\ tail' = 0
    /\ pc' = [p \in Procs |-> "user"]
    /\ wrote' = [p \in Procs |-> {}]
    /\ held' = [p \in Procs |-> NoBlock]
    /\ UNCHANGED disk

Next ==
    \/ \E p \in Procs : \/ Begin(p) \/ BeginSleeps(p) \/ EndOp(p)
                        \/ LogWrite(p) \/ Committed(p)
                        \/ \E b \in Blocks, v \in Vals : Modify(p, b, v)
    \/ WriteLog \/ WriteHead \/ InstallTrans \/ ClearHead \/ ReadHead
    \/ \E b \in Blocks : Evict(b)
    \/ Crash

Spec == Init /\ [][Next]_vars

----------------------------------------------------------------------------
(* Properties *)

\* What recovery would make of the disk.
Recovered ==
    [b \in Blocks |->
        IF b \in Range(head) THEN logd[CHOOSE i \in 1 .. Len(head) : head[i] = b]
        ELSE home[b]]

AtomicDisk == INSTANCE AtomicDisk WITH
    durable <- Recovered,
    current <- IF Recovering THEN Recovered ELSE cache,
    active <- Active

(***************************************************************************)
(* The log makes FS system calls atomic (log.c:9-15): whatever the calls   *)
(* interleave, wherever the machine crashes, in a commit or in a recovery, *)
(* the disk afterwards holds all or none of the writes of every call.      *)
(***************************************************************************)
ImplementsAtomicDisk == AtomicDisk!Spec

(***************************************************************************)
(* Once the last end_op has returned and no new call has begun, a crash    *)
(* loses nothing (log.c:143-144).                                          *)
(***************************************************************************)
DurableWhenIdle == phase = "run" /\ Active = {} => Recovered = cache

(***************************************************************************)
(* log_write never panics (log.c:218-219), whatever the calls interleave   *)
(* and absorb, as long as no call writes all the MAXOPBLOCKS blocks that   *)
(* begin_op reserves for it (OpBlocks < MAXOPBLOCKS; filewrite keeps below *)
(* it, file.c:133).  It does not hold for calls that write them all:       *)
(* begin_op counts on LOGSIZE blocks (log.c:132), but the header takes one *)
(* of the NLOG = LOGSIZE blocks mkfs gives the log and log_write stops at  *)
(* NLOG - 1.                                                               *)
(***************************************************************************)
NeverTooBig == ~panicked

(***************************************************************************)
(* No wakeup is lost: a process sleeps in begin_op only while the log      *)
(* would not admit it.  Whatever makes room, the end of another call       *)
(* (log.c:161) or of the commit (log.c:171), has woken it.                 *)
(***************************************************************************)
NoLostWakeup == Admits => \A p \in Procs : pc[p] # "asleep"
============================================================================
