-------------------------------- MODULE Bio --------------------------------
(***************************************************************************)
(* The buffer cache of bio.c over the sleep locks of sleeplock.c and the   *)
(* disk driver of ide.c.  A step is a critical section of bcache.lock, of  *)
(* a sleep lock's spin lock or of idelock; sleep gives up the lock and     *)
(* becomes visible to wakeup in one step (modules Pipe and Proc look into  *)
(* that).  The drive is external: it executes the command it was given and *)
(* raises the interrupt.                                                   *)
(***************************************************************************)
EXTENDS Integers, Sequences, FiniteSets, Functions

CONSTANTS
    Procs, NoProc,
    Blocks, NoBlock,
    Vals,               \* contents of blocks
    NBUF,
    MaxPinned           \* bound: blocks that are logged and not yet written
                        \* (the log limits them, log.c:132)

Bufs == 1 .. NBUF

ASSUME BioAssumption ==
    /\ IsFiniteSet(Procs) /\ NoProc \notin Procs /\ NoBlock \notin Blocks
    /\ NBUF \in Nat \ {0} /\ MaxPinned \in Nat

VARIABLES
    buf,        \* blockno, valid, dirty, refcnt and data of each buffer
    lru,        \* the list of buffers, most recently used first
    slock,      \* who holds the sleep lock of each buffer
    idequeue,   \* requests for the disk, the active one first
    disk,       \* the content of the disk
    drive,      \* the command the drive has: op, blockno and data; done is the
                \* interrupt
    pc,         \* where a process is
    mine        \* the buffer it uses, 0 if none, and why it calls iderw

vars == <<buf, lru, slock, idequeue, disk, drive, pc, mine>>

NoCommand == [op |-> "none", blockno |-> NoBlock, data |-> CHOOSE v \in Vals : TRUE, done |-> FALSE]
Unused == [b |-> 0, op |-> "read"]

\* binit; the content of a buffer that has held no block is arbitrary.
Init ==
    /\ disk \in [Blocks -> Vals]
    /\ \E v \in Vals : buf = [b \in Bufs |->
          [blockno |-> NoBlock, valid |-> FALSE, dirty |-> FALSE, refcnt |-> 0, data |-> v]]
    /\ lru = [k \in Bufs |-> NBUF + 1 - k]
    /\ slock = [b \in Bufs |-> NoProc]
    /\ idequeue = <<>>
    /\ drive = NoCommand
    /\ pc = [p \in Procs |-> "idle"]
    /\ mine = [p \in Procs |-> Unused]

----------------------------------------------------------------------------
(* bget and bread *)

\* Mutant: a buffer that nobody uses is not recognised.
Cached_InUse(n) == {b \in Bufs : buf[b].blockno = n /\ buf[b].refcnt > 0}

Cached(n) == {b \in Bufs : buf[b].blockno = n}

\* Mutant: a buffer that is logged and not written is recycled.
Idle_Dirty(b) == buf[b].refcnt = 0

\* B_DIRTY keeps the buffers that the log has not written yet.
Idle(b) == buf[b].refcnt = 0 /\ ~buf[b].dirty

\* The buffer to recycle: the idle one used least recently.
Victim(b) == \E k \in Bufs : b = lru[k] /\ Idle(b) /\ \A j \in k + 1 .. NBUF : ~Idle(lru[j])

\* bget finds the buffer ...
Hit(p, b) ==
    /\ buf' = [buf EXCEPT ![b].refcnt = @ + 1]
    /\ mine' = [mine EXCEPT ![p].b = b]
    /\ pc' = [pc EXCEPT ![p] = "lock"]

\* ... or recycles one ...
Recycle(p, n, b) ==
    /\ buf' = [buf EXCEPT ![b].blockno = n, ![b].valid = FALSE,
                          ![b].dirty = FALSE, ![b].refcnt = 1]
    /\ mine' = [mine EXCEPT ![p].b = b]
    /\ pc' = [pc EXCEPT ![p] = "lock"]

\* ... and panics when there is none.
NoBuffers(p) ==
    /\ \A k \in Bufs : ~Idle(lru[k])
    /\ pc' = [pc EXCEPT ![p] = "panic"]
    /\ UNCHANGED <<buf, mine>>

Bget(p, n) ==
    /\ pc[p] = "idle"
    /\ \/ \E b \in Cached(n) : Hit(p, b)
       \/ Cached(n) = {} /\ \E b \in Bufs : Victim(b) /\ Recycle(p, n, b)
       \/ Cached(n) = {} /\ NoBuffers(p)
    /\ UNCHANGED <<lru, slock, idequeue, disk, drive>>

\* bread reads the block unless that has been done.
Bread(b) == IF buf[b].valid THEN "have" ELSE "rw"

\* acquiresleep.
AcquireSleep(p) ==
    /\ pc[p] = "lock"
    /\ LET b == mine[p].b
       IN  \/ /\ slock[b] # NoProc
              /\ pc' = [pc EXCEPT ![p] = "locksleep"]
              /\ UNCHANGED slock
           \/ /\ slock[b] = NoProc
              /\ slock' = [slock EXCEPT ![b] = p]
              /\ pc' = [pc EXCEPT ![p] = Bread(b)]
    /\ UNCHANGED <<buf, lru, idequeue, disk, drive, mine>>

----------------------------------------------------------------------------
(* iderw and ideintr *)

\* idestart: a write hands over the data at once.
Command(b) == [op |-> IF buf[b].dirty THEN "write" ELSE "read", blockno |-> buf[b].blockno,
               data |-> buf[b].data, done |-> FALSE]

\* The buffer is queued, the disk is started if it was idle, and the process
\* sleeps: the flags are as it found them.
Iderw(p) ==
    /\ pc[p] = "rw"
    /\ LET b == mine[p].b
       IN  /\ idequeue' = Append(idequeue, b)
           /\ drive' = IF idequeue = <<>> THEN Command(b) ELSE drive
    /\ pc' = [pc EXCEPT ![p] = "iosleep"]
    /\ UNCHANGED <<buf, lru, slock, disk, mine>>

\* The drive executes its command.
Drive ==
    /\ drive.op # "none" /\ ~drive.done
    /\ \/ drive.op = "write" /\ disk' = [disk EXCEPT ![drive.blockno] = drive.data]
       \/ drive.op = "read" /\ UNCHANGED disk
    /\ drive' = [drive EXCEPT !.done = TRUE]
    /\ UNCHANGED <<buf, lru, slock, idequeue, pc, mine>>

\* wakeup: the sleepers from the pc s that use b go on at the pc t.
Woken(s, b, t) == [p \in Procs |-> IF pc[p] = s /\ mine[p].b = b THEN t ELSE pc[p]]

\* Mutant: the next request is not started.
NextCommand_None(q) == NoCommand

NextCommand(q) == IF q = <<>> THEN NoCommand ELSE Command(Head(q))

IdeIntr ==
    /\ drive.done
    /\ idequeue # <<>>
    /\ LET b == Head(idequeue)
       IN  /\ buf' = [buf EXCEPT ![b].data = IF buf[b].dirty THEN @ ELSE disk[drive.blockno],
                                 ![b].valid = TRUE, ![b].dirty = FALSE]
           /\ pc' = Woken("iosleep", b, "iotest")
    /\ idequeue' = Tail(idequeue)
    /\ drive' = NextCommand(Tail(idequeue))
    /\ UNCHANGED <<lru, slock, disk, mine>>

\* The loop of iderw tests the flags again.
IoTest(p) ==
    /\ pc[p] = "iotest"
    /\ LET b == mine[p].b
       IN  pc' = [pc EXCEPT ![p] = IF buf[b].valid /\ ~buf[b].dirty THEN "have" ELSE "iosleep"]
    /\ mine' = [mine EXCEPT ![p].op = "read"]
    /\ UNCHANGED <<buf, lru, slock, idequeue, disk, drive>>

----------------------------------------------------------------------------
(* The process has the buffer *)

\* The buffers with a new content in b, and its B_DIRTY.
Dirtied(b, v) == [buf EXCEPT ![b].data = v, ![b].dirty = TRUE]

\* It changes the content and calls bwrite ...
Bwrite(p, v) ==
    /\ pc[p] = "have"
    /\ buf' = Dirtied(mine[p].b, v)
    /\ pc' = [pc EXCEPT ![p] = "rw"]
    /\ mine' = [mine EXCEPT ![p].op = "write"]
    /\ UNCHANGED <<lru, slock, idequeue, disk, drive>>

\* ... or log_write, which keeps the buffer in the cache.
Pinned == {b \in Bufs : buf[b].dirty}
LogWrite(p, v) ==
    /\ pc[p] = "have"
    /\ Cardinality(Pinned \cup {mine[p].b}) <= MaxPinned
    /\ buf' = Dirtied(mine[p].b, v)
    /\ UNCHANGED <<lru, slock, idequeue, disk, drive, pc, mine>>

\* Mutant: a release wakes nobody.
Released_Silent(p) == [pc EXCEPT ![p] = "drop"]

Released(p) == [Woken("locksleep", mine[p].b, "lock") EXCEPT ![p] = "drop"]

\* brelse gives up the lock ...
ReleaseSleep(p) ==
    /\ pc[p] = "have"
    /\ slock' = [slock EXCEPT ![mine[p].b] = NoProc]
    /\ pc' = Released(p)
    /\ UNCHANGED <<buf, lru, idequeue, disk, drive, mine>>

\* The list with b moved to its front.
ToFront(b) ==
    LET k == CHOOSE i \in Bufs : lru[i] = b
    IN  [i \in Bufs |-> IF i = 1 THEN b ELSE IF i <= k THEN lru[i - 1] ELSE lru[i]]

\* ... and then the reference; a buffer that nobody uses goes to the front.
Brelse(p) ==
    /\ pc[p] = "drop"
    /\ LET b == mine[p].b
       IN  /\ buf' = [buf EXCEPT ![b].refcnt = @ - 1]
           /\ lru' = IF buf[b].refcnt = 1 THEN ToFront(b) ELSE lru
    /\ pc' = [pc EXCEPT ![p] = "idle"]
    /\ mine' = [mine EXCEPT ![p] = Unused]
    /\ UNCHANGED <<slock, idequeue, disk, drive>>

Step(p) ==
    \/ \E n \in Blocks : Bget(p, n)
    \/ AcquireSleep(p) \/ Iderw(p) \/ IoTest(p)
    \/ \E v \in Vals : Bwrite(p, v) \/ LogWrite(p, v)
    \/ ReleaseSleep(p) \/ Brelse(p)

\* panic stops every CPU.
Panicked == \E p \in Procs : pc[p] = "panic"

Next == ~Panicked /\ (Drive \/ IdeIntr \/ \E p \in Procs : Step(p))

(***************************************************************************)
(* The drive answers, interrupts are taken, and a process inside the       *)
(* kernel goes on: the scheduler is round robin.  Nothing says when a      *)
(* process releases a buffer.                                              *)
(***************************************************************************)
Fairness ==
    /\ WF_vars(~Panicked /\ Drive) /\ WF_vars(~Panicked /\ IdeIntr)
    /\ \A p \in Procs : WF_vars(~Panicked /\ Iderw(p)) /\ WF_vars(~Panicked /\ IoTest(p))

Spec == Init /\ [][Next]_vars /\ Fairness

----------------------------------------------------------------------------
(* Properties *)

(***************************************************************************)
(* A block is in one buffer at most, and nobody is about to use a buffer   *)
(* that has become another block's: bget and brelse keep a buffer as long  *)
(* as someone has or waits for it (bio.c:82).  Who has it holds its lock,  *)
(* so that bwrite, iderw and brelse never panic.                           *)
(***************************************************************************)
OneCopy ==
    /\ \A b, c \in Bufs : b # c /\ buf[b].blockno = buf[c].blockno => buf[b].blockno = NoBlock
    /\ \A b \in Bufs : buf[b].refcnt = Cardinality({p \in Procs : mine[p].b = b})
    /\ \A p \in Procs : pc[p] \in {"have", "rw", "iosleep", "iotest"} => slock[mine[p].b] = p

(***************************************************************************)
(* Who sleeps will be woken: for a lock only while someone holds it, for   *)
(* the disk only while the request is queued, each request once, the drive *)
(* at work on the first of them.                                           *)
(***************************************************************************)
SleepersWaitForSomething ==
    /\ \A p \in Procs :
          /\ pc[p] = "locksleep" => slock[mine[p].b] # NoProc
          /\ pc[p] = "iosleep" => slock[mine[p].b] = p /\ mine[p].b \in Range(idequeue)
    /\ IsInjective(idequeue)
    /\ IF idequeue = <<>> THEN drive.op = "none"
       ELSE drive.op # "none" /\ drive.blockno = buf[Head(idequeue)].blockno

\* The cache hides the disk: a block is its buffer when that has been read or
\* changed, and a process has it from the return of bread to brelse.
val == [n \in Blocks |->
    LET bs == {b \in Cached(n) : buf[b].valid}
    IN  IF bs = {} THEN disk[n] ELSE buf[CHOOSE b \in bs : TRUE].data]
Has(p, n) ==
    /\ mine[p].b # 0 /\ buf[mine[p].b].blockno = n
    /\ pc[p] = "have" \/ (pc[p] \in {"rw", "iosleep", "iotest"} /\ mine[p].op = "write")
holder == [n \in Blocks |->
    IF \E p \in Procs : Has(p, n) THEN CHOOSE p \in Procs : Has(p, n) ELSE NoProc]

Store == INSTANCE BlockStore

(***************************************************************************)
(* "Only one process at a time can use a buffer" (bio.c:13) and what it    *)
(* finds is what was written last, however buffers are recycled and        *)
(* requests queued.                                                        *)
(***************************************************************************)
ImplementsBlockStore == Store!Spec

(***************************************************************************)
(* A process that has called iderw returns from it with the buffer, unless *)
(* some other finds no buffer at all and bget panics.                      *)
(***************************************************************************)
Served == \A p \in Procs : pc[p] = "rw" ~> (pc[p] = "have" \/ Panicked)
=============================================================================
