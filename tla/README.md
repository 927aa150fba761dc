# A TLA+ development of the shared-memory xv6 kernel

The repository is xv6 for x86 extended with System V style shared memory
(`shm.c`, `shm.h`, and changes in `proc.c`, `exec.c`, `vm.c`, `sysfile.c`).
This directory holds TLA+ models of its parts, TLC configurations that check
them on small instances, and TLAPS proofs, for every size of the instance, about the
models of the shared-memory subsystem, the process table, the log, the buffer cache,
the inodes and directories, user memory and the pipes.

## 1. Inventory

| Part | State it keeps | Operations | Interacts with | What makes it hard |
|---|---|---|---|---|
| Shared memory (`shm.c`) | `shm_segs[]`, `lastShmSegIndex`, `shminfo` counters, one lock; per process the slots `attached_shmsegs[]` | `shmget`, `shmat`, `shmdt`, `shmctl`, `removeshm` | `fork`, `exec`, `exit`, `wait` copy, count and forget attaches; `kalloc`, `mappages`, `freevm` | a segment is a run of table entries and all fields are repeated in each; counts are kept by five different functions; most of the code runs without the lock; allocation can fail half way |
| Log (`log.c`) | header in memory and on disk, `outstanding`, `committing` | `begin_op`, `log_write`, `end_op`, recovery | buffer cache pins logged blocks; `sleep`/`wakeup` | crash between any two disk writes, group commit, log space |
| Pipes (`pipe.c`) | ring, two counters, two flags, lock | `pipewrite`, `piperead`, `pipeclose` | `sleep`/`wakeup`/`kill`, `fileclose` | lost wakeups, wrap-around, last close |
| Processes (`proc.c`) | `ptable` | `fork`, `exit`, `wait`, `sleep`, `wakeup`, `kill`, scheduler | everything | hand-over of `ptable.lock`, orphans, kill races |
| Buffer cache, disk, sleep locks (`bio.c`, `ide.c`, `sleeplock.c`) | LRU list, `refcnt`, flags, request queue | `bread`, `bwrite`, `brelse`, `iderw`, `ideintr` | log, inodes | recycling of buffers others wait for, interrupt against request |
| Inodes, directories, path names (`fs.c`, `sysfile.c`) | inode cache, bitmap, inodes and directories on disk | `iget`, `ilock`, `iput`, `balloc`, `namex`, `create`, `link`, `unlink`, `chdir` | log, buffer cache, open files | a call locks several inodes one after the other and others act in between; counts of pointers and of names decide what is freed |
| Open files (`file.c`, `sysfile.c`) | `ftable`, `ofile[]` of each process | `open`, `close`, `dup`, `pipe`, and `fork` and `exit` | pipes, inodes, processes | counts across failures half way, `fileclose` works on a copy |
| Shell, init (`sh.c`, `init.c`) | descriptors, the command tree | parse and run a line | every call on files and processes | a stray end of a pipe blocks a pipeline; every table may be full |
| User memory (`vm.c`, `kalloc.c`, `exec.c`, `growproc`) | free list, page tables, `sz` | `allocuvm`, `deallocuvm`, `copyuvm`, `freevm`, `exec`, `sbrk` | `fork`, `exit`, `wait` | each of many allocations may fail |
| `mkfs` | the first image | | inodes | the initial state of the file system |
| Console (`console.c`) | input ring with `r`, `w`, `e` | `consoleintr`, `consoleread` | interrupts, `sleep` | three indices over one ring |
| Spin locks, traps, system-call dispatch | `ncli` | | | |
| Boot, interrupt controllers, other user programs | | | | not kernel logic with state of its own |

What must hold, part by part:

* shared memory: no physical page has two owners; live segments tile the table;
  the slots, page tables and counts of all processes agree with what they
  attached; nothing attached is freed; the first-fit search is right;
* log: the writes of an FS call survive a crash together or not at all; nothing
  is lost after the last `end_op`; space is never over-committed; no sleeper is
  forgotten;
* pipes: bytes come out in order; nobody sleeps through what it waits for; the
  page is freed when nobody can use it;
* processes: a zombie is reaped exactly once, by a parent that cannot sleep
  through it; nobody runs on two CPUs; everybody runs some time;
* buffer cache: one buffer per block, its holder alone changes it, every reader finds
  what was written last, every request is served;
* inodes: no inode is freed that a name or a pointer leads to, no block has two owners
  or none, and none of the consistency panics is reached;
* open files: a file is counted once per descriptor whatever fails;
* shell: a line means what its operators say, and the prompt comes back;
* user memory: no page is lost or shared, and `sz` tells which pages there are.

`PROJECT.json` lists every component, and under `hazards` what is hard to test.

## 2. Modules

| Module | Models | Used by |
|---|---|---|
| `Fit` | the meaning of a first-fit search: `ScanResult(free, len, n)` | `FirstFit`, `Shm`, `ShmRace` |
| `FirstFit` | the loop of `allocShmSeg` (`shm.c:88-115`), iteration by iteration; `shmatHelper` has the same loop | `ShmProofs` |
| `Shm` | the shared-memory calls, atomically, with fork, exec, exit, wait and memory | `MCShm`, `ShmProofs` |
| `ShmRace` | the same calls taken apart into what another CPU can see | `MCShmRace`, `ShmRaceProofs` |
| `AtomicDisk`, `Log` | the promise of the log, and `log.c` | `MCLog`, `LogProofs` |
| `Fifo`, `Pipe` | the promise of a pipe, and `pipe.c` with `sleep`, `wakeup`, `kill` | `MCPipe`, `PipeProofs` |
| `Proc` | `proc.c`: process table and scheduler on several CPUs | `MCProc`, `ProcProofs` |
| `BlockStore`, `Bio` | the promise of the buffer cache, and `bio.c` with `sleeplock.c` and `ide.c` | `MCBio`, `BioProofs` |
| `Fs` | `fs.c` and the file-system calls of `sysfile.c`, from the image `mkfs.c` makes | `MCFs`, `FsProofs` |
| `Vm` | `vm.c`, `kalloc.c`, `exec.c` and what `proc.c` does to memory | `MCVm`, `VmProofs` |
| `Parse` | the parser of `sh.c`, and a reference definition of what a line means | `Sh` |
| `Sh` | `sh.c` and `init.c` over the file table and the descriptors | `MCSh` |

Where one component relies on another, the promise of one module is the assumption of
the next: `Log` uses blocks as `BlockStore` promises them, `Fs` makes its calls inside
the transactions of `Log`, `Sh` reads and writes pipes that behave as `Fifo`, and each of
them sleeps and wakes as `Pipe` and `Proc` show that one can.

### Shm

State: `segs` and `last` are `shm_segs` and `lastShmSegIndex`, `att[p]` the
slots of process `p`, `pte[p]` its page-table entries in the shared region,
`pgtab[p]` the page-table pages `walkpgdir` allocated for them, `free` the frames
on the free list, `other` those used by the rest of the kernel, `info` the
counters `used_ids` and `shm_tot`, `lock` the holder of `shmpgtable.lock` and
`fault` the panic or trap that stopped the machine. `live` and `attaches` are
ghosts: the segments created and not removed, and what each process attached or
inherited. The code keeps both physical and kernel addresses in the same field and
converts with `V2P`; an address here is a frame and the bit `V2P` flips, so a
conversion applied once too often is visible.

There is one action per call and outcome: `ShmgetCreate`, `ShmgetNoMemory`
(`kalloc` fails after k pages), `Shmat` (with the explicit and the searched
address, `AttachFails` when `mappages` runs out of memory), `Shmdt`, `ShmctlSet`,
`ShmctlRmid`, `Removeshm`, `RemoveshmKey`, `Fork`, `Exec`, `Exit`, `Wait`,
`HolderPanics` (the process that left `allocshmuvm` with the lock held reaches
`sched`), and allocation and release by the rest of the kernel.
A call that returns an error without changing anything is a stuttering step.

Programs may pass any id, key, address and buffer. The code checks little of it: `removeshm`
refuses no id but `lastShmSegIndex + 1` (`shm.c:500`), so `RemoveIds` reaches beyond both ends
of the table. The first access outside a table sets `fault` to `"wild"`, which ends the
behaviour, since what lies there is not known. `Keeps` names the rules of a program that
uses shared memory as it is meant: ids name segments that exist and keys are not that of a
free entry; a process attaches a segment once, at an explicit address only with `SHM_RND`
and where the slots are free; it detaches where `shmat` put the segment; it gives `IPC_SET` the
size and the count that `IPC_STAT` reports. The ghost `strays` counts the calls that broke
one, and those that ran out of memory half way; `MaxStrays` bounds it. `TypeOK` and
`FrameOwnership` hold in every state, the other properties while `strays = 0`.

### ShmRace

`shmget` is split at the search, at each `mapShmSegPage`, and around the update
of the entry; `shmat` and `shmdt` at the lock, inside the read-modify-write of
`shm_nattch` and, in `shmdt`, between the store of the count and `clearmapping`; `removeshm` at
the test and at each freed page, where the frame goes to the free list before the entry
forgets it. `att` is what `shmsegs` says of a slot and `maps` what the page table says: `shmat`
sets both, `shmdt` clears the slot, then stores the count, then clears the mapping. When
`mappages` fails, `shmat` returns with the lock held (`AtFail`; the ghost `failed` has these
processes), and panics once it reaches `sched` (`HolderPanics`). `NattchExact` compares the counts
with `maps`. A program detaches at an address that `shmat` returned. `Private = TRUE` restricts
programs to segments of their own and one established segment nobody removes; it bars a
removal of what another process attaches, which the code does not survive (section 5).
With two creators segments overlap: that is the run `race_create`.

### Log and AtomicDisk

`home`, `logd`, `head` are the disk; everything else is lost in a crash.
`cache[b]` is what `bread(b)` returns; `Evict` is `bget` recycling an unpinned
buffer. Each `bwrite` of a commit (`WriteLog`, `WriteHead`, `InstallTrans`,
`ClearHead`) is a step and `Crash` may follow any of them, in recovery too. The
mapping to `AtomicDisk` is `durable <- Recovered` (what recovery would make of the
disk now) and `current <- cache`. `log_write` panics when the header has `LOGSIZE` or
`NLOG - 1` blocks (`HasEntry`, `log.c:218`), where `NLOG` is the length of the log on disk with its
header; `panicked` says so and stops all calls until a crash. `OpBlocks` is the number of blocks a
call writes at most.

### Pipe and Fifo

Both locks are in the model. `sleep` takes `ptable.lock`, releases the pipe's lock
(`Sleep`), marks itself sleeping and gives `ptable.lock` away (`Block`). Copying
bytes while the pipe's lock is held is one step: nobody else can look. The queue of
`Fifo` (`Queue`) is the part of the ring between `nread` and `nwrite`. A process has one end
of the pipe; a side is closed by the last of its processes.

### Proc

`state`, `parent`, `chan`, `killed`, `pid` are the fields of `ptable.proc[]`,
`nextpid` the counter, `cpu[c]` is `mycpu()->proc`, `at[c]` the loop variable of
the scheduler of `c` and `lock` the holder of `ptable.lock`. `pc[p]` says where in
the kernel `p` is, `np[p]` the entry its fork works on, and `switched[p]` that its
context is saved in `sched` (or, for a new process, made up by `allocproc`). `named`
is a ghost: the pids that `kill` or a trap named, and `struck` another: the entries that were
marked while no process was in them.

The lock is taken by one thread and released by another: `SwitchAway` leaves it with
the scheduler of the CPU, `SchedPick` goes on with it, and `Resume` (the end of
`yield`, `sleep` or `forkret`) or a return from `wait` releases it. A critical section
that does not switch is one step, since all others need the lock to see it; `fork`,
which works on its `EMBRYO` without the lock, is three. `TicksTest` and `TicksSleep`
are the sleep of `sys_sleep` under `tickslock`; it stands for every sleep on a
channel that an interrupt wakes. `Kill` takes any pid, 0 too, and marks the first entry that
has it, in any state, as `proc.c:509` does.

### Bio and BlockStore

`buf`, `lru`, `slock`, `idequeue` are the buffers, the list, the sleep locks and the
request queue; `drive` is the command the disk has. A step is a critical section of
`bcache.lock`, of a sleep lock or of `idelock`: `Bget` (`Hit`, `Recycle` of the `Victim`
nearest the end of the list, or `NoBuffers`, the panic), `AcquireSleep`, `Iderw` (queue, start the disk if it was idle, sleep), the
drive's own step `Drive`, `IdeIntr`, `IoTest` (the loop of `iderw`), `Bwrite`, `LogWrite`
(which pins the buffer with `B_DIRTY`), `ReleaseSleep` and `Brelse`. In `BlockStore` a
process gets a block that nobody has, changes it and gives it back; the mapping takes
the content of a block from its buffer if that is valid, from the disk otherwise.

### Fs

`dinode`, `used`, `dirent`, `ptr` are the disk; `inode` and `lock` the inode cache and its
sleep locks; `cwd`, `ofile` and `loc` what a process has. Every acquisition of an inode's
lock begins a step, so that another process can act between any two of them. `Call`
begins a call that takes a path, `Walk` is one round of `namex`, and each call goes on with
its own actions: `Open`; `CreateFound`, `CreateAlloc`, `CreateInit`, `Created`; `Link`,
`LinkExists`, `LinkBad`, `LinkEnter`; `UnlinkLookup`, `UnlinkErase`, `UnlinkBad`, `Unlinked`;
`Chdir`, `Close`, `Write`. `puts` is the list of pointers a process gives back before it goes
on; each goes through `PutTest` (test under the inode's lock), `PutFree` and `PutDrop`
(the decrement, in a critical section of its own). `Panics` gathers the panics.

Simplified: freeing an inode is one step, since the inode is locked and nobody else
has a pointer; a slot that nobody uses is shown empty; a directory has one block and a
process one descriptor. `Lookup` answers `.` and `..` as the directory's block has them, and
requests may contain `..`. The ghost `orphan` becomes true when a process looks `..` up in
a directory that has no name any more and whose `..` leads to an inode without links
(`Strays`): that inode may be free, or half made by another call (section 5). Three of the
properties say nothing from then on.

### Vm

`free` is the free list, `pgdir[p]` a page table by the frames it is made of, `new[p]` the
one under construction, `loc[p]` the locals of a call in progress. Between two calls of
`kalloc` others run: `KvmDir`, `KvmPt` (`setupkvm`), `Mem` and `Map` (the loop of `allocuvm`
and `copyuvm`, whose second allocation is a page-table page), `OutOfMemory`. `Load`,
`Loaded`, `Stack`, `Commit` and `ExecBad` are the stages of `exec`. The part above
`HEAPLIMIT` belongs to `Shm`.

### Parse and Sh

The operators of `Parse` have the names of the functions of `sh.c` and return the command
and the rest of the line. `LineMeans` is the reference: it looks for the first `;`, then for
`&`, then for the first `|` outside parentheses, and collects words and redirections.
The two are compared on every line of up to three tokens and the longer ones of `MCSh`.
`Parse` is recursive, so it and `Sh` have no proofs.

In `Sh` a process is the list of calls it will make: `runcmd` maps a command to them,
`Fork` hands a list to the child. `file`, `ofile`, `pipe` are the file table, the
descriptors and the pipes, as counters. `fileclose` is two steps, with the copy `ff` between
them. `SysPipe` has each way `pipealloc` and `sys_pipe` fail. Files are empty and the console
is at its end, so `cat` ends when no writer is left. `dups` stands for a program that uses up
descriptors and then calls `pipe`. The command tree is computed when the line is read.

## 3. Runs

| Run | Configuration and bounds | What it shows |
|---|---|---|
| `shm` | 3 processes, 4 frames, 2 entries, segments of 1 and 2 pages, explicit addresses, `IPC_SET`, ids from -1 to 2, one stray call | `TypeOK`, `FrameOwnership`: a frame never has two owners, even when programs pass wrong ids and addresses and memory runs out at every point. Before the first stray `SlotsMatchAttaches`, `MappedPagesOwned`, `NattchCovers`, `RemoveOnlyDetached` and `TableTiled` |
| `shm_race` | two processes attach and detach one segment of two pages, where any `mappages` may fail, a third creates and removes its own; 3 calls each | `NattchExact`, `LockReleased`: whoever takes the lock releases it, unless its `shmat` failed |
| `log` | 3 processes, 3 blocks, 2 values, 2 crashes; a log of 6 blocks, 3 reserved per call, of which a call writes 2 | `ImplementsAtomicDisk`, `DurableWhenIdle`, `NeverTooBig`, `NoLostWakeup` |
| `pipe` | 1 reader, 2 writers, ring of 2, counters modulo 4, calls of 1 and 3 bytes, kills of reader and one writer | `ImplementsFifo`, `NoLostWakeup`, `NoUseAfterFree`, `ReaderServed` |
| `proc` | 2 CPUs, 4 entries, 4 pids; the processes of one entry can be killed or trap, those of another call `sleep` | `OneCpu`, `WaitersInformed`, `ParentsAlive`, `KilledWasNamed`, `Scheduled` |
| `bio` | 2 processes, 3 blocks, 2 buffers, 2 values, one pinned block | `OneCopy`, `SleepersWaitForSomething`, `ImplementsBlockStore`, `Served` |
| `fs` | 2 processes, 4 inodes, 3 slots, 4 blocks (one direct, one indirect per file), names `a` and `b`, paths through `..`, 4 calls | `RefCounts`, `CacheCoherent`, and, unless `orphan`, `NamesCounted`, `BlocksOwned`, `FullOrOrphan` |
| `vm` | 3 processes, 16 frames, pages of 2 bytes, 2 pages per page-table page, 5 pages of heap, 4 calls, 5 images | `FramesConserved`, `SizesTrue` |
| `sh` | 6 processes, 5 files, 5 descriptors, 2 pipes of one byte; every line of up to 3 tokens and six longer ones | `FilesCounted`, `ParsedRight`, `PromptReturns` |
| `race_create`, `shm_map`, `fs_up` | see section 5 | the code departs from what its comments and assertions say |

Three more configurations are kept beside the runs, for instances that ask the same
questions at other bounds. `MCShmTable.cfg` has three entries and no strays, where a hole of
one entry is left before a live segment; `MCFsOrphan.cfg` has 7 calls of two processes and
reaches `orphan`; both pass. `MCLogFull.cfg` lets calls write all `MAXOPBLOCKS` blocks, and TLC
finds `NeverTooBig` violated (section 5).

Why the bounds are enough to matter: two-page segments in two or three entries
give a hole that is too small, a run that ends at the table's end and a
partial failure; two processes beside the shell for fork while attached and removal
by another; three file-system processes so that one is refused while two run (6 blocks less what two
calls reserve leave none for a third); two
crashes so that one falls into the recovery from the other; a ring of two with
writes of three so that a write has to sleep, and counters that wrap every second
round of the ring (the code's wrap after 2^32 bytes; `PipeAssumption` states what is
needed of the modulus: a multiple of the ring's size and larger than it).
Four entries and four pids let a process, its child and its grandchild exist beside
init, so that orphans pass to init as zombies or running, and let an entry be reused
after `wait`; two CPUs let one process return from `sched` while another is picked.
Three blocks compete for two buffers, so each read may recycle one that was just
released, and a pinned one leaves a single buffer (and the panic). Four calls by two
processes are enough to create, open, link, unlink and reuse an inode while the other
holds it (six and more are needed to remove a directory and its parent around a process,
which `fs_up` and `MCFsOrphan.cfg` allow); four blocks and three slots fill up. Sixteen frames hold init, two children and
most of an `exec`, so every allocation of the last call may be the one that fails. The longest
pipelines need more processes, files and descriptors than there are.

Constants `MaxCreates`, `MaxOther`, `MaxStrays`, `MaxCalls`, `MaxCrashes`, `MaxPid` bound the length of
histories, `MaxLines` and `MaxPinned` the lines typed and the blocks the log holds. `NattchBound` in `Shm` keeps `shm_nattch` out of the half of its range
where a wrapped and a large count could not be told apart. `CHECK_DEADLOCK FALSE`
is used where processes may have made their last call (`ShmRace`, `Fs`, `Vm`), where the
kernel may have panicked (`Bio`, `Fs`), where two calls may wait for each other (`Fs`, section
5) and where nobody has to type (`Sh`). Frames in `Shm`, processes in `Fs`, and processes
and blocks in `Log` are symmetric.

Fairness. `ShmRace` and `Pipe` assume weak fairness of each process
inside the kernel: kernel code that is not waiting continues, since the holder of a
spin lock runs with interrupts off and the scheduler of `proc.c` goes round all
runnable processes. `Proc` is
where that last claim is checked (`Scheduled`), from weak fairness of each CPU: a CPU
executes what it can, and interrupts a program that makes no call with the timer. `Bio`
adds that the drive executes its command and that its interrupt is taken; nothing is
assumed about when a process releases a buffer, so `Served` is about `iderw` only. `Sh`
assumes weak fairness of each process, not that anyone types. No
fairness is assumed of user programs or of who wins a lock. `ReaderServed` excepts behaviours in which a writer was killed (section 5).

## 4. Proofs

At its end `ShmProofs` proves of `FirstFit`, on variables of its own (`Loop`), for every table
and every request, `LoopCorrectHolds` (`Spec => []Correct`) from `LoopIInvHolds`. `Correct`
speaks of the last state only; the inductive invariant says that the current run is the maximal free run ending before
the loop's index, that it is too short, and that no fit ends before it.

`FirstFit` has no run: the theorem covers every table, and `Fit` is what `Shm` and `ShmRace`
use.

`ShmProofs` proves of `Shm`, for any number of processes, frames, entries and any
arguments of the calls:

* `TypeOKHolds` (`Spec => []TypeOK`), one lemma per action. The part that needs an
  argument is that every index a call computes stays in its table: the result of the
  search fits (`ScanResultFits`), attach slots hold valid ids, counts stay unsigned;
* `FrameOwnershipHolds` (`Spec => []FrameOwnership`). The conjuncts are inductive
  together with the typing: every action moves frames between the free list, the
  table, page tables and the rest of the kernel. `SegFramesDistinct` alone is not
  inductive, since a frame just allocated may be in the table unless `FreeVsOwned`
  holds as well. It covers every behaviour up to the first access outside the tables; what
  `removeshm` with a wild id frees is outside the model, and so outside the theorem.

`ProcProofs` proves of `Proc`, for any number of CPUs, entries and pids, `OneCpuHolds`,
`WaitersInformedHolds`, `ParentsAliveHolds` and `KilledWasNamedHolds`, all from
`IInvHolds` (`Spec => []IInv`, one lemma per action). `IInv` is the four properties,
`TypeOK` and what each needs to survive a step. `KilledWasNamed` says that a marked process was
named by its pid, or is in an entry that was struck while unused; `IInv` adds that only struck
entries carry a mark while they are unused.

* `ContextSaved`: what `SchedPick` runs has been switched away from, so that a process
  cannot come to a second CPU;
* `EmbryosOwned`: an entry under construction belongs to one `fork`, whose process is
  alive and, once set, its parent. It is the reason that the unlocked write of
  `parent` (`proc.c:200`) cannot hide a child from `exit`;
* `InitAlive`: init never exits and nobody is its own parent, so passing children to
  init gives them a living parent;
* `WaitChannel`: a process in `wait` sleeps where `exit` looks for it;
* `PidsDistinct`: pids name one entry, so that clearing one mark in `wait` clears no
  other.

`ShmProofs` further proves what the rules of `Keeps` buy, for calls at explicit addresses and
`IPC_SET` as well. Each property is about the states with `strays = 0`:

* `TableTiledHolds`. The invariant adds to `Tiled` that the first entry with a
  key is live, because `removeshm` by key removes the first one it finds.
  A `shmget` for which `kalloc` fails counts as a stray: the pages it has mapped stay in the
  table and belong to no segment;
* `SlotsMatchAttachesHolds`, `MappedPagesOwnedHolds`, `NattchCoversHolds` and the action
  property `RemovesOnlyDetached`. They follow from `AttachInv`: the slots of an attach are
  held by it alone and point to its segment, slots without an attach are idle, what is
  mapped is mapped from the page of the right entry, and a live segment is counted at least
  as often as it is attached. They have one hypothesis more, `[]CountsSmall`: no
  `shm_nattch` comes within `SHMMAXSEG` of the end of its range. Without it the code breaks
  them: `exit` never counts down, so enough forks wrap `shm_nattch` to zero with the segment
  attached.

What the rules leave out is where the code fails: a second attach of a segment, an explicit
address over slots in use (`shm.c:330` does not see all of them), an `IPC_SET` that stores
another count (`shm.c:426`), a `shmat` without memory for a page table.

`ShmRaceProofs` proves `RaceCountsExact` of `ShmRace` for any number of attaching processes,
entries, frames and calls, a `shmat` failing anywhere, with `Private = TRUE` and `OneCreator`:
concurrent creations and removals of what others use are not covered. The invariant
`RaceInvariant` says how far each process has come (`GetInv`, `RmInv`, `WorkInv`, `AtInv`,
`DtInv`), that outside the slots at work segments are attached whole or not at all
(`MapInv`: this is why the count of the first entry, which is all `removeshm` looks at,
speaks for all of them), and that a count differs from the number of mappings only
between the load and the store of the call that has the lock (`Counted`). The lock makes
the load still true at the store (`LockHeld`, `WorkInv`); a `shmat` that failed keeps it, so
that no call can follow.

`LogProofs` proves of `Log`, for any `LOGSIZE`, `MAXOPBLOCKS`, number of processes, blocks
and crashes, `LogNeverTooBig`, `LogNoLostWakeup`, `LogDurableWhenIdle` and the refinement
`LogImplementsAtomicDisk`. `LogNeverTooBig` assumes `OpBlocks < MAXOPBLOCKS`, that a call leaves
a block of its reservation unused, and is false without it. It is a counting argument
(`Reserved`): a call moves blocks from what it may write into the header one at a time, and
absorbed ones not at all, so the sum never grows after `begin_op` has tested it; since every
call under way leaves a block over, and so does one that is admitted beside it, the header
stays two blocks short of `LOGSIZE`. The refinement needs to know, for every step
of a commit and of a recovery, how the header in memory, the header on disk, the log
blocks and the home blocks are related, so that `Recovered` changes with the one write of the
header and with no other.

`BioProofs` proves of `Bio`, for any number of processes, blocks and buffers, `BioOneCopy`,
`BioSleepersWait` and the refinement `BioImplementsBlockStore`. The invariant ties each
reference count to the processes that have or want the buffer, each sleep lock to its
holder, each flag to the queue and the drive; a buffer that nobody has is clean, so
recycling it loses nothing.

`PipeProofs` proves of `Pipe`, for any ring size that divides the modulus of the counters and
any number of readers and writers, `PipeNoLostWakeup`, `PipeNoUseAfterFree` and the
refinement `PipeImplementsFifo`. For the wakeups the invariant says which lock a process
holds where, and that one on its way to sleep still has a lock that its waker needs.
For the refinement it bounds the bytes between `nread` and `nwrite` by the ring, and
lemmas about `%` show that storing at `nwrite % PIPESIZE` appends and that wrapping the
counters changes nothing.

`VmProofs` proves `VmFramesConserved` and `VmSizesTrue` of `Vm`, for any number of processes,
frames and calls, any page size, any images and every `int` that a program may pass to
`sbrk`. `VmInvariant` says that every frame has one owner (`Parted`: the free list, a table, a
kernel stack or the page in the hand of a call), that a table uses a frame once (`Neat`), and
that the pages of a table under construction are exactly those below the address the
loop of `allocuvm` or `copyuvm` has reached, which is less than a page above the size when
the loop ends (`CallInv`, `GrowInv`, `BuildInv`). The child of a `fork` is an embryo of one
parent (`ForkInv`, `OneParent`), so a failing `fork` gives back a stack that nobody else has.
A process that shrank to size 0 has lost its first page and makes no more calls (`UserInv`).

`FsProofs` proves all five invariants of `Fs`, for any number of processes, inodes, slots,
blocks and names, any image `mkfs` makes and any number of calls, in two layers.

The first, `FsCacheInvariant` (`CacheInv`), is about the inode cache and needs nothing of the
disk but its type. It says which pointers and locks a call has at each of its points
(`Shapes`, `Locked`), that a slot in use has a copy of its inode or none (`CacheOK`), and
that `ref` is the number of pointers (`Counted`). Counting is the work: an action moves
pointers between `cwd`, `ofile` and the locals of one process, so the sum over all others stays
(`ToSplit`). `FsRefCounts` and `FsCacheCoherent` follow. They hold for every path.

The second, `FsDiskInvariant` (`Spec => [](orphan \/ DiskInv)`), uses the first. It is about every
path, `..` included, and about the states before `orphan`; section 5 shows that the kernel can
panic afterwards. Its parts are

* `ProcsInv`: a pointer that a call will still follow leads to an allocated inode that no
  other call is about to initialise, the inode of a `create` is as `ialloc` left it until it is
  entered, an inode `iput` is about to free has no other pointer and no link, and the entry
  that `unlink` found, or that `create` did not find, is unchanged while the directory
  is locked;
* `LinksInv`: `nlink` is at least the number of names, of subdirectories and of calls in
  progress that have counted a name not yet entered (`link`) or not yet counted one that is
  erased (`unlink`), and one more for the root. `NamesCounted` by itself is not inductive:
  without the calls in progress, the decrement of `unlink` could take the count of a name, and
  without the subdirectories the last `rmdir` of a child could take that of its parent;
* `UpInv`: `..` of a directory that has a name leads to the directory the name is in, which
  has a link for it; so `..` can lead to an unlinked inode only from a directory without a
  name;
* `DirInv`, `NullInv`, `FilledInv` and `OneOwner`: every directory but a new one has a
  block, which names it by `.`, so two directories never share entries; a free inode has no
  blocks; blocks are filled in order, which is what makes `Size` the index that `bmap` uses
  next; and every block that is marked has one owner.

From these `FsNamesCounted`, `FsBlocksOwned` and `FsFullOrOrphan` follow: an inode that is
freed has no names (`LinksInv`), the blocks it gives back were marked (`OneOwner`),
and neither `ilock` nor `unlink` meets an inode that contradicts its panic (`ProcsInv`).

The assumptions are the named `ASSUME`s of the modules (positive sizes, finite sets
of frames, reserved names outside the sets they mark; in `Vm` a heap limit that is a
multiple of the page size and below half the range of an `unsigned`). TLC evaluates them in each run. Every
inductive invariant was checked with TLC on the instance of its run before it was proved.
The proofs of refinement cover initial states and steps, which is all that the abstract
specifications ask for: they state no fairness.

Only model-checked: `FilesCounted` and `ParsedRight` of `Sh` (whose parser is recursive) and
all liveness.
Liveness under fairness, `ENABLED` and induction over recursive definitions
are beyond the provers used here; no module with proofs declares a recursive operator.

## 5. Where the code departs from its comments

Three runs must find a violation and have an entry under `findings`:

* `race_create`: two `shmget` calls on two CPUs return overlapping segments, because search
  and update of `lastShmSegIndex` run without the lock that `shm.h:21` says protects the table.
* `shm_map`: `shm.c:137` stores `V2P(mem)` in `pa`, which `shm.h:16` calls the "Physical address of
  the page in shm segment"; `shm.c:164` applies `V2P` to it a second time, so `mappages` enters an
  address that is not the page. An address in `Shm` is a frame and the bit that `V2P` flips;
  `MappedPagesOwned` is about the frame, `MapsSegmentPage`, which is violated, about the
  address. In `ShmRace`, `maps` records only which segment a slot maps.
* `fs_up`: `unlink` of a directory takes the link that its `..` has on the parent (`sysfile.c:222`;
  at line 270 `create` counts it with the comment "for `..`"), though a process that is in the
  directory can still look `..` up. After `mkdir /a`, `mkdir /a/b`, `chdir /a/b`, `unlink /a/b`,
  `unlink /a` by one process the parent is freed, and `open("..")` panics in `ilock`
  (`fs.c:310`), or finds whatever file has the inode by then. `FullOrOrphan` shows that this is
  the only way to such a panic. It came up when the proof of the step of `namex` could not
  be finished.

The models also follow the code where these comments do not hold:

* `exit` does not count attaches down, though `shm.h:15` calls `shm_nattch` the "No. of
  current attaches"; the segment can never be removed afterwards.
* `removeshm` refuses no id but `lastShmSegIndex + 1` (`shm.c:500`): any other int is used
  as an index, and what lies there is freed when it looks like an entry nobody attached.
* `removeshm` takes no lock (`shm.c:510`): two removals can free the same pages, and a removal
  the pages that a `shmat` has begun to map. `ShmRace` has these interleavings with
  `Private = FALSE` and several `Removers`.
* `IPC_CREAT` with a size below that of the existing segment creates a second segment
  with the same key (`shm.c:242` says the existing one is returned).
* `begin_op` reserves against `LOGSIZE`, but `mkfs` makes a log of `LOGSIZE` blocks
  *including* the header, so `log_write` panics one block earlier (`log.c:218`). If all calls
  wrote the `MAXOPBLOCKS` blocks reserved for them, the last would panic: `MCLogFull.cfg` shows
  it. `filewrite` stays below (`file.c:133`), and `LogNeverTooBig` says that this is enough.
* `kill` looks at entries of any state (`proc.c:509`) and `allocproc` does not clear `killed`: so
  `kill(0)`, or the pid that a failed `fork` left behind in its entry, marks an unused
  entry, and the next process made there is born killed. A mark put on an `EMBRYO` by its
  own pid is kept too when its `fork` fails. `KilledWasNamed` sets aside these entries
  (`struck`) and no others.
* `allocshmuvm` returns with the lock held when `mappages` fails (`shm.c:167`); the process
  panics in `sched` and until then every other call spins. `LockReleased` excepts this return.
* `iput` looks at `ref` and drops its reference in two critical sections (`fs.c:337`,
  `fs.c:349`). Two processes that put the last two pointers to an inode without links can
  both see `ref = 2`; neither frees it, although `fs.c:119` says that `iput` "frees if the
  reference and link counts have fallen to zero". Its blocks stay marked until the image
  is rebuilt.
* `create` still has the new inode locked when `iunlockput(dp)` (`sysfile.c:280`) makes `iput`
  lock the directory a second time; `unlink` does the same at `sysfile.c:225`. An `unlink`
  of the same name that locked the directory in between and waits for the inode waits for
  ever, and so does `create`. `link(x, "d/.")` waits for itself: `dirlink` puts the directory
  it has locked. The run of `Fs` therefore does not
  check for deadlock.
* `growproc` takes a result of zero from `deallocuvm` for a failure, after the pages are gone
  (`proc.c:169`).
* when `fork` fails for init, init exits and the kernel panics (`init.c:27`).

Behaviour that is in the models as the code has it, without a run of its own:
fork counts attaches by runs of equal ids (`proc.c:223`), so two neighbouring attaches
of one segment count once; `used_ids` never decreases; a failed `shmget` leaves some
fields behind (`UnmappedSeg`); `SHM_RDONLY` is not enforced when the page is mapped;
the overlap check of `shmat` with an explicit address stops at `reqPages`
(`shm.c:330`), so `mappages` panics; a child inherits slots but no mappings, and its
`shmdt` panics in `clearmapping`; a writer killed
while the ring is full returns without waking readers of what it stored
(`pipe.c:86-89`), so a reader may sleep beside available bytes until the next write
or close; a kill that falls between the test of `killed` and the sleep leaves the
process asleep; a file created in an unlinked directory that is some process's current
directory cannot be reached afterwards; when the
drive reports an error the buffer is marked valid all the same (`ide.c:118`; the drive of
`Bio` does not fail); `mkfs` rounds the size of the root up to a whole block more.

Outside the models altogether: `clearmapping` clears `PTE_P` without reloading `cr3`
(`vm.c:322`), so a CPU may use the old translation until the next switch; `shmdt` accepts
`KERNBASE` itself and reads the slot past the end of `shmsegs` (`shm.c:356`).

## 6. Not modelled

* Console, spin locks: the input ring has the locking of a pipe; a spin lock is an atomic
  exchange and appears as the atomicity of critical sections, explicitly in `Proc`, `Pipe`
  and `ShmRace`.
* Boot, interrupt controllers and multiprocessor tables: device programming in sequence.
* System-call dispatch, argument fetching, library routines: sequential code on bytes.
* The other user programs and the tests: they are the nondeterministic callers.
* What happens in `Fs` after `orphan` is modelled as far as the code's tests go, but a
  directory entry made in a half-made directory is not followed to its block.
* Times and pids of segments, `IPC_STAT` and the info calls (they only read), contents
  of pages and of files, offsets, protection bits, the TLB, read errors of the disk.

## 7. Plan

Done: all components above; proofs about first fit, shared memory with atomic and with
interleaved calls, the process table, the log, the buffer cache, inodes and directories, user
memory and pipes.
Left, in order of value:

1. `Sh` without recursion, so that `FilesCounted` can be proved.
2. Read errors in `Bio`.
3. `Console`: the input ring with its three indices.
