-------------------------------- MODULE Shm --------------------------------
(***************************************************************************)
(* System V shared memory as shm.c implements it: the table shm_segs with  *)
(* one entry per page of every segment, the attach slots and page tables   *)
(* of the processes, and the physical frames behind both.  One action per  *)
(* system call; fork, exec, exit and wait are modelled as far as they      *)
(* touch this state (proc.c, exec.c, vm.c).                                *)
(*                                                                         *)
(* Each call is one atomic step here: module ShmRace takes the calls       *)
(* apart.  Times and pids are left out.  A segment's size is measured in   *)
(* units of which PGSIZE make a page.  A kernel panic, or a write outside  *)
(* the tables, ends the behaviour: `fault' says which.                     *)
(***************************************************************************)
EXTENDS Fit, FiniteSets, Functions

CONSTANTS
    Procs,      \* process table entries
    Root,       \* the shell: it starts programs (pid 2) and never exits
    NoProc,
    Frames,     \* physical pages
    NoFrame,
    Keys,       \* keys programs pass to shmget, or generate_random_key yields
    Sizes,      \* sizes programs pass to shmget
    SHMMAXSEG,  \* entries of shm_segs and attach slots of a process
    PGSIZE,     \* size units per page
    SHMMIN,     \* smallest segment size
    PTSPAN,     \* attach slots covered by one page-table page
    UINTMOD,    \* 2^32: shm_nattch is a uint
    MaxCreates, \* bound: segments created in a behaviour
    MaxOther,   \* bound: frames held by other parts of the kernel
    AtFlags,    \* flags programs pass to shmat
    AtSlots,    \* explicit addresses programs pass to shmat, as slot numbers
    SetBufs,    \* shmid_ds buffers programs pass to IPC_SET
    RemoveIds,  \* ids programs pass to removeshm
    MaxStrays   \* bound: calls that stray from the rules, see Keeps

ASSUME SizeAssumption ==
    /\ SHMMAXSEG \in Nat \ {0} /\ PGSIZE \in Nat \ {0} /\ SHMMIN \in Nat \ {0}
    /\ PTSPAN \in Nat \ {0} /\ UINTMOD \in Nat \ {0}
    /\ MaxCreates \in Nat /\ MaxOther \in Nat /\ MaxStrays \in Nat

ASSUME NameAssumption ==
    /\ Root \in Procs /\ NoProc \notin Procs
    /\ NoFrame \notin Frames /\ IsFiniteSet(Frames)

ASSUME InputAssumption ==
    /\ Keys \subseteq Int
    /\ Sizes \subseteq Nat
    /\ AtSlots \subseteq 0 .. SHMMAXSEG - 1
    /\ RemoveIds \subseteq Int
    /\ SetBufs \subseteq [key : Int, mode : SUBSET {"SHM_R", "SHM_W", "SHM_DEST"},
                           segsz : Nat, nattch : 0 .. UINTMOD - 1]

VARIABLES
    segs,       \* shmpgtable.shm_segs
    last,       \* shmpgtable.lastShmSegIndex
    lock,       \* holder of shmpgtable.lock between system calls
    info,       \* shm_info
    state,      \* proc.state
    att,        \* proc.shmsegs
    pte,        \* page-table entries of the shared-memory region
    pgtab,      \* page-table pages of the shared-memory region
    free,       \* frames on kmem.freelist
    other,      \* frames held by other parts of the kernel
    fault,      \* why the machine stopped
    live,       \* ghost: ids of the segments created and not freed
    attaches,   \* ghost: what each running process has attached
    strays      \* ghost: calls so far that broke a rule or found no memory

vars == <<segs, last, lock, info, state, att, pte, pgtab, free, other, fault,
          live, attaches, strays>>

----------------------------------------------------------------------------
(* Sizes, ids and addresses *)

Ids == 0 .. SHMMAXSEG - 1
Slots == Ids
Pts == 0 .. (SHMMAXSEG - 1) \div PTSPAN
PtOf(s) == s \div PTSPAN
MAXSEGSIZE == SHMMAXSEG * PGSIZE

PGROUNDUP(size) == ((size + PGSIZE - 1) \div PGSIZE) * PGSIZE
Pages(size) == size \div PGSIZE
Span(id, n) == id .. id + n - 1

FreeKey == -1   \* the key of an unused entry
NULL == -1      \* shmat without an address

\* shmat flags, numbered as in types.h
SHM_EXEC == 1
SHM_RDONLY == 2
SHM_REMAP == 3
SHM_RND == 4

(***************************************************************************)
(* An address of frame f: low (physical) or high (physical + KERNBASE).    *)
(* Subtracting KERNBASE modulo 2^32 flips between the two.                 *)
(***************************************************************************)
Addr == [f : Frames \cup {NoFrame}, hi : BOOLEAN]
PhysAddr == [f : Frames \cup {NoFrame}, hi : {FALSE}]
V2P(a) == [a EXCEPT !.hi = ~a.hi]
Mem(f) == [f |-> f, hi |-> TRUE]            \* what kalloc returns
NullPa == [f |-> NoFrame, hi |-> FALSE]

NoPte == [present |-> FALSE, pa |-> NullPa, w |-> FALSE]
NoAttach == [isAttached |-> FALSE, shmid |-> -1]

Faults == {"none", "remap", "clearmapping", "kfree", "trap", "sched", "acquire", "wild"}
ModeBits == {"SHM_R", "SHM_W", "SHM_DEST"}
UInt == 0 .. UINTMOD - 1

\* The entries of the static array before their first use.
InitSeg == [key |-> 0, mode |-> {}, segsz |-> 0, nattch |-> 0, pa |-> NullPa]

\* What freeshmPages leaves of an entry.
FreedSeg == [key |-> FreeKey, mode |-> {}, segsz |-> 0, nattch |-> 0, pa |-> NullPa]

Init ==
    /\ segs = [j \in Ids |-> InitSeg]
    /\ last = -1
    /\ lock = NoProc
    /\ info = [used_ids |-> 0, shm_tot |-> 0]
    /\ state = [p \in Procs |-> IF p = Root THEN "running" ELSE "unused"]
    /\ att = [p \in Procs |-> [s \in Slots |-> NoAttach]]
    /\ pte = [p \in Procs |-> [s \in Slots |-> NoPte]]
    /\ pgtab = [p \in Procs |-> [t \in Pts |-> NoFrame]]
    /\ free = Frames
    /\ other = {}
    /\ fault = "none"
    /\ live = {}
    /\ attaches = [p \in Procs |-> {}]
    /\ strays = 0

\* A process that can make system calls; no shell call touches shared memory.
Runs(p) == p # Root /\ state[p] = "running" /\ fault = "none"

\* Every acquire(&shmpgtable.lock): others spin while the lock is held.
CanLock == lock = NoProc

(***************************************************************************)
(* shm_nattch only moves away from half its range, so that the bounded     *)
(* counter shows both small counts and the wrapped ones below zero.        *)
(***************************************************************************)
NattchBound == \A j \in Ids : segs'[j].nattch # UINTMOD \div 2 \/ UINTMOD < 3

Panic(reason) ==
    /\ fault' = reason
    /\ UNCHANGED <<segs, last, lock, info, state, att, pte, pgtab, free, other,
                   live, attaches>>

----------------------------------------------------------------------------
(* What programs should ask for *)

(***************************************************************************)
(* The rules of a program that uses shared memory as it is meant:          *)
(*   - no key is that of an unused entry, and ids name segments that exist;*)
(*   - it attaches no segment it has attached, at an explicit address only *)
(*     with SHM_RND and where all the slots it needs are free;             *)
(*   - it detaches only at addresses shmat returned to it;                 *)
(*   - it gives IPC_SET the size and the count IPC_STAT reports.           *)
(* A call that breaks one, and one that finds no memory, is a stray.  The  *)
(* code does not check the rules, and any program may stray.               *)
(***************************************************************************)
Keeps(rule) ==
    /\ rule \/ strays < MaxStrays
    /\ strays' = IF rule THEN strays ELSE strays + 1

MayAttach(p, id, addr, n, flag) ==
    /\ id \in live
    /\ \A a \in attaches[p] : a.shmid # id
    /\ addr # NULL => /\ flag = SHM_RND /\ addr + n <= SHMMAXSEG
                      /\ \A u \in Span(addr, n) : ~att[p][u].isAttached
MayDetach(p, s) == \E a \in attaches[p] : a.slot = s
MaySet(id, buf) ==
    /\ id \in live /\ buf.key # FreeKey
    /\ buf.segsz = segs[id].segsz /\ buf.nattch = segs[id].nattch

----------------------------------------------------------------------------
(* shmget *)

HasKey(key) == \E j \in 0 .. last : segs[j].key = key
FirstWithKey(key) ==
    CHOOSE j \in 0 .. last :
        segs[j].key = key /\ \A k \in 0 .. j - 1 : segs[k].key # key

\* Where allocShmSeg puts n pages: the first fit, else after the last entry.
FitIndex(n) == ScanResult([j \in Ids |-> segs[j].key = FreeKey], last + 1, n)
Appends(n) == FitIndex(n) = -1
\* Mutant for TableTiled: the new segment starts at the last entry in use.
SegIndex_OnLast(n) ==
    IF Appends(n) THEN (IF last = -1 THEN 0 ELSE last) ELSE FitIndex(n)
SegIndex(n) == IF Appends(n) THEN last + 1 ELSE FitIndex(n)

\* The checks of allocShmSeg.
AllocStatus(size) ==
    IF size < SHMMIN \/ size > MAXSEGSIZE THEN "EINVAL"
    ELSE LET n == Pages(PGROUNDUP(size))
         IN  IF SegIndex(n) + n > SHMMAXSEG THEN "ENOSPC" ELSE "alloc"

(***************************************************************************)
(* What shmgetHelper decides: the id of an existing segment, an error, or  *)
(* "alloc".  The flags are compared as a whole, so any other combination   *)
(* than these two only looks the key up.                                   *)
(***************************************************************************)
ShmgetDecision(key, size, flag) ==
    LET existing == [status |-> "found", id |-> FirstWithKey(key)]
        only(s)  == [status |-> s, id |-> -1]
    IN  CASE flag = "IPC_CREAT|IPC_EXCL" ->
                 IF HasKey(key) THEN only("EEXIST") ELSE only(AllocStatus(size))
          [] flag = "IPC_CREAT" ->
                 IF HasKey(key) /\ segs[FirstWithKey(key)].segsz <= size
                 THEN existing ELSE only(AllocStatus(size))
          [] OTHER ->
                 IF HasKey(key) THEN existing ELSE only("ENOENT")

\* mapShmSegPage for the pages 0..k-1 of a segment, page i in frame g[i].
WithPages(base, k, g, key, size) ==
    [j \in Ids |->
        IF j \in Span(base, k)
        THEN [key |-> key, mode |-> {}, segsz |-> PGROUNDUP(size), nattch |-> 0,
              pa |-> V2P(Mem(g[j - base]))]
        ELSE segs[j]]

\* allocShmSeg with a free frame for every page.
ShmgetCreate(p, key, size, flag) ==
    /\ Runs(p) /\ CanLock
    /\ info.used_ids < MaxCreates
    /\ ShmgetDecision(key, size, flag).status = "alloc"
    /\ Keeps(key # FreeKey)
    /\ LET n == Pages(PGROUNDUP(size))
           base == SegIndex(n)
       IN  /\ \E g \in Injection(0 .. n - 1, free) :
                  /\ segs' = WithPages(base, n, g, key, size)
                  /\ free' = free \ Range(g)
           /\ last' = IF Appends(n) THEN last + n ELSE last
           /\ info' = [used_ids |-> info.used_ids + 1, shm_tot |-> last' + 1]
           /\ live' = live \cup {base}
    /\ UNCHANGED <<lock, state, att, pte, pgtab, other, fault, attaches>>

\* What unmapShmSegPage leaves of an entry it visits.
UnmappedSeg(seg) == [seg EXCEPT !.pa = NullPa, !.key = FreeKey, !.segsz = 0, !.mode = {}]

(***************************************************************************)
(* allocShmSeg when kalloc fails after k pages.  unmapShmSegPage walks     *)
(* down from entry k to lastShmSegIndex; when k is below it, the unsigned  *)
(* index runs below zero and over memory in front of the table.            *)
(***************************************************************************)
ShmgetNoMemory(p, key, size, flag) ==
    /\ Runs(p) /\ CanLock
    /\ ShmgetDecision(key, size, flag).status = "alloc"
    /\ Keeps(FALSE)
    /\ LET n == Pages(PGROUNDUP(size))
           base == SegIndex(n)
           k == Cardinality(free)
           newlast == IF Appends(n) THEN last + k ELSE last
       IN  /\ k < n
           /\ IF k < newlast THEN Panic("wild")
              ELSE /\ \E g \in Injection(0 .. k - 1, free) :
                          LET mapped == WithPages(base, k, g, key, size)
                          IN  segs' = [j \in Ids |->
                                  IF j \in newlast + 1 .. k THEN UnmappedSeg(mapped[j])
                                  ELSE mapped[j]]
                   /\ free' = {}
                   /\ last' = newlast
                   /\ UNCHANGED <<lock, info, state, att, pte, pgtab, other, fault,
                                  live, attaches>>

----------------------------------------------------------------------------
(* shmat *)

\* The slot shmatHelper picks when no address is given, or -1.
FreeSlot(p, n) == ScanResult([s \in Slots |-> ~att[p][s].isAttached], SHMMAXSEG, n)

\* Page-table pages still missing for the n slots from s, in slot order.
MissingPts(p, s, n) ==
    {t \in Pts : pgtab[p][t] = NoFrame /\ \E u \in Span(s, n) : u \in Slots /\ PtOf(u) = t}

\* kalloc has no frame left for the page-table page of slot u.
OutOfMemory(p, s, n, u) ==
    /\ PtOf(u) \in MissingPts(p, s, n)
    /\ Cardinality({t \in MissingPts(p, s, n) : t < PtOf(u)}) >= Cardinality(free)

(***************************************************************************)
(* What goes wrong in the i-th iteration of allocshmuvm: a mapping in the  *)
(* way (above the region that of the kernel), no memory for a page table,  *)
(* or an id that runs over the end of shm_segs.  When mappages fails after *)
(* the first page, deallocuvm passes kfree an address it refuses.          *)
(***************************************************************************)
MapStatus(p, id, s, n, i) ==
    IF s + i >= SHMMAXSEG THEN "remap"
    ELSE IF OutOfMemory(p, s, n, s + i) THEN IF i = 0 THEN "ENOMEM" ELSE "kfree"
    ELSE IF pte[p][s + i].present THEN "remap"
    ELSE IF id + i >= SHMMAXSEG THEN "wild"
    ELSE "ok"

AttachStatus(p, id, s, n) ==
    LET bad == {i \in 0 .. n - 1 : MapStatus(p, id, s, n, i) # "ok"}
    IN  IF bad = {} THEN "ok"
        ELSE MapStatus(p, id, s, n, CHOOSE i \in bad : \A j \in bad : i <= j)

\* Mutant for RemoveOnlyDetached: the first page, whose count removeshm
\* reads, is not counted.
Attached_SkipsFirst(id, n) ==
    [j \in Ids |->
        IF j \in Span(id + 1, n - 1)
        THEN [segs[j] EXCEPT !.nattch = (@ + 1) % UINTMOD] ELSE segs[j]]

\* shm_segs after every page of an attach was counted.
Attached(id, n) ==
    [j \in Ids |->
        IF j \in Span(id, n)
        THEN [segs[j] EXCEPT !.nattch = (@ + 1) % UINTMOD] ELSE segs[j]]

\* The page table after the n pages of segment id were mapped from slot s
\* on; writable when shmflag & 02.
MappedPtes(p, id, s, n, flag) ==
    [u \in Slots |->
        IF u \in Span(s, n)
        THEN [present |-> TRUE, pa |-> V2P(segs[id + (u - s)].pa),
              w |-> flag \in {SHM_RDONLY, SHM_REMAP}]
        ELSE pte[p][u]]

\* allocshmuvm when every page is mapped.
AttachPages(p, id, s, n, flag) ==
    /\ att' = [att EXCEPT ![p] = [u \in Slots |->
                  IF u \in Span(s, n) THEN [isAttached |-> TRUE, shmid |-> id]
                  ELSE att[p][u]]]
    /\ pte' = [pte EXCEPT ![p] = MappedPtes(p, id, s, n, flag)]
    /\ segs' = Attached(id, n)
    /\ NattchBound
    /\ \E g \in Injection(MissingPts(p, s, n), free) :
          /\ pgtab' = [pgtab EXCEPT ![p] = [t \in Pts |->
                          IF t \in MissingPts(p, s, n) THEN g[t] ELSE pgtab[p][t]]]
          /\ free' = free \ Range(g)
    /\ attaches' = [attaches EXCEPT
                      ![p] = @ \cup {[slot |-> s, shmid |-> id]}]
    /\ UNCHANGED <<last, lock, info, state, other, fault, live>>

(***************************************************************************)
(* The first mappages fails: the slot is marked, the call returns ENOMEM,  *)
(* and shmpgtable.lock is not released.                                    *)
(***************************************************************************)
AttachFails(p, id, s) ==
    /\ att' = [att EXCEPT ![p][s] = [isAttached |-> TRUE, shmid |-> id]]
    /\ lock' = p
    /\ UNCHANGED <<segs, last, info, state, pte, pgtab, free, other, fault, live,
                   attaches>>

(***************************************************************************)
(* shmatHelper and allocshmuvm.  With SHM_RND the overlap check runs over  *)
(* the slots addr..n-1 only.  With another flag an aligned address leaves  *)
(* va at 0 and the check reads far below the process: a kernel page fault. *)
(***************************************************************************)
Shmat(p, id, addr, flag) ==
    /\ Runs(p)
    /\ id \in 0 .. last
    /\ segs[id].segsz # 0
    /\ LET n == Pages(segs[id].segsz)
           s == IF addr = NULL THEN FreeSlot(p, n) ELSE addr
       IN  /\ Keeps(/\ MayAttach(p, id, addr, n, flag)
                    /\ Cardinality(MissingPts(p, s, n)) <= Cardinality(free))
           /\ IF addr # NULL /\ flag # SHM_RND THEN Panic("trap")
              ELSE /\ CanLock
                   /\ IF addr = NULL THEN s # -1
                      ELSE \A u \in addr .. n - 1 : ~att[p][u].isAttached
                   /\ CASE AttachStatus(p, id, s, n) = "ok" ->
                              AttachPages(p, id, s, n, flag)
                        [] AttachStatus(p, id, s, n) = "ENOMEM" -> AttachFails(p, id, s)
                        [] OTHER -> Panic(AttachStatus(p, id, s, n))

----------------------------------------------------------------------------
(* shmdt *)

\* What goes wrong in the i-th iteration of shmdtHelper.
UnmapStatus(p, id, s, i) ==
    IF s + i >= SHMMAXSEG \/ id + i >= SHMMAXSEG THEN "wild"
    ELSE IF pgtab[p][PtOf(s + i)] = NoFrame THEN "clearmapping"
    ELSE "ok"

DetachStatus(p, id, s, n) ==
    LET bad == {i \in 0 .. n - 1 : UnmapStatus(p, id, s, i) # "ok"}
    IN  IF bad = {} THEN "ok"
        ELSE UnmapStatus(p, id, s, CHOOSE i \in bad : \A j \in bad : i <= j)

\* Mutant for SlotsMatchAttaches: only the first slot is released.
ReleasedSlots_One(p, s, n) == [att[p] EXCEPT ![s] = NoAttach]

\* The slots after the first are released but keep their shmid.
ReleasedSlots(p, s, n) ==
    [u \in Slots |->
        IF u = s THEN NoAttach
        ELSE IF u \in Span(s, n) THEN [att[p][u] EXCEPT !.isAttached = FALSE]
        ELSE att[p][u]]

\* Mutant for TypeOK: the count is not kept modulo 2^32.
Detached_NoWrap(id, n) ==
    [j \in Ids |->
        [segs[j] EXCEPT
            !.nattch = IF j \in Span(id, n) THEN @ - 1 ELSE @,
            !.mode = IF j = id THEN @ \cup {"SHM_DEST"} ELSE @]]

\* shm_segs after a detach: every page counted down, the first one marked.
Detached(id, n) ==
    [j \in Ids |->
        [segs[j] EXCEPT
            !.nattch = IF j \in Span(id, n) THEN (@ + UINTMOD - 1) % UINTMOD ELSE @,
            !.mode = IF j = id THEN @ \cup {"SHM_DEST"} ELSE @]]

DetachPages(p, id, s, n) ==
    /\ att' = [att EXCEPT ![p] = ReleasedSlots(p, s, n)]
    /\ pte' = [pte EXCEPT ![p] = [u \in Slots |->
                  IF u \in Span(s, n) THEN NoPte ELSE pte[p][u]]]
    /\ segs' = Detached(id, n)
    /\ NattchBound
    /\ attaches' = [attaches EXCEPT ![p] = {a \in @ : a.slot # s}]
    /\ UNCHANGED <<last, lock, info, state, pgtab, free, other, fault, live>>

Shmdt(p, s) ==
    /\ Runs(p) /\ CanLock
    /\ att[p][s].isAttached
    /\ Keeps(MayDetach(p, s))
    /\ LET id == att[p][s].shmid
           n == Pages(segs[id].segsz)
       IN  IF DetachStatus(p, id, s, n) = "ok" THEN DetachPages(p, id, s, n)
           ELSE Panic(DetachStatus(p, id, s, n))

----------------------------------------------------------------------------
(* shmctl and removeshm *)

\* shmctlHelper accepts the id.
ValidId(id) == id \in 0 .. last /\ segs[id].key # FreeKey

\* IPC_SET copies the caller's buffer over as many entries as it says.
ShmctlSet(p, id, buf) ==
    /\ Runs(p) /\ CanLock
    /\ ValidId(id)
    /\ "SHM_R" \notin segs[id].mode
    /\ Keeps(MaySet(id, buf))
    /\ LET n == Pages(buf.segsz)
       IN  IF id + n > SHMMAXSEG THEN Panic("wild")
           ELSE /\ segs' = [j \in Ids |->
                       IF j \in Span(id, n)
                       THEN [segs[j] EXCEPT !.key = buf.key, !.mode = buf.mode,
                                            !.segsz = buf.segsz, !.nattch = buf.nattch]
                       ELSE segs[j]]
                /\ UNCHANGED <<last, lock, info, state, att, pte, pgtab, free, other,
                               fault, live, attaches>>

\* IPC_RMID only marks the entries.
ShmctlRmid(p, id) ==
    /\ Runs(p)
    /\ ValidId(id)
    /\ Keeps(id \in live)
    /\ LET n == Pages(segs[id].segsz)
       IN  IF id + n > SHMMAXSEG THEN Panic("wild")
           ELSE /\ segs' = [j \in Ids |->
                       IF j \in Span(id, n)
                       THEN [segs[j] EXCEPT !.mode = @ \cup {"SHM_DEST"}] ELSE segs[j]]
                /\ UNCHANGED <<last, lock, info, state, att, pte, pgtab, free, other,
                               fault, live, attaches>>

\* Mutant for FrameOwnership: the entry keeps the address of the freed page.
Freed_KeepsPa(id, n) ==
    [j \in Ids |-> IF j \in Span(id, n) THEN [FreedSeg EXCEPT !.pa = segs[j].pa]
                   ELSE segs[j]]

Freed(id, n) == [j \in Ids |-> IF j \in Span(id, n) THEN FreedSeg ELSE segs[j]]

\* freeshmPages; kfree refuses the address of an entry without a page.
FreeshmPages(id, n) ==
    IF \E j \in Span(id, n) : segs[j].pa = NullPa THEN Panic("kfree")
    ELSE /\ segs' = Freed(id, n)
         /\ free' = free \cup {V2P(segs[j].pa).f : j \in Span(id, n)}
         /\ live' = live \ {id}
         /\ UNCHANGED <<last, lock, info, state, att, pte, pgtab, other, fault, attaches>>

\* Mutant for MappedPagesOwned: shm_nattch is not tested before freeing.
RemoveId_AnyCount(id) ==
    LET n == Pages(segs[id].segsz)
    IN  IF id + n > SHMMAXSEG THEN Panic("wild") ELSE FreeshmPages(id, n)

\* removeshmHelper once it has the id: mark, then free what nobody attaches.
RemoveId(id) ==
    LET n == Pages(segs[id].segsz)
    IN  IF id + n > SHMMAXSEG THEN Panic("wild")
        ELSE IF segs[id].nattch = 0 /\ (n > 0 \/ "SHM_DEST" \in segs[id].mode)
        THEN FreeshmPages(id, n)
        ELSE /\ segs' = [j \in Ids |->
                    IF j \in Span(id, n) THEN [segs[j] EXCEPT !.mode = {"SHM_DEST"}]
                    ELSE segs[j]]
             /\ UNCHANGED <<last, lock, info, state, att, pte, pgtab, free, other, fault,
                            live, attaches>>

\* flag 0: the only ids refused are lastShmSegIndex + 1 and, while no
\* segment was ever created, all of them.  Others are used as they come.
Removeshm(p, id) ==
    /\ Runs(p)
    /\ last # -1 /\ id # last + 1
    /\ Keeps(id \in live)
    /\ IF id \in Ids THEN RemoveId(id) ELSE Panic("wild")

\* flag 1: the first entry with the key.
RemoveshmKey(p, key) ==
    /\ Runs(p)
    /\ HasKey(key)
    /\ Keeps(key # FreeKey)
    /\ RemoveId(FirstWithKey(key))

----------------------------------------------------------------------------
(* fork, exec, exit, wait *)

(***************************************************************************)
(* The slots at which the loops of fork and exec see a new shmid, among    *)
(* the slots in S: last_shmid is the one of the nearest slot of S below.   *)
(***************************************************************************)
RunStarts(p, S) ==
    {u \in S : \A v \in S : v < u /\ att[p][v].shmid = att[p][u].shmid
                            => \E w \in S : v < w /\ w < u
                                            /\ att[p][w].shmid # att[p][u].shmid}

\* The entries updateShmSeg touches for the segment in slot u.
TouchedBy(p, u) == Span(att[p][u].shmid, Pages(segs[att[p][u].shmid].segsz))

\* Mutant for NattchCovers: only a single-page segment is counted for.
Touches_OnePage(p, S, j) ==
    Cardinality({u \in RunStarts(p, S) : TouchedBy(p, u) = {j}})

\* How many of the runs touch entry j.
Touches(p, S, j) == Cardinality({u \in RunStarts(p, S) : j \in TouchedBy(p, u)})

OverrunsTable(p, S) ==
    \E u \in RunStarts(p, S) : ~(TouchedBy(p, u) \subseteq Ids)

\* fork copies and counts every slot with a shmid, attached or not.
SlotsForked(p) == {u \in Slots : att[p][u].shmid # -1}
SlotsAttached(p) == {u \in Slots : att[p][u].isAttached}

(***************************************************************************)
(* fork.  The child's page table is copied below HEAPLIMIT only: it does   *)
(* not map the segments.  A child of the shell starts without attaches.    *)
(***************************************************************************)
Fork(p, c) ==
    /\ state[p] = "running" /\ fault = "none" /\ lock # p
    /\ state[c] = "unused"
    /\ UNCHANGED strays
    /\ LET S == IF p = Root THEN {} ELSE SlotsForked(p)
       IN  /\ S # {} => CanLock
           /\ IF OverrunsTable(p, S) THEN Panic("wild")
              ELSE /\ att' = [att EXCEPT ![c] = IF p = Root THEN [u \in Slots |-> NoAttach]
                                                ELSE att[p]]
                   /\ segs' = [j \in Ids |->
                          [segs[j] EXCEPT !.nattch = (@ + Touches(p, S, j)) % UINTMOD]]
                   /\ NattchBound
                   /\ state' = [state EXCEPT ![c] = "running"]
                   /\ attaches' = [attaches EXCEPT ![c] = attaches[p]]
                   /\ UNCHANGED <<last, lock, info, pte, pgtab, free, other, fault, live>>

PtFrames(p) == {pgtab[p][t] : t \in Pts} \ {NoFrame}

\* freevm returns the page-table pages, not what they map above HEAPLIMIT.
FreeVm(p) ==
    /\ pte' = [pte EXCEPT ![p] = [u \in Slots |-> NoPte]]
    /\ pgtab' = [pgtab EXCEPT ![p] = [t \in Pts |-> NoFrame]]
    /\ free' = free \cup PtFrames(p)

\* exec, from the commit on: detach everything, then drop the old image.
Exec(p) ==
    /\ Runs(p) /\ lock # p
    /\ UNCHANGED strays
    /\ LET S == SlotsAttached(p)
       IN  /\ S # {} => CanLock
           /\ IF OverrunsTable(p, S) THEN Panic("wild")
              ELSE /\ segs' = [j \in Ids |->
                          [segs[j] EXCEPT !.nattch =
                              (@ + UINTMOD * Touches(p, S, j) - Touches(p, S, j)) % UINTMOD]]
                   /\ NattchBound
                   /\ att' = [att EXCEPT ![p] = [u \in Slots |->
                                 IF u \in S THEN NoAttach ELSE att[p][u]]]
                   /\ FreeVm(p)
                   /\ attaches' = [attaches EXCEPT ![p] = {}]
                   /\ UNCHANGED <<last, lock, info, state, other, fault, live>>

\* exit leaves the slots, the counts and the page tables alone.
Exit(p) ==
    /\ Runs(p) /\ lock # p
    /\ state' = [state EXCEPT ![p] = "zombie"]
    /\ attaches' = [attaches EXCEPT ![p] = {}]
    /\ UNCHANGED <<segs, last, lock, info, att, pte, pgtab, free, other, fault, live,
                   strays>>

\* wait in the parent frees the zombie's image.
Wait(p) ==
    /\ state[p] = "zombie" /\ fault = "none"
    /\ state' = [state EXCEPT ![p] = "unused"]
    /\ FreeVm(p)
    /\ UNCHANGED <<segs, last, lock, info, att, other, fault, live, attaches, strays>>

----------------------------------------------------------------------------
(* The rest of the kernel *)

(***************************************************************************)
(* A process that came back from shmat with the lock: its next switch      *)
(* panics in sched, its next acquire in acquire.                           *)
(***************************************************************************)
HolderPanics(p) ==
    /\ lock = p /\ fault = "none"
    /\ UNCHANGED strays
    /\ \E reason \in {"sched", "acquire"} : Panic(reason)

KallocOther ==
    /\ fault = "none"
    /\ \E f \in free :
          /\ Cardinality(other) < MaxOther
          /\ free' = free \ {f}
          /\ other' = other \cup {f}
    /\ UNCHANGED <<segs, last, lock, info, state, att, pte, pgtab, fault, live, attaches,
                   strays>>

KfreeOther ==
    /\ fault = "none"
    /\ \E f \in other :
          /\ free' = free \cup {f}
          /\ other' = other \ {f}
    /\ UNCHANGED <<segs, last, lock, info, state, att, pte, pgtab, fault, live, attaches,
                   strays>>

\* A panicked machine stays as it is.
Halted == fault # "none" /\ UNCHANGED vars

GetFlags == {"IPC_CREAT|IPC_EXCL", "IPC_CREAT"}

Next ==
    \/ \E p \in Procs, key \in Keys, size \in Sizes, flag \in GetFlags :
          \/ ShmgetCreate(p, key, size, flag)
          \/ ShmgetNoMemory(p, key, size, flag)
    \/ \E p \in Procs, id \in Ids, addr \in AtSlots \cup {NULL}, flag \in AtFlags :
          Shmat(p, id, addr, flag)
    \/ \E p \in Procs, s \in Slots : Shmdt(p, s)
    \/ \E p \in Procs, id \in Ids, buf \in SetBufs : ShmctlSet(p, id, buf)
    \/ \E p \in Procs, id \in Ids : ShmctlRmid(p, id)
    \/ \E p \in Procs, id \in RemoveIds : Removeshm(p, id)
    \/ \E p \in Procs, key \in Keys : RemoveshmKey(p, key)
    \/ \E p, c \in Procs : Fork(p, c)
    \/ \E p \in Procs : Exec(p) \/ Exit(p) \/ Wait(p) \/ HolderPanics(p)
    \/ KallocOther \/ KfreeOther
    \/ Halted

Spec == Init /\ [][Next]_vars

----------------------------------------------------------------------------
(* Properties *)

Seg == [key : Int, mode : SUBSET ModeBits, segsz : Nat, nattch : UInt, pa : PhysAddr]
SlotRec == [isAttached : BOOLEAN, shmid : -1 .. SHMMAXSEG - 1]
PteRec == [present : BOOLEAN, pa : Addr, w : BOOLEAN]
AttachRec == [slot : Slots, shmid : Ids]

\* The types of the kernel's state.
StateOK ==
    /\ segs \in [Ids -> Seg]
    /\ last \in -1 .. SHMMAXSEG - 1
    /\ lock \in Procs \cup {NoProc}
    /\ info \in [used_ids : 0 .. MaxCreates, shm_tot : 0 .. SHMMAXSEG]
    /\ state \in [Procs -> {"unused", "running", "zombie"}]
    /\ att \in [Procs -> [Slots -> SlotRec]]
    /\ pte \in [Procs -> [Slots -> PteRec]]
    /\ pgtab \in [Procs -> [Pts -> Frames \cup {NoFrame}]]
    /\ free \in SUBSET Frames
    /\ other \in SUBSET Frames
    /\ fault \in Faults
    /\ live \in SUBSET Ids
    /\ attaches \in [Procs -> SUBSET AttachRec]
    /\ \A p \in Procs, u \in Slots : att[p][u].isAttached => att[p][u].shmid # -1

TypeOK == StateOK /\ strays \in 0 .. MaxStrays

(***************************************************************************)
(* No frame has two owners: an entry of shm_segs, a page-table page, the   *)
(* free list and the rest of the kernel never share one, whatever keys,    *)
(* ids, addresses and buffers programs pass and whenever memory runs out   *)
(* (kfree at shm.c:480, kalloc at shm.c:129 and in walkpgdir), up to the   *)
(* first access outside the tables, which ends the behaviour with fault    *)
(* "wild": removeshm with an id that is no entry (shm.c:500-511) is one.   *)
(***************************************************************************)
SegFramesDistinct ==
    \A j, k \in Ids : segs[j].pa.f = segs[k].pa.f /\ segs[j].pa.f # NoFrame => j = k
PtFramesDistinct ==
    \A p, q \in Procs, t, u \in Pts :
        pgtab[p][t] = pgtab[q][u] /\ pgtab[p][t] # NoFrame => p = q /\ t = u
SegVsPt ==
    \A j \in Ids, p \in Procs, t \in Pts :
        segs[j].pa.f = pgtab[p][t] => pgtab[p][t] = NoFrame
FreeVsOwned ==
    /\ \A j \in Ids : segs[j].pa.f \notin free \cup other
    /\ \A p \in Procs, t \in Pts : pgtab[p][t] \notin free \cup other
    /\ free \cap other = {}

FrameOwnership ==
    SegFramesDistinct /\ PtFramesDistinct /\ SegVsPt /\ FreeVsOwned

----------------------------------------------------------------------------
(* What holds as long as no program strayed. *)

PagesOf(id) == Pages(segs[id].segsz)

(***************************************************************************)
(* The segments created and not removed tile the table: each owns the      *)
(* entries from its id on, with one key, one size and a page in each, no   *)
(* two overlap, and every other entry up to lastShmSegIndex is free for    *)
(* allocShmSeg to reuse.                                                   *)
(***************************************************************************)
Tiled ==
    /\ \A b \in live : PagesOf(b) > 0 /\ Span(b, PagesOf(b)) \subseteq 0 .. last
    /\ \A b, c \in live : b < c => b + PagesOf(b) <= c
    /\ \A b \in live : \A j \in Span(b, PagesOf(b)) :
          /\ segs[j].key = segs[b].key /\ segs[j].key # FreeKey
          /\ segs[j].segsz = segs[b].segsz
          /\ segs[j].pa.f # NoFrame
    /\ \A j \in 0 .. last : (\A b \in live : j \notin Span(b, PagesOf(b)))
                            => segs[j] = [FreedSeg EXCEPT !.nattch = segs[j].nattch,
                                                          !.mode = segs[j].mode]

\* As long as no call strayed (a shmget that fails for memory halfway is a
\* stray: unmapShmSegPage loses the pages it got), the table is tiled.
TableTiled == strays = 0 => Tiled

\* The attaches process p has of segment b.
AttachesOf(p, b) == {a \in attaches[p] : a.shmid = b}

(***************************************************************************)
(* The slots of a running process are exactly those of the segments it     *)
(* attached or inherited and did not detach (shmatHelper, shmdtHelper,     *)
(* fork and exec agree on the slots a segment occupies), as long as no     *)
(* call strayed.  Explicit addresses are in it where their slots are free: *)
(* the overlap check of shm.c:330 does not see all of those that are not.  *)
(***************************************************************************)
SlotsMatchAttaches ==
    strays = 0 =>
        \A p \in Procs : state[p] = "running" =>
            \A u \in Slots :
                att[p][u].isAttached
                <=> \E a \in attaches[p] : u \in Span(a.slot, PagesOf(a.shmid))
                                           /\ a.shmid = att[p][u].shmid

(***************************************************************************)
(* A slot that a running process maps belongs to one of its attaches of a  *)
(* segment that exists, and its page-table entry was made from the frame   *)
(* that the matching entry of shm_segs still holds: no mapping outlives    *)
(* removeshm, as long as no call strayed.  Only the frame is compared, not *)
(* the address: that is MapsSegmentPage.                                   *)
(***************************************************************************)
MappedPagesOwned ==
    strays = 0 =>
        \A p \in Procs, u \in Slots :
            state[p] = "running" /\ pte[p][u].present =>
                \E a \in attaches[p] :
                    /\ a.shmid \in live /\ u \in Span(a.slot, PagesOf(a.shmid))
                    /\ segs[a.shmid + (u - a.slot)].pa.f \in Frames
                    /\ pte[p][u].pa.f = segs[a.shmid + (u - a.slot)].pa.f

(***************************************************************************)
(* shm.h:16: pa is the "Physical address of the page in shm segment".  A   *)
(* slot that a running process maps has the physical address of a page of  *)
(* a segment in its page-table entry.  The code does not keep this: pa is  *)
(* stored as V2P(mem) (shm.c:137) and shm.c:164 applies V2P to it again,   *)
(* so that the page mapped is not the page of the segment.                 *)
(***************************************************************************)
MapsSegmentPage ==
    strays = 0 =>
        \A p \in Procs, u \in Slots :
            state[p] = "running" /\ pte[p][u].present =>
                \E j \in Ids : pte[p][u].pa = segs[j].pa

(***************************************************************************)
(* shm_nattch may count too many attaches, never too few: removeshm frees  *)
(* only what nobody has attached (shm.c:510), as long as no call strayed.  *)
(* An IPC_SET with another count, which shm.c:426 stores, is a stray.      *)
(***************************************************************************)
Attachments(b) == UNION {{<<p, a>> : a \in AttachesOf(p, b)} : p \in Procs}
NattchCovers ==
    strays = 0 => \A b \in live : segs[b].nattch >= Cardinality(Attachments(b))

\* removeshm, by id or by key, never frees a segment some process has
\* attached, as long as no call strayed (IPC_SET as in NattchCovers).
RemoveOnlyDetached ==
    [][strays' = 0 => \A b \in live \ live' : Attachments(b) = {}]_vars

============================================================================
