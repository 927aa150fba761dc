------------------------------ MODULE ShmRace ------------------------------
(***************************************************************************)
(* The shared-memory calls of shm.c taken apart: what processes on several *)
(* CPUs see of each other between two steps of shmget, shmat, shmdt and    *)
(* removeshm.  shmpgtable.lock is taken by mapShmSegPage, allocshmuvm and  *)
(* shmdtHelper only; every other access to shm_segs and lastShmSegIndex    *)
(* runs without it.                                                        *)
(*                                                                         *)
(* Sizes are numbers of pages, a search loop is one step, and kalloc finds *)
(* a page for shmget (module Shm covers that); mappages may fail for lack  *)
(* of a page table page.  A call that returns an error without a change is *)
(* not a step.                                                             *)
(***************************************************************************)
EXTENDS Fit, FiniteSets, Functions

CONSTANTS
    Creators, Attachers, Removers,  \* processes that make each kind of call
    NoProc, Frames, NoFrame,
    SHMMAXSEG,
    Needs,          \* segment sizes, in pages
    Established,    \* pages of a segment that exists at the start, 0: none
    Private,        \* BOOLEAN: programs use only their own segments and the
                    \* established one, which nobody removes
    MaxCalls        \* bound: calls started by one process

Procs == Creators \cup Attachers \cup Removers

ASSUME RaceAssumption ==
    /\ NoProc \notin Procs
    /\ NoFrame \notin Frames
    /\ SHMMAXSEG \in Nat \ {0}
    /\ Established \in 0 .. SHMMAXSEG
    /\ MaxCalls \in Nat /\ Private \in BOOLEAN
    /\ Needs \subseteq Nat \ {0}
    /\ Injection(0 .. Established - 1, Frames) # {}

VARIABLES
    segs,       \* shm_segs: [used, size, nattch, pa]
    last,       \* lastShmSegIndex
    lock,       \* shmpgtable.lock
    onList,     \* how often each frame is on the free list
    att,        \* the slots of each process: the segment id, or -1
    maps,       \* its page table there: the entry whose page is mapped, or -1
    pc,         \* what each process does next
    loc,        \* its locals: id, n, i, s, append, tmp
    calls,      \* calls it has started
    ready,      \* ghost: <<p, id, n>> for the segments shmget returned and
                \* removeshm has not begun to free
    failed,     \* ghost: the processes whose shmat failed, with the lock
    fault       \* the kernel has panicked

vars == <<segs, last, lock, onList, att, maps, pc, loc, calls, ready, failed, fault>>

Ids == 0 .. SHMMAXSEG - 1
Span(id, n) == id .. id + n - 1
FreeSeg == [used |-> FALSE, size |-> 0, nattch |-> 0, pa |-> NoFrame]
NoLocals == [id |-> 0, n |-> 0, i |-> 0, s |-> 0, append |-> FALSE, tmp |-> 0]

\* The frames of the established segment; which ones makes no difference.
Init ==
    LET g == CHOOSE g \in Injection(Span(0, Established), Frames) : TRUE
    IN  /\ segs = [j \in Ids |->
                      IF j < Established
                      THEN [used |-> TRUE, size |-> Established, nattch |-> 0, pa |-> g[j]]
                      ELSE FreeSeg]
        /\ onList = [f \in Frames |->
                        IF \E j \in Span(0, Established) : g[j] = f THEN 0 ELSE 1]
        /\ last = Established - 1
        /\ lock = NoProc
        /\ att = [p \in Procs |-> [s \in Ids |-> -1]]
        /\ maps = [p \in Procs |-> [s \in Ids |-> -1]]
        /\ pc = [p \in Procs |-> "user"]
        /\ loc = [p \in Procs |-> NoLocals]
        /\ calls = [p \in Procs |-> 0]
        /\ ready = IF Established = 0 THEN {} ELSE {<<NoProc, 0, Established>>}
        /\ failed = {}
        /\ fault = FALSE

\* Process p enters a call with locals l.
Enter(p, label, l) ==
    /\ pc[p] = "user" /\ ~fault
    /\ calls[p] < MaxCalls
    /\ calls' = [calls EXCEPT ![p] = @ + 1]
    /\ pc' = [pc EXCEPT ![p] = label]
    /\ loc' = [loc EXCEPT ![p] = l]

At(p, label) == pc[p] = label /\ ~fault
Goto(p, label) == pc' = [pc EXCEPT ![p] = label]
Return(p) ==
    /\ pc' = [pc EXCEPT ![p] = "user"]
    /\ loc' = [loc EXCEPT ![p] = NoLocals]
Step(p) == loc' = [loc EXCEPT ![p].i = @ + 1]
Entry(p) == loc[p].id + loc[p].i     \* the entry the loop is at

----------------------------------------------------------------------------
(* shmget(key, size, IPC_CREAT | IPC_EXCL) with a key not in the table *)

\* allocShmSeg chooses the place.
GetFit(p, n) ==
    LET fit == ScanResult([j \in Ids |-> ~segs[j].used], last + 1, n)
        id == IF fit = -1 THEN last + 1 ELSE fit
    IN  /\ p \in Creators
        /\ id + n <= SHMMAXSEG
        /\ Enter(p, "get_page", [NoLocals EXCEPT !.id = id, !.n = n, !.append = (fit = -1)])
        /\ UNCHANGED <<segs, last, lock, onList, att, maps, ready, failed, fault>>

\* kalloc and mapShmSegPage, which takes and releases the lock.
GetPage(p) ==
    /\ At(p, "get_page") /\ lock = NoProc
    /\ loc[p].i < loc[p].n
    /\ \E f \in Frames :
          /\ onList[f] > 0
          /\ onList' = [onList EXCEPT ![f] = @ - 1]
          /\ segs' = [segs EXCEPT ![Entry(p)] =
                         [used |-> TRUE, size |-> loc[p].n, nattch |-> 0, pa |-> f]]
    /\ IF loc[p].append THEN Goto(p, "get_load") /\ UNCHANGED loc
       ELSE Step(p) /\ UNCHANGED pc
    /\ UNCHANGED <<last, lock, att, maps, calls, ready, failed, fault>>

\* lastShmSegIndex += 1, without the lock: a load and a store.
GetLoad(p) ==
    /\ At(p, "get_load")
    /\ loc' = [loc EXCEPT ![p].tmp = last]
    /\ Goto(p, "get_store")
    /\ UNCHANGED <<segs, last, lock, onList, att, maps, calls, ready, failed, fault>>

GetStore(p) ==
    /\ At(p, "get_store")
    /\ last' = loc[p].tmp + 1
    /\ Step(p)
    /\ Goto(p, "get_page")
    /\ UNCHANGED <<segs, lock, onList, att, maps, calls, ready, failed, fault>>

GetReturn(p) ==
    /\ At(p, "get_page") /\ loc[p].i = loc[p].n
    /\ ready' = ready \cup {<<p, loc[p].id, loc[p].n>>}
    /\ Return(p)
    /\ UNCHANGED <<segs, last, lock, onList, att, maps, calls, failed, fault>>

----------------------------------------------------------------------------
(* shmat(id, 0, flags) of a segment some shmget returned *)

AtFind(p, id) ==
    LET n == segs[id].size
        s == ScanResult([u \in Ids |-> att[p][u] = -1], SHMMAXSEG, n)
    IN  /\ p \in Attachers
        /\ \E r \in ready : r[2] = id /\ (Private => r[1] \in {p, NoProc})
        /\ id <= last /\ n > 0 /\ s # -1
        /\ Enter(p, "at_lock", [NoLocals EXCEPT !.id = id, !.n = n, !.s = s])
        /\ UNCHANGED <<segs, last, lock, onList, att, maps, ready, failed, fault>>

\* Mutant for NattchExact: allocshmuvm does not wait for the lock.
AtLock_NoWait(p) ==
    /\ At(p, "at_lock")
    /\ lock' = p
    /\ Goto(p, "at_load")
    /\ UNCHANGED <<segs, last, onList, att, maps, loc, calls, ready, failed, fault>>

AtLock(p) ==
    /\ At(p, "at_lock") /\ lock = NoProc
    /\ lock' = p
    /\ Goto(p, "at_load")
    /\ UNCHANGED <<segs, last, onList, att, maps, loc, calls, ready, failed, fault>>

\* One page of allocshmuvm: the slot and its mapping, then shm_nattch += 1
\* as a load ...
AtLoad(p) ==
    /\ At(p, "at_load") /\ loc[p].i < loc[p].n
    /\ att' = [att EXCEPT ![p][loc[p].s + loc[p].i] = loc[p].id]
    /\ maps' = [maps EXCEPT ![p][loc[p].s + loc[p].i] = Entry(p)]
    /\ loc' = [loc EXCEPT ![p].tmp = segs[Entry(p)].nattch]
    /\ Goto(p, "at_store")
    /\ UNCHANGED <<segs, last, lock, onList, calls, ready, failed, fault>>

\* mappages fails: the slot stays marked and the lock held.  After the first
\* page, deallocuvm hands kfree the pages mapped so far, which are no kernel
\* addresses, and kfree panics.
AtFail(p) ==
    /\ At(p, "at_load") /\ loc[p].i < loc[p].n
    /\ att' = [att EXCEPT ![p][loc[p].s + loc[p].i] = loc[p].id]
    /\ failed' = failed \cup {p}
    /\ IF loc[p].i = 0 THEN Return(p) /\ UNCHANGED fault
       ELSE fault' = TRUE /\ UNCHANGED <<pc, loc>>
    /\ UNCHANGED <<segs, last, lock, onList, maps, calls, ready>>

\* ... and a store.
AtStore(p) ==
    /\ At(p, "at_store")
    /\ segs' = [segs EXCEPT ![Entry(p)].nattch = loc[p].tmp + 1]
    /\ Step(p)
    /\ Goto(p, "at_load")
    /\ UNCHANGED <<last, lock, onList, att, maps, calls, ready, failed, fault>>

\* Mutant for LockReleased: the lock is kept on return.
AtUnlock_Leaks(p) ==
    /\ At(p, "at_load") /\ loc[p].i = loc[p].n
    /\ Return(p)
    /\ UNCHANGED <<segs, last, lock, onList, att, maps, calls, ready, failed, fault>>

AtUnlock(p) ==
    /\ At(p, "at_load") /\ loc[p].i = loc[p].n
    /\ lock' = NoProc
    /\ Return(p)
    /\ UNCHANGED <<segs, last, onList, att, maps, calls, ready, failed, fault>>

----------------------------------------------------------------------------
(* shmdt *)

\* A program detaches at an address shmat returned: the first page of an
\* attach.  That slot is released before the lock is taken.
DtFind(p, s) ==
    /\ p \in Attachers
    /\ att[p][s] # -1 /\ maps[p][s] = att[p][s]
    /\ Enter(p, "dt_lock",
             [NoLocals EXCEPT !.id = att[p][s], !.n = segs[att[p][s]].size, !.s = s])
    /\ att' = [att EXCEPT ![p][s] = -1]
    /\ UNCHANGED <<segs, last, lock, onList, maps, ready, failed, fault>>

DtLock(p) ==
    /\ At(p, "dt_lock") /\ lock = NoProc
    /\ lock' = p
    /\ Goto(p, "dt_load")
    /\ UNCHANGED <<segs, last, onList, att, maps, loc, calls, ready, failed, fault>>

DtLoad(p) ==
    /\ At(p, "dt_load") /\ loc[p].i < loc[p].n
    /\ att' = [att EXCEPT ![p][loc[p].s + loc[p].i] = -1]
    /\ loc' = [loc EXCEPT ![p].tmp = segs[Entry(p)].nattch]
    /\ Goto(p, "dt_store")
    /\ UNCHANGED <<segs, last, lock, onList, maps, calls, ready, failed, fault>>

DtStore(p) ==
    /\ At(p, "dt_store")
    /\ segs' = [segs EXCEPT ![Entry(p)].nattch = loc[p].tmp - 1]
    /\ Goto(p, "dt_clear")
    /\ UNCHANGED <<last, lock, onList, att, maps, loc, calls, ready, failed, fault>>

\* clearmapping, when the count is already down.
DtClear(p) ==
    /\ At(p, "dt_clear")
    /\ maps' = [maps EXCEPT ![p][loc[p].s + loc[p].i] = -1]
    /\ Step(p)
    /\ Goto(p, "dt_load")
    /\ UNCHANGED <<segs, last, lock, onList, att, calls, ready, failed, fault>>

DtUnlock(p) ==
    /\ At(p, "dt_load") /\ loc[p].i = loc[p].n
    /\ lock' = NoProc
    /\ Return(p)
    /\ UNCHANGED <<segs, last, onList, att, maps, calls, ready, failed, fault>>

----------------------------------------------------------------------------
(* removeshm(id, 0), which never takes the lock *)

\* The test of shm_nattch; marking the entries before it changes nothing
\* the other calls look at.
RmTest(p, id) ==
    /\ p \in Removers
    /\ \E r \in ready : r[2] = id /\ (Private => r[1] = p)
    /\ last # -1 /\ id # last + 1
    /\ segs[id].nattch = 0 /\ segs[id].size > 0
    /\ Enter(p, "rm_free", [NoLocals EXCEPT !.id = id, !.n = segs[id].size])
    /\ UNCHANGED <<segs, last, lock, onList, att, maps, ready, failed, fault>>

\* freeshmPages: the fields are cleared and the page is freed ...
RmFree(p) ==
    /\ At(p, "rm_free") /\ loc[p].i < loc[p].n
    /\ LET f == segs[Entry(p)].pa
       IN  /\ segs' = [segs EXCEPT ![Entry(p)] = [FreeSeg EXCEPT !.pa = f]]
           /\ IF f = NoFrame
              THEN fault' = TRUE /\ UNCHANGED onList
              ELSE onList' = [onList EXCEPT ![f] = @ + 1] /\ UNCHANGED fault
    /\ ready' = IF loc[p].i = 0 THEN {r \in ready : r[2] # loc[p].id} ELSE ready
    /\ Goto(p, "rm_pa")
    /\ UNCHANGED <<last, lock, att, maps, loc, calls, failed>>

\* ... and only then its address.
RmPa(p) ==
    /\ At(p, "rm_pa")
    /\ segs' = [segs EXCEPT ![Entry(p)].pa = NoFrame]
    /\ Step(p)
    /\ Goto(p, "rm_free")
    /\ UNCHANGED <<last, lock, onList, att, maps, calls, ready, failed, fault>>

RmReturn(p) ==
    /\ At(p, "rm_free") /\ loc[p].i = loc[p].n
    /\ Return(p)
    /\ UNCHANGED <<segs, last, lock, onList, att, maps, calls, ready, failed, fault>>

----------------------------------------------------------------------------

\* A process that came back from shmat with the lock panics in its next
\* acquire, or in sched when the timer makes it yield.
HolderPanics(p) ==
    /\ p \in failed /\ ~fault
    /\ fault' = TRUE
    /\ UNCHANGED <<segs, last, lock, onList, att, maps, pc, loc, calls, ready, failed>>

Inside(p) == \/ GetPage(p) \/ GetLoad(p) \/ GetStore(p) \/ GetReturn(p)
             \/ AtLock(p) \/ AtLoad(p) \/ AtStore(p) \/ AtUnlock(p)
             \/ AtFail(p)
             \/ DtLock(p) \/ DtLoad(p) \/ DtStore(p) \/ DtClear(p) \/ DtUnlock(p)
             \/ RmFree(p) \/ RmPa(p) \/ RmReturn(p)

Next == \E p \in Procs :
    \/ \E n \in Needs : GetFit(p, n)
    \/ \E id \in Ids : AtFind(p, id) \/ RmTest(p, id)
    \/ \E s \in Ids : DtFind(p, s)
    \/ Inside(p) \/ HolderPanics(p)

(***************************************************************************)
(* A CPU that runs kernel code keeps running it: these calls never sleep,  *)
(* and the holder of a spinlock is not preempted.  A spinlock is not fair, *)
(* so a process waiting for it may starve.                                 *)
(***************************************************************************)
Spec == Init /\ [][Next]_vars /\ \A p \in Procs : WF_vars(Inside(p))

----------------------------------------------------------------------------

\* The slots that map the page of entry j.
Mappings(j) == {m \in Procs \X Ids : maps[m[1]][m[2]] = j}

(***************************************************************************)
(* Whenever no call is under way, shm_nattch of every entry is the number  *)
(* of slots, of all processes, that map its page, whatever interleaving of *)
(* shmat and shmdt led there: the counts are only changed under the lock.  *)
(***************************************************************************)
NattchExact ==
    ~fault /\ (\A p \in Procs : pc[p] = "user") =>
        \A j \in Ids : segs[j].nattch = Cardinality(Mappings(j))

(***************************************************************************)
(* Who takes the lock in allocshmuvm or shmdtHelper releases it, but for a *)
(* shmat that fails: allocshmuvm returns ENOMEM with the lock held         *)
(* (shm.c:164-167), which nobody releases any more.                        *)
(***************************************************************************)
LockReleased == (lock # NoProc) ~> (lock = NoProc \/ lock \in failed)

(***************************************************************************)
(* shm.h:21: the lock is there "to protect the shared memory page table".  *)
(* Segments that two shmget calls returned do not share an entry.  The     *)
(* code does not keep this with two processes creating segments: the       *)
(* search and the use of its result (shm.c:94-120, 140) are not under the  *)
(* lock.                                                                   *)
(***************************************************************************)
SegmentsDisjoint ==
    \A r, t \in ready : r # t => Span(r[2], r[3]) \cap Span(t[2], t[3]) = {}
============================================================================
