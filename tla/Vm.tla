--------------------------------- MODULE Vm ---------------------------------
(***************************************************************************)
(* User memory: the page allocator (kalloc.c), page tables (vm.c) and the  *)
(* calls that build, grow, copy and free them: exec, growproc, fork, exit  *)
(* and wait.  A step goes from one kalloc to the next, so that the calls   *)
(* of several processes compete for the last pages and each may fail at    *)
(* any of its allocations.                                                 *)
(*                                                                         *)
(* Below HEAPLIMIT only: what shared memory maps above it is module Shm.   *)
(* Page contents are left out.                                             *)
(***************************************************************************)
EXTENDS Integers, Sequences, FiniteSets, FiniteSetsExt

CONSTANTS
    NPROC,              \* process 1 is init
    NFrames,            \* physical pages
    PGSIZE,
    NPTENTRIES,         \* pages that one page table page maps
    HEAPLIMIT,          \* in bytes
    UINTMOD,            \* 2^32
    NKPT,               \* page table pages of the kernel part
    MaxCalls,           \* bound on the calls of sbrk, fork and exec
    Deltas,             \* what programs pass to sbrk
    Images              \* the files programs exec, see Segment

Procs == 1 .. NPROC
Frames == 1 .. NFrames
Pages == 0 .. (HEAPLIMIT \div PGSIZE) - 1
Pdes == 0 .. (HEAPLIMIT \div PGSIZE - 1) \div NPTENTRIES

\* A loadable segment ends at end bytes; bad is what is wrong with it, nothing,
\* its header, or its data, which are read after memory is allocated for them.
Segment == [end : Nat, bad : {"no", "header", "data"}]

ASSUME VmAssumption ==
    /\ NPROC \in Nat \ {0} /\ NFrames \in Nat /\ PGSIZE \in Nat \ {0} /\ NPTENTRIES \in Nat \ {0}
    /\ HEAPLIMIT \in Nat /\ HEAPLIMIT >= PGSIZE /\ HEAPLIMIT % PGSIZE = 0
    /\ UINTMOD \in Nat /\ HEAPLIMIT < UINTMOD \div 2
    /\ NKPT \in Nat \ {0} /\ NFrames >= 4 + NKPT
    /\ MaxCalls \in Nat /\ Images \subseteq Seq(Segment)
    /\ Deltas \subseteq -(UINTMOD \div 2) .. UINTMOD \div 2 - 1     \* int

VARIABLES
    free,       \* kmem.freelist
    state,      \* of each process
    kstack,     \* frame of its kernel stack, 0 if none
    pgdir,      \* its page table
    sz,         \* its size in bytes
    new,        \* the page table it is building
    loc,        \* where it is, see User
    panic,
    calls       \* how many calls were made, for MaxCalls

vars == <<free, state, kstack, pgdir, sz, new, loc, panic, calls>>

\* A page table: frames of the directory, of the kernel's page table pages, of
\* the user's and of the user's pages; 0 where there is none.
NoTable == [dir |-> 0, kpt |-> {}, pt |-> [i \in Pdes |-> 0], pte |-> [n \in Pages |-> 0]]

\* The locals of a process: the call, where in it, the page that was allocated
\* and not mapped yet, the address and the size of allocuvm, the segments exec
\* has left, the child of fork.
User == [op |-> "user", pc |-> "none", mem |-> 0, a |-> 0, size |-> 0, todo |-> <<>>, child |-> 0]

PgRoundUp(a) == ((a + PGSIZE - 1) \div PGSIZE) * PGSIZE
PageOf(a) == a \div PGSIZE
PdeOf(a) == PageOf(a) \div NPTENTRIES

\* userinit with inituvm: one page.
Init ==
    /\ free = {f \in Frames : f > 4 + NKPT}
    /\ state = [p \in Procs |-> IF p = 1 THEN "alive" ELSE "unused"]
    /\ kstack = [p \in Procs |-> IF p = 1 THEN 1 ELSE 0]
    /\ pgdir = [p \in Procs |-> IF p = 1
          THEN [dir |-> 2, kpt |-> 5 .. 4 + NKPT,
                pt |-> [NoTable.pt EXCEPT ![0] = 3], pte |-> [NoTable.pte EXCEPT ![0] = 4]]
          ELSE NoTable]
    /\ sz = [p \in Procs |-> IF p = 1 THEN PGSIZE ELSE 0]
    /\ new = [p \in Procs |-> NoTable]
    /\ loc = [p \in Procs |-> User]
    /\ panic = "none"
    /\ calls = 0

----------------------------------------------------------------------------
(* Tables *)

\* Which frame kalloc hands out does not matter.
Kalloc == CHOOSE f \in free : TRUE

InUse(F) == F \ {0}

\* Mutant: the page that size is in is freed too.
DeallocPages_Down(old, size) == {n \in Pages : PageOf(size) <= n /\ n * PGSIZE < old}

\* The pages that deallocuvm(t, old, size) frees, and the table it leaves.
DeallocPages(old, size) == {n \in Pages : PgRoundUp(size) <= n * PGSIZE /\ n * PGSIZE < old}
DeallocFrames(t, old, size) == InUse({t.pte[n] : n \in DeallocPages(old, size)})
DeallocUvm(t, old, size) ==
    [t EXCEPT !.pte = [n \in Pages |-> IF n \in DeallocPages(old, size) THEN 0 ELSE @[n]]]

\* What freevm frees.
VmFrames(t) ==
    InUse({t.dir} \cup t.kpt \cup {t.pt[i] : i \in Pdes} \cup DeallocFrames(t, HEAPLIMIT, 0))

\* mappages for one page: the table with frame f at address a, given the frame
\* of a page table page if walkpgdir needs one.
NeedsPt(t, a) == t.pt[PdeOf(a)] = 0
MapPage(t, a, f, pt) ==
    [t EXCEPT !.pte[PageOf(a)] = f, !.pt[PdeOf(a)] = IF NeedsPt(t, a) THEN pt ELSE @]

\* growproc works on the table of the process, fork and exec on a new one.
Table(p) == IF loc[p].op = "grow" THEN pgdir[p] ELSE new[p]
SetTable(p, t) ==
    IF loc[p].op = "grow" THEN pgdir' = [pgdir EXCEPT ![p] = t] /\ UNCHANGED new
    ELSE new' = [new EXCEPT ![p] = t] /\ UNCHANGED pgdir

\* A call begins.
Calls == calls < MaxCalls /\ calls' = calls + 1

At(p, c) == panic = "none" /\ loc[p].op # "user" /\ loc[p].pc = c

\* A process in user mode whose code is mapped; otherwise it faults.
Runs(p) == panic = "none" /\ state[p] = "alive" /\ loc[p] = User /\ pgdir[p].pte[0] # 0

----------------------------------------------------------------------------
(* The calls *)

\* growproc; the difference is an int, sizes are unsigned.  init does not call it.
Grow(p, n) ==
    /\ Runs(p) /\ p # 1 /\ n # 0 /\ Calls
    /\ LET size == (sz[p] + n) % UINTMOD
       IN  \/ /\ n > 0 /\ size < HEAPLIMIT
              /\ loc' = [loc EXCEPT ![p] = [User EXCEPT !.op = "grow", !.pc = "mem", !.size = size,
                                                        !.a = PgRoundUp(sz[p])]]
              /\ UNCHANGED <<free, pgdir, sz>>
           \/ /\ n < 0 /\ size < sz[p]
              /\ free' = free \cup DeallocFrames(pgdir[p], sz[p], size)
              /\ pgdir' = [pgdir EXCEPT ![p] = DeallocUvm(pgdir[p], sz[p], size)]
              /\ sz' = IF size = 0 THEN sz ELSE [sz EXCEPT ![p] = size]
              /\ UNCHANGED loc
    /\ UNCHANGED <<state, kstack, new, panic>>

\* fork begins with allocproc.
Fork(p, c) ==
    /\ Runs(p) /\ state[c] = "unused" /\ Calls
    /\ free # {}
    /\ state' = [state EXCEPT ![c] = "embryo"]
    /\ kstack' = [kstack EXCEPT ![c] = Kalloc]
    /\ free' = free \ {Kalloc}
    /\ loc' = [loc EXCEPT ![p] = [User EXCEPT !.op = "fork", !.pc = "dir", !.size = sz[p], !.child = c]]
    /\ UNCHANGED <<pgdir, sz, new, panic>>

\* exec of a file that can be read and has the magic number.
Exec(p, image) ==
    /\ Runs(p) /\ Calls
    /\ loc' = [loc EXCEPT ![p] = [User EXCEPT !.op = "exec", !.pc = "dir", !.todo = image]]
    /\ UNCHANGED <<free, state, kstack, pgdir, sz, new, panic>>

Exit(p) ==
    /\ panic = "none" /\ state[p] = "alive" /\ loc[p] = User /\ p # 1
    /\ state' = [state EXCEPT ![p] = "zombie"]
    /\ UNCHANGED <<free, kstack, pgdir, sz, new, loc, panic, calls>>

\* wait finds a zombie; the children of the others have passed to init.
Wait(p, c) ==
    /\ Runs(p) /\ p # c /\ state[c] = "zombie"
    /\ free' = free \cup {kstack[c]} \cup VmFrames(pgdir[c])
    /\ state' = [state EXCEPT ![c] = "unused"]
    /\ kstack' = [kstack EXCEPT ![c] = 0]
    /\ pgdir' = [pgdir EXCEPT ![c] = NoTable]
    /\ sz' = [sz EXCEPT ![c] = 0]
    /\ UNCHANGED <<new, loc, panic, calls>>

----------------------------------------------------------------------------
(* setupkvm, allocuvm and copyuvm, one kalloc at a time *)

\* Mutant: allocuvm and copyuvm forget the page in hand.
Returned_NoMem(p) == IF loc[p].op = "fork" THEN {kstack[loc[p].child]} ELSE {}

\* A call that fails gives back the page in hand and, for fork, the child's stack.
Returned(p) ==
    InUse({loc[p].mem}) \cup (IF loc[p].op = "fork" THEN {kstack[loc[p].child]} ELSE {})

\* The table is taken down: freevm for fork and exec; growproc keeps the table
\* and gives back the pages from its old size on.
Undone(p) ==
    IF loc[p].op = "grow" THEN DeallocFrames(pgdir[p], loc[p].size, sz[p]) ELSE VmFrames(new[p])

Fails(p) ==
    /\ free' = free \cup Returned(p) \cup Undone(p)
    /\ SetTable(p, IF loc[p].op = "grow" THEN DeallocUvm(pgdir[p], loc[p].size, sz[p]) ELSE NoTable)
    /\ IF loc[p].op = "fork"
       THEN /\ state' = [state EXCEPT ![loc[p].child] = "unused"]
            /\ kstack' = [kstack EXCEPT ![loc[p].child] = 0]
       ELSE UNCHANGED <<state, kstack>>
    /\ loc' = [loc EXCEPT ![p] = User]
    /\ UNCHANGED <<sz, panic, calls>>

\* setupkvm: the directory ...
KvmDir(p) ==
    /\ At(p, "dir") /\ free # {}
    /\ new' = [new EXCEPT ![p].dir = Kalloc]
    /\ free' = free \ {Kalloc}
    /\ loc' = [loc EXCEPT ![p].pc = "kpt"]
    /\ UNCHANGED <<state, kstack, pgdir, sz, panic, calls>>

\* ... and what mappages needs for the kernel part.
KvmPt(p) ==
    /\ At(p, "kpt") /\ free # {}
    /\ new' = [new EXCEPT ![p].kpt = @ \cup {Kalloc}]
    /\ free' = free \ {Kalloc}
    /\ loc' = [loc EXCEPT ![p].pc = CASE Cardinality(new'[p].kpt) < NKPT -> "kpt"
                                       [] loc[p].op = "exec" -> "load"
                                       [] OTHER -> "mem"]
    /\ UNCHANGED <<state, kstack, pgdir, sz, panic, calls>>

\* copyuvm has come to a page the parent does not have.
Missing(p) == loc[p].op = "fork" /\ pgdir[p].pte[PageOf(loc[p].a)] = 0

\* The page at a; copyuvm panics without the parent's, before it allocates.
Mem(p) ==
    /\ At(p, "mem") /\ loc[p].a < loc[p].size
    /\ Missing(p) \/ free # {}
    /\ IF Missing(p)
       THEN panic' = "page not present" /\ UNCHANGED <<free, loc>>
       ELSE /\ loc' = [loc EXCEPT ![p].mem = Kalloc, ![p].pc = "map"]
            /\ free' = free \ {Kalloc}
            /\ UNCHANGED panic
    /\ UNCHANGED <<state, kstack, pgdir, sz, new, calls>>

\* mappages, which panics if a page is there already.
Map(p) ==
    /\ At(p, "map")
    /\ NeedsPt(Table(p), loc[p].a) => free # {}
    /\ IF Table(p).pte[PageOf(loc[p].a)] # 0
       THEN panic' = "remap" /\ UNCHANGED <<free, pgdir, new, loc>>
       ELSE /\ free' = IF NeedsPt(Table(p), loc[p].a) THEN free \ {Kalloc} ELSE free
            /\ SetTable(p, MapPage(Table(p), loc[p].a, loc[p].mem, IF free = {} THEN 0 ELSE Kalloc))
            /\ loc' = [loc EXCEPT ![p].mem = 0, ![p].pc = "mem", ![p].a = @ + PGSIZE]
            /\ UNCHANGED panic
    /\ UNCHANGED <<state, kstack, sz, calls>>

\* kalloc returns 0, in setupkvm, for a page or for a page table page.
OutOfMemory(p) ==
    /\ free = {}
    /\ \/ At(p, "dir") \/ At(p, "kpt")
       \/ At(p, "mem") /\ loc[p].a < loc[p].size /\ ~Missing(p)
       \/ At(p, "map") /\ NeedsPt(Table(p), loc[p].a)
    /\ Fails(p)

----------------------------------------------------------------------------
(* What follows when allocuvm or copyuvm is done *)

Allocated(p, op) == At(p, "mem") /\ loc[p].op = op /\ loc[p].a >= loc[p].size

GrowDone(p) ==
    /\ Allocated(p, "grow")
    /\ sz' = [sz EXCEPT ![p] = loc[p].size]
    /\ loc' = [loc EXCEPT ![p] = User]
    /\ UNCHANGED <<free, state, kstack, pgdir, new, panic, calls>>

ForkDone(p) ==
    /\ Allocated(p, "fork")
    /\ LET c == loc[p].child
       IN  /\ pgdir' = [pgdir EXCEPT ![c] = new[p]]
           /\ sz' = [sz EXCEPT ![c] = sz[p]]
           /\ state' = [state EXCEPT ![c] = "alive"]
    /\ new' = [new EXCEPT ![p] = NoTable]
    /\ loc' = [loc EXCEPT ![p] = User]
    /\ UNCHANGED <<free, kstack, panic, calls>>

\* exec's loop over the segments: allocuvm returns the larger of the size so far,
\* which is in size, and the end of the segment, or 0.
SizeWith(p, seg) == Max({loc[p].size, seg.end})
Accepts(p, seg) == seg.bad # "header" /\ seg.end < HEAPLIMIT /\ SizeWith(p, seg) > 0

Load(p) ==
    /\ At(p, "load") /\ loc[p].todo # <<>>
    /\ LET seg == Head(loc[p].todo)
       IN  /\ Accepts(p, seg)
           /\ loc' = [loc EXCEPT ![p].pc = "mem", ![p].a = PgRoundUp(loc[p].size),
                                 ![p].size = SizeWith(p, seg)]
    /\ UNCHANGED <<free, state, kstack, pgdir, sz, new, panic, calls>>

\* loaduvm of the segment.
Loaded(p) ==
    /\ Allocated(p, "exec") /\ loc[p].todo # <<>>
    /\ Head(loc[p].todo).bad = "no"
    /\ loc' = [loc EXCEPT ![p].pc = "load", ![p].todo = Tail(@)]
    /\ UNCHANGED <<free, state, kstack, pgdir, sz, new, panic, calls>>

\* Two pages more for the stack and the page below it.
Stack(p) ==
    /\ At(p, "load") /\ loc[p].todo = <<>>
    /\ LET size == PgRoundUp(loc[p].size)
       IN  /\ size + 2 * PGSIZE < HEAPLIMIT
           /\ loc' = [loc EXCEPT ![p].pc = "mem", ![p].a = size, ![p].size = size + 2 * PGSIZE]
    /\ UNCHANGED <<free, state, kstack, pgdir, sz, new, panic, calls>>

\* The arguments fit: the new image takes the place of the old one.
Commit(p) ==
    /\ Allocated(p, "exec") /\ loc[p].todo = <<>>
    /\ free' = free \cup VmFrames(pgdir[p])
    /\ pgdir' = [pgdir EXCEPT ![p] = new[p]]
    /\ sz' = [sz EXCEPT ![p] = loc[p].size]
    /\ new' = [new EXCEPT ![p] = NoTable]
    /\ loc' = [loc EXCEPT ![p] = User]
    /\ UNCHANGED <<state, kstack, panic, calls>>

\* exec gives up: a segment or the arguments are too big, or cannot be read.
ExecBad(p) ==
    /\ \/ At(p, "load") /\ loc[p].todo # <<>> /\ ~Accepts(p, Head(loc[p].todo))
       \/ At(p, "load") /\ loc[p].todo = <<>> /\ PgRoundUp(loc[p].size) + 2 * PGSIZE >= HEAPLIMIT
       \/ Allocated(p, "exec") /\ loc[p].todo # <<>> /\ Head(loc[p].todo).bad = "data"
       \/ Allocated(p, "exec") /\ loc[p].todo = <<>>
    /\ Fails(p)

Next == \E p \in Procs :
    \/ \E n \in Deltas : Grow(p, n)
    \/ \E c \in Procs : Fork(p, c) \/ Wait(p, c)
    \/ \E image \in Images : Exec(p, image)
    \/ Exit(p)
    \/ KvmDir(p) \/ KvmPt(p) \/ Mem(p) \/ Map(p) \/ OutOfMemory(p)
    \/ GrowDone(p) \/ ForkDone(p)
    \/ Load(p) \/ Loaded(p) \/ Stack(p) \/ Commit(p) \/ ExecBad(p)

Spec == Init /\ [][Next]_vars

----------------------------------------------------------------------------
(* Properties *)

\* Where frames are: the places of a page table and those of a process.
Places(t) ==
    {<<"dir", 0, t.dir>>} \cup {<<"kpt", f, f>> : f \in t.kpt}
    \cup {<<"pt", i, t.pt[i]>> : i \in Pdes} \cup {<<"pte", n, t.pte[n]>> : n \in Pages}
Holdings ==
    {h \in UNION {{<<"pgdir", p, x>> : x \in Places(pgdir[p])} \cup {<<"new", p, x>> : x \in Places(new[p])}
                  \cup {<<"proc", p, <<"kstack", 0, kstack[p]>>>>, <<"proc", p, <<"mem", 0, loc[p].mem>>>>}
                  : p \in Procs} : h[3][3] # 0}

(***************************************************************************)
(* Every physical page is free or in exactly one place: whichever kalloc   *)
(* of fork, exec and sbrk fails, in whatever order their steps mix, no     *)
(* page is lost, freed twice or shared by two processes.                   *)
(***************************************************************************)
FramesConserved ==
    /\ {h[3][3] : h \in Holdings} = Frames \ free
    /\ \A g, h \in Holdings : g[3][3] = h[3][3] => g = h

(***************************************************************************)
(* A process that runs has exactly the pages below its size, so copyuvm    *)
(* and mappages never panic.                                               *)
(***************************************************************************)
SizesTrue ==
    /\ panic = "none"
    /\ \A p \in Procs : Runs(p) => \A n \in Pages : pgdir[p].pte[n] # 0 <=> n * PGSIZE < sz[p]
=============================================================================
