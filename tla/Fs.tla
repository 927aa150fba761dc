--------------------------------- MODULE Fs ---------------------------------
(***************************************************************************)
(* Inodes, directories and path names (fs.c) under the system calls of     *)
(* sysfile.c, with the locks of inodes visible: a step goes from the       *)
(* acquisition of a sleep lock to the next acquisition, or to the release  *)
(* after which others can see what was done.                               *)
(*                                                                         *)
(* Transactions are those of module Log.  File contents are left out; the  *)
(* entries of a directory fit in one block.  A process has one descriptor, *)
(* so that open fails while it is in use.                                  *)
(***************************************************************************)
EXTENDS Integers, Sequences, FiniteSets, FiniteSetsExt

CONSTANTS
    Procs, NoProc,
    NInodes,            \* inodes on disk
    NINODE,             \* entries of the inode cache
    NBlocks,            \* data blocks
    NDIRECT, NINDIRECT,
    Names,              \* names other than "." and ".."
    Requests,           \* the calls with a path that programs make: call, path and
                        \* new, the second path of link
    MaxCalls,           \* bound on the system calls made
    Programs            \* the files mkfs puts into the root, a sequence of names

Dots == {".", ".."}
ROOTINO == 1
Inums == 1 .. NInodes
Blocks == 1 .. NBlocks
PathCalls == {"open", "openr", "create", "mkdir", "mknod", "link", "unlink", "chdir"}
Slots == 1 .. NINODE    \* a pointer to an inode is its slot in the cache, 0 is null

ASSUME FsAssumption ==
    /\ NInodes \in Nat /\ MaxCalls \in Nat /\ NINODE \in Nat \ {0} /\ NBlocks \in Nat
    /\ NDIRECT \in Nat \ {0} /\ NINDIRECT \in Nat
    /\ NoProc \notin Procs /\ IsFiniteSet(Procs)
    /\ IsFiniteSet(Names) /\ Names \cap Dots = {} /\ Programs \in Seq(Names)
    /\ Len(Programs) < NInodes /\ Len(Programs) < NBlocks
    /\ \A r \in Requests :
          /\ r.call \in PathCalls
          /\ \A q \in {r.path, r.new} : q.abs \in BOOLEAN /\ q.elems \in Seq(Names \cup Dots)

VARIABLES
    dinode,     \* inodes on disk: type, nlink, addrs
    used,       \* blocks marked in the bitmap
    dirent,     \* what a block holds as a directory's block
    ptr,        \* what a block holds as an indirect block
    inode,      \* the inode cache: ref, inum, valid and d, the copy of the inode
    lock,       \* who holds the sleep lock of a slot
    cwd, ofile, \* a process's current directory and open file
    loc,        \* a process's locals, see Idle
    panic,
    calls,      \* system calls made so far
    orphan      \* not in the code: ".." has led out of a removed directory to one
                \* that has been removed too, see Strays

disk == <<dinode, used, dirent, ptr>>
vars == <<disk, inode, lock, cwd, ofile, loc, panic, calls, orphan>>

NoAddrs == [k \in 0 .. NDIRECT |-> 0]
Null == [type |-> "none", nlink |-> 0, addrs |-> NoAddrs]
NoNames == [n \in Names \cup Dots |-> 0]
NoPtrs == [k \in 0 .. NINDIRECT - 1 |-> 0]
EmptySlot == [ref |-> 0, inum |-> 0, valid |-> FALSE, d |-> Null]

\* The locals of a process: where it is, the call and its paths, the pointers
\* it holds, those it gives back with iput before it goes on, and where in that
\* iput it is.
NoPath == [abs |-> FALSE, elems |-> <<>>]
Idle == [pc |-> "idle", call |-> "none", path |-> <<>>, new |-> NoPath,
         ip |-> 0, dp |-> 0, puts |-> <<>>, put |-> "test"]

----------------------------------------------------------------------------
(* What mkfs writes: inode i has block i *)

MkfsInode(type, i) == [type |-> type, nlink |-> 1, addrs |-> [NoAddrs EXCEPT ![0] = i]]

MkfsBitmap == 1 .. 1 + Len(Programs)

MkfsRoot == [n \in Names \cup Dots |->
    IF n \in Dots THEN ROOTINO
    ELSE LET ks == {k \in DOMAIN Programs : Programs[k] = n}
         IN  IF ks = {} THEN 0 ELSE 1 + Min(ks)]

\* All processes start in the root.
Init ==
    /\ dinode = [i \in Inums |-> IF i = ROOTINO THEN MkfsInode("dir", i)
                                 ELSE IF i \in MkfsBitmap THEN MkfsInode("file", i)
                                 ELSE Null]
    /\ used = MkfsBitmap
    /\ dirent = [b \in Blocks |-> IF b = 1 THEN MkfsRoot ELSE NoNames]
    /\ ptr = [b \in Blocks |-> NoPtrs]
    /\ inode = [[s \in Slots |-> EmptySlot] EXCEPT ![1].ref = Cardinality(Procs), ![1].inum = ROOTINO]
    /\ lock = [s \in Slots |-> NoProc]
    /\ cwd = [p \in Procs |-> 1]
    /\ ofile = [p \in Procs |-> 0]
    /\ loc = [p \in Procs |-> Idle]
    /\ panic = "none"
    /\ calls = 0
    /\ orphan = FALSE

----------------------------------------------------------------------------
(* The inode cache *)

\* Mutant: iget takes a new slot without looking for the inode.
Cached_Never(i) == {}

Cached(i) == {s \in Slots : inode[s].ref > 0 /\ inode[s].inum = i}
Unused == {s \in Slots : inode[s].ref = 0}

\* iget(i) finds a slot or panics.
CanGet(i) == Cached(i) \cup Unused # {}
IgetSlot(i) == IF Cached(i) # {} THEN Min(Cached(i)) ELSE Min(Unused)

\* iget, applied to the cache c.
Iget(c, i) ==
    LET s == IgetSlot(i)
    IN  IF Cached(i) # {} THEN [c EXCEPT ![s].ref = @ + 1]
        ELSE [c EXCEPT ![s].ref = 1, ![s].inum = i, ![s].valid = FALSE]

\* The inode in slot s, as ilock finds or reads it.
Content(s) == IF inode[s].valid THEN inode[s].d ELSE dinode[inode[s].inum]

\* Slot s holds inode d: ilock with d = Content(s), or after a change.
Store(c, s, d) == [c EXCEPT ![s].valid = TRUE, ![s].d = d]
Load(s) == Store(inode, s, Content(s))

\* iupdate.
Update(D, s, d) == [D EXCEPT ![inode[s].inum] = d]

\* A process begins a system call.
Begins(p) ==
    /\ panic = "none" /\ loc[p] = Idle
    /\ calls < MaxCalls /\ calls' = calls + 1

At(p, l) == panic = "none" /\ loc[p].puts = <<>> /\ loc[p].pc = l

\* ilock(s) succeeds.
Locks(s) == lock[s] = NoProc /\ (inode[s].valid \/ Content(s).type # "none")

----------------------------------------------------------------------------
(* iput *)

Putting(p, f) == panic = "none" /\ loc[p].puts # <<>> /\ loc[p].put = f

\* No name and no other pointer leads to the inode.
\* Mutants: the links, or the other pointers, are not looked at.
LastRef_AnyLinks(s) == inode[s].valid /\ inode[s].ref = 1
LastRef_AnyRefs(s) == inode[s].valid /\ inode[s].d.nlink = 0

LastRef(s) == inode[s].valid /\ inode[s].d.nlink = 0 /\ inode[s].ref = 1

PutTest(p) ==
    /\ Putting(p, "test")
    /\ LET s == Head(loc[p].puts)
       IN  /\ lock[s] = NoProc
           /\ IF LastRef(s) THEN lock' = [lock EXCEPT ![s] = p] ELSE UNCHANGED lock
           /\ loc' = [loc EXCEPT ![p].put = IF LastRef(s) THEN "free" ELSE "drop"]
    /\ UNCHANGED <<disk, inode, cwd, ofile, panic, calls>>

\* The blocks of inode d: direct ones, the indirect block and those it lists.
BlocksOf(d) ==
    LET b == d.addrs[NDIRECT]
    IN  ({d.addrs[k] : k \in 0 .. NDIRECT}
         \cup (IF b = 0 THEN {} ELSE {ptr[b][k] : k \in DOMAIN NoPtrs})) \ {0}

\* Mutant: itrunc forgets what the indirect block lists.
Truncated_Direct(d) == {d.addrs[k] : k \in 0 .. NDIRECT} \ {0}

\* What itrunc frees.
Truncated(d) == BlocksOf(d)

\* Mutant: valid is not cleared.
Freed_Valid(c, s) == [c EXCEPT ![s].d = Null]

\* The slot as iput leaves it when it has freed the inode.
Freed(c, s) == [c EXCEPT ![s].valid = FALSE, ![s].d = Null]

\* itrunc, type = 0, iupdate and valid = 0; bfree panics on a free block.
PutFree(p) ==
    /\ Putting(p, "free")
    /\ LET s == Head(loc[p].puts)
           bs == Truncated(inode[s].d)
       IN  /\ used' = used \ bs
           /\ dinode' = Update(dinode, s, Null)
           /\ inode' = Freed(inode, s)
           /\ lock' = [lock EXCEPT ![s] = NoProc]
           /\ panic' = IF bs \subseteq used THEN "none" ELSE "freeing free block"
    /\ loc' = [loc EXCEPT ![p].put = "drop"]
    /\ UNCHANGED <<dirent, ptr, cwd, ofile, calls>>

\* Nobody reads the inode number or the copy in a slot that is not in use.
PutDrop(p) ==
    /\ Putting(p, "drop")
    /\ inode' = LET s == Head(loc[p].puts)
                IN  [inode EXCEPT ![s] = IF inode[s].ref = 1 THEN [EmptySlot EXCEPT !.valid = inode[s].valid]
                                         ELSE [inode[s] EXCEPT !.ref = @ - 1]]
    /\ loc' = [loc EXCEPT ![p].puts = Tail(@), ![p].put = "test"]
    /\ UNCHANGED <<disk, lock, cwd, ofile, panic, calls>>

----------------------------------------------------------------------------
(* Path names *)

\* Calls that look for the directory the last name is in (nameiparent).
Parent == {"create", "mkdir", "mknod", "unlink", "linkto"}

Lookup(d, n) == IF d.addrs[0] = 0 THEN 0 ELSE dirent[d.addrs[0]][n]

\* What a process with the locals l has left to do when the lookup fails at s.
Failed(l, s) ==
    IF l.call = "linkto" THEN [l EXCEPT !.pc = "unlinked", !.puts = <<s>>, !.dp = 0, !.path = <<>>]
    ELSE [Idle EXCEPT !.puts = <<s>>]

\* The walk of the locals l arrives at s, with the elements q left; "/" has no
\* parent.
Arrive(l, s, q) ==
    IF q = <<>> /\ l.call \in Parent THEN Failed(l, s)
    ELSE IF q = <<>> THEN [l EXCEPT !.ip = s, !.dp = 0, !.path = <<>>, !.pc = l.call]
    ELSE [l EXCEPT !.dp = s, !.path = q, !.pc = "walk"]

\* namex begins in the root or in the current directory.
StartSlot(p, q) == IF q.abs THEN IgetSlot(ROOTINO) ELSE cwd[p]
StartGet(p, c, q) == IF q.abs THEN Iget(c, ROOTINO) ELSE [c EXCEPT ![cwd[p]].ref = @ + 1]

\* A call with a path, two for link.
Call(p) ==
    /\ Begins(p)
    /\ \E r \in Requests :
          /\ r.path.abs => CanGet(ROOTINO)
          /\ inode' = StartGet(p, inode, r.path)
          /\ loc' = [loc EXCEPT ![p] = Arrive([Idle EXCEPT !.call = r.call, !.new = r.new],
                                              StartSlot(p, r.path), r.path.elems)]
    /\ UNCHANGED <<disk, lock, cwd, ofile, panic>>

\* The walk stops at the directory the last name is in.
LastElem(p) == loc[p].call \in Parent /\ Len(loc[p].path) = 1

\* A round of the loop of namex.
Walk(p) ==
    /\ At(p, "walk") /\ Locks(loc[p].dp)
    /\ LET s == loc[p].dp
           d == Content(s)
           i == Lookup(d, Head(loc[p].path))
       IN  \/ /\ d.type = "dir" /\ LastElem(p)
              /\ inode' = Load(s)
              /\ loc' = [loc EXCEPT ![p].pc = loc[p].call]
           \/ /\ d.type # "dir" \/ (~LastElem(p) /\ i = 0)
              /\ inode' = Load(s)
              /\ loc' = [loc EXCEPT ![p] = Failed(loc[p], s)]
           \/ /\ d.type = "dir" /\ ~LastElem(p) /\ i # 0 /\ CanGet(i)
              /\ inode' = Iget(Load(s), i)
              /\ loc' = [loc EXCEPT ![p] =
                    [Arrive(loc[p], IgetSlot(i), Tail(loc[p].path)) EXCEPT !.puts = <<s>>]]
    /\ UNCHANGED <<disk, lock, cwd, ofile, panic, calls>>

----------------------------------------------------------------------------
(* open, mkdir, mknod *)

\* p has the inode s and its lock: it becomes its open file, or is put.
Opens(p, s) ==
    IF ofile[p] = 0
    THEN ofile' = [ofile EXCEPT ![p] = s] /\ loc' = [loc EXCEPT ![p] = Idle]
    ELSE UNCHANGED ofile /\ loc' = [loc EXCEPT ![p] = [Idle EXCEPT !.puts = <<s>>]]

\* open without O_CREATE, for writing ("open") or reading ("openr").
Open(p) ==
    /\ \/ At(p, "open") \/ At(p, "openr") \/ At(p, "existing")
    /\ Locks(loc[p].ip)
    /\ LET s == loc[p].ip
           t == Content(s).type
       IN  /\ inode' = Load(s)
           /\ IF \/ loc[p].pc = "open" /\ t = "dir"
                 \/ loc[p].pc = "existing" /\ (loc[p].call # "create" \/ t # "file")
              THEN loc' = [loc EXCEPT ![p] = [Idle EXCEPT !.puts = <<s>>]] /\ UNCHANGED ofile
              ELSE Opens(p, s)
    /\ UNCHANGED <<disk, lock, cwd, panic, calls>>

Creates == {"create", "mkdir", "mknod"}
Makes(c) == CASE c = "mkdir" -> "dir" [] c = "mknod" -> "dev" [] OTHER -> "file"
FreeInums == {i \in Inums : dinode[i].type = "none"}

\* create: the name is there ...
CreateFound(p) ==
    /\ \E c \in Creates : At(p, c)
    /\ Locks(loc[p].dp)
    /\ LET s == loc[p].dp
           i == Lookup(Content(s), Head(loc[p].path))
       IN  /\ i # 0 /\ CanGet(i)
           /\ inode' = Iget(Load(s), i)
           /\ loc' = [loc EXCEPT ![p].pc = "existing", ![p].ip = IgetSlot(i), ![p].dp = 0,
                                 ![p].puts = <<s>>]
    /\ UNCHANGED <<disk, lock, cwd, ofile, panic, calls>>

\* ... or an inode is allocated, with the directory locked, ...
CreateAlloc(p) ==
    /\ \E c \in Creates : At(p, c)
    /\ Locks(loc[p].dp)
    /\ LET s == loc[p].dp
           i == Min(FreeInums)
       IN  /\ Lookup(Content(s), Head(loc[p].path)) = 0
           /\ FreeInums # {} /\ CanGet(i)
           /\ dinode' = [dinode EXCEPT ![i] = [Null EXCEPT !.type = Makes(loc[p].call)]]
           /\ inode' = Iget(Load(s), i)
           /\ lock' = [lock EXCEPT ![s] = p]
           /\ loc' = [loc EXCEPT ![p].pc = "new", ![p].ip = IgetSlot(i)]
    /\ UNCHANGED <<used, dirent, ptr, cwd, ofile, panic, calls>>

\* balloc: a free block, with nothing in it.
FreeBlock == Min(Blocks \ used)

\* ... and initialised and entered into the directory.
CreateInit(p) ==
    /\ At(p, "new") /\ Locks(loc[p].ip)
    /\ LET s == loc[p].ip
           t == loc[p].dp
           n == Head(loc[p].path)
           dir == loc[p].call = "mkdir"
           b == FreeBlock
           d == [Content(s) EXCEPT !.nlink = 1, !.addrs[0] = IF dir THEN b ELSE 0]
           e == [inode[t].d EXCEPT !.nlink = IF dir THEN @ + 1 ELSE @]
           named == [dirent EXCEPT ![e.addrs[0]][n] = inode[s].inum]
       IN  /\ dir => used # Blocks
           /\ used' = IF dir THEN used \cup {b} ELSE used
           /\ ptr' = IF dir THEN [ptr EXCEPT ![b] = NoPtrs] ELSE ptr
           /\ dirent' = IF dir THEN [named EXCEPT ![b] = [NoNames EXCEPT !["."] = inode[s].inum,
                                                                          ![".."] = inode[t].inum]]
                        ELSE named
           /\ dinode' = Update(Update(dinode, s, d), t, e)
           /\ inode' = Store(Store(inode, s, d), t, e)
           /\ lock' = [lock EXCEPT ![s] = p, ![t] = NoProc]
           /\ loc' = [loc EXCEPT ![p].pc = "created", ![p].dp = 0, ![p].puts = <<t>>]
    /\ UNCHANGED <<cwd, ofile, panic, calls>>

\* create has returned the new inode locked.
Created(p) ==
    /\ At(p, "created")
    /\ lock' = [lock EXCEPT ![loc[p].ip] = NoProc]
    /\ IF loc[p].call = "create" THEN Opens(p, loc[p].ip)
       ELSE loc' = [loc EXCEPT ![p] = [Idle EXCEPT !.puts = <<loc[p].ip>>]] /\ UNCHANGED ofile
    /\ UNCHANGED <<disk, inode, cwd, panic, calls>>

----------------------------------------------------------------------------
(* link and unlink *)

\* The file gets one more link, then the new name is looked up.
Link(p) ==
    /\ At(p, "link") /\ Locks(loc[p].ip)
    /\ LET s == loc[p].ip
           d == [Content(s) EXCEPT !.nlink = @ + 1]
           q == loc[p].new
       IN  \/ /\ d.type = "dir"
              /\ inode' = Load(s)
              /\ loc' = [loc EXCEPT ![p] = [Idle EXCEPT !.puts = <<s>>]]
              /\ UNCHANGED dinode
           \/ /\ d.type # "dir"
              /\ q.abs => CanGet(ROOTINO)
              /\ dinode' = Update(dinode, s, d)
              /\ inode' = StartGet(p, Store(inode, s, d), q)
              /\ loc' = [loc EXCEPT ![p] = Arrive([Idle EXCEPT !.call = "linkto", !.ip = s],
                                                  StartSlot(p, q), q.elems)]
    /\ UNCHANGED <<used, dirent, ptr, lock, cwd, ofile, panic, calls>>

\* dirlink finds the name, whose inode it puts with the directory locked ...
LinkExists(p) ==
    /\ At(p, "linkto") /\ Locks(loc[p].dp)
    /\ LET s == loc[p].dp
           i == Lookup(Content(s), Head(loc[p].path))
       IN  /\ i # 0 /\ CanGet(i)
           /\ inode' = Iget(Load(s), i)
           /\ lock' = [lock EXCEPT ![s] = p]
           /\ loc' = [loc EXCEPT ![p].pc = "linkbad", ![p].puts = <<IgetSlot(i)>>]
    /\ UNCHANGED <<disk, cwd, ofile, panic, calls>>

\* ... before the directory, and takes the link back, as in unlink ...
LinkBad(p) ==
    /\ At(p, "linkbad")
    /\ lock' = [lock EXCEPT ![loc[p].dp] = NoProc]
    /\ loc' = [loc EXCEPT ![p].pc = "unlinked", ![p].dp = 0, ![p].puts = <<loc[p].dp>>]
    /\ UNCHANGED <<disk, inode, cwd, ofile, panic, calls>>

\* ... or enters the new name.
LinkEnter(p) ==
    /\ At(p, "linkto") /\ Locks(loc[p].dp)
    /\ LET s == loc[p].dp
           n == Head(loc[p].path)
       IN  /\ Lookup(Content(s), n) = 0
           /\ inode' = Load(s)
           /\ dirent' = [dirent EXCEPT ![Content(s).addrs[0]][n] = inode[loc[p].ip].inum]
           /\ loc' = [loc EXCEPT ![p] = [Idle EXCEPT !.puts = <<s, loc[p].ip>>]]
    /\ UNCHANGED <<dinode, used, ptr, lock, cwd, ofile, panic, calls>>

UnlinkLookup(p) ==
    /\ At(p, "unlink") /\ Locks(loc[p].dp)
    /\ LET s == loc[p].dp
           n == Head(loc[p].path)
           i == Lookup(Content(s), n)
       IN  \/ /\ n \in Dots \/ i = 0
              /\ inode' = Load(s)
              /\ loc' = [loc EXCEPT ![p] = [Idle EXCEPT !.puts = <<s>>]]
              /\ UNCHANGED lock
           \/ /\ n \notin Dots /\ i # 0 /\ CanGet(i)
              /\ inode' = Iget(Load(s), i)
              /\ lock' = [lock EXCEPT ![s] = p]
              /\ loc' = [loc EXCEPT ![p].pc = "remove", ![p].ip = IgetSlot(i)]
    /\ UNCHANGED <<disk, cwd, ofile, panic, calls>>

IsDirEmpty(d) == \A n \in Names : Lookup(d, n) = 0

\* With both locked the entry is erased, or the directory is not empty.
UnlinkErase(p) ==
    /\ At(p, "remove") /\ Locks(loc[p].ip)
    /\ LET s == loc[p].ip
           t == loc[p].dp
           dir == Content(s).type = "dir"
           e == [inode[t].d EXCEPT !.nlink = IF dir THEN @ - 1 ELSE @]
       IN  \/ /\ Content(s).nlink >= 1 /\ dir /\ ~IsDirEmpty(Content(s))
              /\ inode' = Load(s)
              /\ loc' = [loc EXCEPT ![p].pc = "unlinkbad", ![p].ip = 0, ![p].puts = <<s>>]
              /\ UNCHANGED <<disk, lock>>
           \/ /\ Content(s).nlink >= 1 /\ (dir => IsDirEmpty(Content(s)))
              /\ dirent' = [dirent EXCEPT ![e.addrs[0]][Head(loc[p].path)] = 0]
              /\ dinode' = Update(dinode, t, e)
              /\ inode' = Store(Load(s), t, e)
              /\ lock' = [lock EXCEPT ![s] = p, ![t] = NoProc]
              /\ loc' = [loc EXCEPT ![p].pc = "erased", ![p].dp = 0, ![p].puts = <<t>>]
              /\ UNCHANGED <<used, ptr>>
    /\ UNCHANGED <<cwd, ofile, panic, calls>>

UnlinkBad(p) ==
    /\ At(p, "unlinkbad")
    /\ lock' = [lock EXCEPT ![loc[p].dp] = NoProc]
    /\ loc' = [loc EXCEPT ![p] = [Idle EXCEPT !.puts = <<loc[p].dp>>]]
    /\ UNCHANGED <<disk, inode, cwd, ofile, panic, calls>>

\* The link is taken away: the lock is held since UnlinkErase, or taken for it
\* in the bad case of link.
Unlinked(p) ==
    /\ \/ At(p, "erased")
       \/ At(p, "unlinked") /\ Locks(loc[p].ip)
    /\ LET s == loc[p].ip
           d == [Content(s) EXCEPT !.nlink = @ - 1]
       IN  /\ dinode' = Update(dinode, s, d)
           /\ inode' = Store(inode, s, d)
           /\ lock' = [lock EXCEPT ![s] = NoProc]
           /\ loc' = [loc EXCEPT ![p] = [Idle EXCEPT !.puts = <<s>>]]
    /\ UNCHANGED <<used, dirent, ptr, cwd, ofile, panic, calls>>

----------------------------------------------------------------------------
(* chdir, close, write *)

Chdir(p) ==
    /\ At(p, "chdir") /\ Locks(loc[p].ip)
    /\ LET s == loc[p].ip
           dir == Content(s).type = "dir"
       IN  /\ inode' = Load(s)
           /\ cwd' = IF dir THEN [cwd EXCEPT ![p] = s] ELSE cwd
           /\ loc' = [loc EXCEPT ![p] = [Idle EXCEPT !.puts = <<IF dir THEN cwd[p] ELSE s>>]]
    /\ UNCHANGED <<disk, lock, ofile, panic, calls>>

Close(p) ==
    /\ Begins(p) /\ ofile[p] # 0
    /\ ofile' = [ofile EXCEPT ![p] = 0]
    /\ loc' = [loc EXCEPT ![p].puts = <<ofile[p]>>]
    /\ UNCHANGED <<disk, inode, lock, cwd, panic>>

\* Data blocks of a file, and what writing one more of them needs.
Size(d) ==
    Cardinality({k \in 0 .. NDIRECT - 1 : d.addrs[k] # 0})
    + IF d.addrs[NDIRECT] = 0 THEN 0
      ELSE Cardinality({k \in DOMAIN NoPtrs : ptr[d.addrs[NDIRECT]][k] # 0})
Needs(d) == IF Size(d) = NDIRECT THEN 2 ELSE 1

\* filewrite at the end of the file: writei calls bmap, which calls balloc.
Write(p) ==
    /\ Begins(p) /\ ofile[p] # 0 /\ Locks(ofile[p])
    /\ LET s == ofile[p]
           d == Content(s)
           n == Size(d)
           b == FreeBlock
           c == Min(Blocks \ (used \cup {b}))
       IN  /\ d.type = "file" /\ n < NDIRECT + NINDIRECT
           /\ Cardinality(Blocks \ used) >= Needs(d)
           /\ used' = used \cup (IF Needs(d) = 2 THEN {b, c} ELSE {b})
           /\ ptr' = IF n < NDIRECT THEN [ptr EXCEPT ![b] = NoPtrs]
                     ELSE IF n = NDIRECT
                     THEN [ptr EXCEPT ![b] = [NoPtrs EXCEPT ![0] = c], ![c] = NoPtrs]
                     ELSE [ptr EXCEPT ![d.addrs[NDIRECT]][n - NDIRECT] = b, ![b] = NoPtrs]
           /\ dirent' = [k \in Blocks |-> IF k \in used' \ used THEN NoNames ELSE dirent[k]]
           /\ LET e == IF n <= NDIRECT THEN [d EXCEPT !.addrs[n] = b] ELSE d
              IN  dinode' = Update(dinode, s, e) /\ inode' = Store(inode, s, e)
    /\ UNCHANGED <<lock, cwd, ofile, loc, panic>>

----------------------------------------------------------------------------
(* Panics *)

\* The slot whose lock p acquires next, 0 if none.
Wants(p) ==
    LET l == loc[p]
    IN  IF l.puts # <<>> THEN IF l.put = "test" THEN Head(l.puts) ELSE 0
        ELSE IF l.pc \in {"walk"} \cup Parent THEN l.dp
        ELSE IF l.pc \in {"open", "openr", "existing", "new", "link", "remove", "unlinked", "chdir"}
        THEN l.ip ELSE 0

\* iget finds no slot.
NoSlot(p) ==
    \/ loc[p] = Idle /\ (\E r \in Requests : r.path.abs) /\ ~CanGet(ROOTINO)
    \/ /\ At(p, "link") /\ Locks(loc[p].ip) /\ Content(loc[p].ip).type # "dir"
       /\ loc[p].new.abs /\ ~CanGet(ROOTINO)
    \/ /\ \E l \in {"walk"} \cup Parent : At(p, l)
       /\ Locks(loc[p].dp) /\ ~(loc[p].pc = "walk" /\ LastElem(p))
       /\ LET i == Lookup(Content(loc[p].dp), Head(loc[p].path))
          IN  \/ i # 0 /\ ~CanGet(i)
              \/ i = 0 /\ loc[p].pc \in Creates /\ FreeInums # {} /\ ~CanGet(Min(FreeInums))

NoInode(p) ==
    /\ \E c \in Creates : At(p, c)
    /\ Locks(loc[p].dp) /\ Lookup(Content(loc[p].dp), Head(loc[p].path)) = 0
    /\ FreeInums = {}

NoBlock(p) ==
    \/ At(p, "new") /\ loc[p].call = "mkdir" /\ Locks(loc[p].ip) /\ used = Blocks
    \/ /\ loc[p] = Idle /\ ofile[p] # 0 /\ Locks(ofile[p])
       /\ LET d == Content(ofile[p])
          IN  /\ d.type = "file" /\ Size(d) < NDIRECT + NINDIRECT
              /\ Cardinality(Blocks \ used) < Needs(d)

\* ilock meets an inode that has been freed.
NoType(p) ==
    /\ loc[p].puts = <<>> /\ Wants(p) # 0
    /\ lock[Wants(p)] = NoProc /\ ~Locks(Wants(p))

NoLink(p) == At(p, "remove") /\ Locks(loc[p].ip) /\ Content(loc[p].ip).nlink < 1

\* The panics of the step that p takes next.
Faults(p) ==
    {m \in {"iget: no inodes", "ialloc: no inodes", "balloc: out of blocks",
            "ilock: no type", "unlink: nlink < 1"} :
        CASE m = "iget: no inodes" -> NoSlot(p)
          [] m = "ialloc: no inodes" -> NoInode(p)
          [] m = "balloc: out of blocks" -> NoBlock(p)
          [] m = "ilock: no type" -> NoType(p)
          [] m = "unlink: nlink < 1" -> NoLink(p)}

Panics(p) ==
    /\ panic = "none"
    /\ \E m \in Faults(p) : panic' = m
    /\ UNCHANGED <<disk, inode, lock, cwd, ofile, loc, calls>>

\* The names of inode i.
DirsOnDisk == {i \in Inums : dinode[i].type = "dir" /\ dinode[i].addrs[0] # 0}
NamesOf(i) == {x \in DirsOnDisk \X Names : dirent[dinode[x[1]].addrs[0]][x[2]] = i}

\* p looks ".." up in a directory that no name leads to any more, and the inode
\* it finds has no link left: unlink erases the name of a directory and leaves
\* the ".." of those in it (sysfile.c:218), which ilock then follows.
Strays(p) ==
    /\ \E l \in {"walk", "linkto"} \cup Creates : At(p, l)
    /\ loc[p].pc = "walk" => ~LastElem(p)
    /\ Head(loc[p].path) = ".." /\ Locks(loc[p].dp)
    /\ LET d == Content(loc[p].dp)
           i == Lookup(d, "..")
       IN  d.type = "dir" /\ i # 0 /\ NamesOf(inode[loc[p].dp].inum) = {} /\ dinode[i].nlink = 0

Step(p) ==
    \/ PutTest(p) \/ PutFree(p) \/ PutDrop(p)
    \/ Call(p) \/ Walk(p)
    \/ Open(p) \/ CreateFound(p) \/ CreateAlloc(p) \/ CreateInit(p) \/ Created(p)
    \/ Link(p) \/ LinkExists(p) \/ LinkBad(p) \/ LinkEnter(p)
    \/ UnlinkLookup(p) \/ UnlinkErase(p) \/ UnlinkBad(p) \/ Unlinked(p)
    \/ Chdir(p) \/ Close(p) \/ Write(p)
    \/ Panics(p)

Next == \E p \in Procs : Step(p) /\ orphan' = (orphan \/ Strays(p))

Spec == Init /\ [][Next]_vars

----------------------------------------------------------------------------
(* Properties *)

\* The pointers of process p, 0 for one it does not have, and those that lead
\* to slot s.
Pointers(p) == <<cwd[p], ofile[p], loc[p].ip, loc[p].dp>> \o loc[p].puts
PointersTo(s) == UNION {{<<p, k>> : k \in {j \in DOMAIN Pointers(p) : Pointers(p)[j] = s}} : p \in Procs}

(***************************************************************************)
(* ref counts the pointers to a slot (fs.c:123), and no inode has two      *)
(* slots in use: otherwise an inode would be freed under a pointer, or two *)
(* processes would lock different copies of it.                            *)
(***************************************************************************)
RefCounts ==
    /\ \A s \in Slots : inode[s].ref = Cardinality(PointersTo(s))
    /\ \A s, t \in Slots : s # t /\ inode[s].ref > 0 /\ inode[t].ref > 0
                             => inode[s].inum # inode[t].inum

(***************************************************************************)
(* What a slot in use says of its inode is what the disk says (the cache   *)
(* is write-through, fs.c:218), and the inode is allocated: none is freed  *)
(* while a process can still use it, or read as it was before it was freed *)
(* and allocated again.                                                    *)
(***************************************************************************)
CacheCoherent ==
    \A s \in Slots : inode[s].ref > 0 /\ inode[s].valid =>
        inode[s].d = dinode[inode[s].inum] /\ inode[s].d.type # "none"

(***************************************************************************)
(* Every name in a directory leads to an inode that is allocated, and that *)
(* counts all its names: iput frees no inode a name still leads to.  Here  *)
(* and below nothing is said once ".." has led to a removed directory,     *)
(* whose inode may be free, or half made by another call.                  *)
(***************************************************************************)
LinksCover ==
    \A i \in Inums : Cardinality(NamesOf(i)) <=
        IF dinode[i].type = "none" THEN 0 ELSE dinode[i].nlink
NamesCounted == orphan \/ LinksCover

(***************************************************************************)
(* A block belongs to one inode, and exactly the blocks of inodes are      *)
(* marked in the bitmap: none is lost and none is shared.                  *)
(***************************************************************************)
OneOwner ==
    /\ used = UNION {BlocksOf(dinode[i]) : i \in Inums}
    /\ \A i, j \in Inums : i # j => BlocksOf(dinode[i]) \cap BlocksOf(dinode[j]) = {}
BlocksOwned == orphan \/ OneOwner

(***************************************************************************)
(* The kernel panics only when the inodes, the slots of the cache or the   *)
(* blocks are used up, never because its data are wrong.  The code does    *)
(* not keep this: ilock panics when ".." leads to a freed inode.           *)
(***************************************************************************)
Full == {"none", "iget: no inodes", "ialloc: no inodes", "balloc: out of blocks"}
OnlyWhenFull == panic \in Full

(***************************************************************************)
(* ... and that is the only way: the kernel panics on wrong data (ilock,   *)
(* unlink, bfree) only after ".." was looked up in a directory that has    *)
(* been removed and whose parent has been removed too.                     *)
(***************************************************************************)
FullOrOrphan == orphan \/ OnlyWhenFull
=============================================================================
