------------------------------ MODULE FsProofs ------------------------------
(***************************************************************************)
(* The inode cache and the file system on disk, for any number of          *)
(* processes, inodes, slots, blocks, names and calls.                      *)
(***************************************************************************)
EXTENDS Fs, FiniteSetTheorems, SequenceTheorems, WellFoundedInduction, NaturalsInduction, TLAPS

----------------------------------------------------------------------------
(* The invariant of the cache *)

Elems == Names \cup Dots
DInode == [type : {"none", "dir", "file", "dev"}, nlink : Int, addrs : [0 .. NDIRECT -> 0 .. NBlocks]]
Slot == [ref : Nat, inum : 0 .. NInodes, valid : BOOLEAN, d : DInode]

\* The points of a call at which it has a directory, or an inode, in hand.
HasDp == {"walk", "new", "linkbad", "remove", "unlinkbad"} \cup Parent
HasIp == {"open", "openr", "link", "chdir", "existing", "new", "created", "remove", "erased"}
LinkPcs == {"walk", "linkto", "linkbad", "unlinked"}
Pcs == {"idle", "unlinked"} \cup HasDp \cup HasIp

News == {NoPath} \cup {r.new : r \in Requests}
Locals == [pc : Pcs, call : {"none", "linkto"} \cup PathCalls, path : Seq(Elems), new : News,
           ip : 0 .. NINODE, dp : 0 .. NINODE, puts : Seq(Slots), put : {"test", "free", "drop"}]

DiskOK ==
    /\ dinode \in [Inums -> DInode]
    /\ used \subseteq Blocks
    /\ dirent \in [Blocks -> [Elems -> 0 .. NInodes]]
    /\ ptr \in [Blocks -> [0 .. NINDIRECT - 1 -> 0 .. NBlocks]]

ProcsOK ==
    /\ lock \in [Slots -> Procs \cup {NoProc}]
    /\ cwd \in [Procs -> Slots]
    /\ ofile \in [Procs -> 0 .. NINODE]
    /\ loc \in [Procs -> Locals]

\* What the locals l of a call look like at each of its points.
Shape(l) ==
    /\ Len(l.puts) <= 2
    /\ l.puts = <<>> => l.put = "test"
    /\ l.dp # 0 <=> l.pc \in HasDp
    /\ l.ip # 0 <=> (l.pc \in HasIp \/ l.call = "linkto")
    /\ l.call = "linkto" => l.pc \in LinkPcs
    /\ l.pc \in {"linkto", "linkbad", "unlinked"} => l.call = "linkto"
    /\ l.pc = "walk" => l.path # <<>> /\ l.call # "none"
    /\ l.pc \in Parent => l.call = l.pc
    /\ l.pc \in Parent \cup {"new", "remove"} => Len(l.path) = 1
    /\ l.pc = "new" => l.call \in Creates

Shapes == \A p \in Procs : Shape(loc[p])

\* A cache c over the inodes D: no inode has two slots in use, and a valid copy
\* is that of an allocated inode.
CacheOK(D, c) ==
    /\ c \in [Slots -> Slot]
    /\ \A s \in Slots : c[s].ref > 0 => c[s].inum \in Inums
    /\ \A s, t \in Slots : s # t /\ c[s].ref > 0 /\ c[t].ref > 0 => c[s].inum # c[t].inum
    /\ \A s \in Slots : c[s].ref > 0 /\ c[s].valid =>
          c[s].d = D[c[s].inum] /\ c[s].d.type # "none"

Counted == \A s \in Slots : inode[s].ref = Cardinality(PointersTo(s))

\* The slots that a process with the locals l has locked.
HeldDp == {"new", "linkbad", "remove", "unlinkbad"}
HeldIp == {"created", "erased"}
Holds(l, s) ==
    \/ l.pc \in HeldDp /\ l.dp = s
    \/ l.pc \in HeldIp /\ l.ip = s
    \/ l.put = "free" /\ Head(l.puts) = s

\* What iput locks to free it is not among the slots the call has locked before.
FreesAnother(l) ==
    l.put = "free" => /\ l.pc \in HeldDp => l.dp # Head(l.puts)
                      /\ l.pc \in HeldIp => l.ip # Head(l.puts)

Locked ==
    /\ \A p \in Procs, s \in Slots : Holds(loc[p], s) => lock[s] = p /\ inode[s].valid
    /\ \A p \in Procs : FreesAnother(loc[p])

CacheInv == DiskOK /\ ProcsOK /\ Shapes /\ CacheOK(dinode, inode) /\ Counted /\ Locked

----------------------------------------------------------------------------
(* Counting the pointers to a slot *)

One(b) == IF b THEN 1 ELSE 0

\* How often f, of four to six entries, leads to s.
Ones(f, s) == One(f[1] = s) + One(f[2] = s) + One(f[3] = s) + One(f[4] = s)
              + One(Len(f) >= 5 /\ f[5] = s) + One(Len(f) >= 6 /\ f[6] = s)

\* The entries of the sequences F[q], q in S, that lead to s.
To(F, S, s) == {x \in S \X (1 .. 6) : x[2] <= Len(F[x[1]]) /\ F[x[1]][x[2]] = s}

LEMMA UpTo ==
    ASSUME NEW m \in Int, NEW n \in Int
    PROVE  IsFiniteSet(m .. n) /\ Cardinality(m .. n) = IF m > n THEN 0 ELSE n - m + 1
BY FS_Interval

LEMMA AddIf ==
    ASSUME NEW S, NEW T, NEW x, NEW b \in BOOLEAN, IsFiniteSet(S), x \notin S,
           T = IF b THEN S \cup {x} ELSE S
    PROVE  IsFiniteSet(T) /\ Cardinality(T) = Cardinality(S) + One(b)
<1>1. Cardinality(S) \in Nat
  BY FS_CardinalityType
<1>2. CASE b
  <2>1. IsFiniteSet(S \cup {x}) /\ Cardinality(S \cup {x}) = Cardinality(S) + 1
    BY FS_AddElement
  <2> QED BY <1>1, <1>2, <2>1 DEF One
<1>3. CASE ~b
  BY <1>1, <1>3 DEF One
<1> QED BY <1>2, <1>3

\* The entries of one process, split off.
LEMMA ToSplit ==
    ASSUME NEW F, NEW S, IsFiniteSet(S), NEW p \in S, NEW s, Len(F[p]) \in 4 .. 6
    PROVE  /\ IsFiniteSet(To(F, S, s)) /\ IsFiniteSet(To(F, S \ {p}, s))
           /\ Cardinality(To(F, S, s)) = Cardinality(To(F, S \ {p}, s)) + Ones(F[p], s)
<1> DEFINE Q0 == To(F, S \ {p}, s)
           In(k) == k <= Len(F[p]) /\ F[p][k] = s
           Q(n) == Q0 \cup {x \in {p} \X (1 .. n) : In(x[2])}
<1>1. IsFiniteSet(Q0) /\ IsFiniteSet(To(F, S, s))
  <2>1. IsFiniteSet(1 .. 6)
    <3>1. \A n \in Nat, M \in SUBSET Nat : (\A x \in M : x <= n) => IsFiniteSet(M)
      BY FS_BoundedSetOfNaturals
    <3>2. 1 .. 6 \in SUBSET Nat /\ \A x \in 1 .. 6 : x <= 6
      OBVIOUS
    <3> QED BY <3>1, <3>2
  <2>2. IsFiniteSet(S \X (1 .. 6))
    BY <2>1, FS_Product
  <2>3. To(F, S, s) \subseteq S \X (1 .. 6) /\ Q0 \subseteq S \X (1 .. 6)
    BY DEF To
  <2> QED BY <2>2, <2>3, FS_Subset
<1>2. Q(0) = Q0
  <2>1. 1 .. 0 = {}
    OBVIOUS
  <2> QED BY <2>1
<1>3. To(F, S, s) = Q(6)
  <2>1. \A x : x \in To(F, S, s) => x \in Q(6)
    BY DEF To
  <2>2. \A x : x \in Q(6) => x \in To(F, S, s)
    BY DEF To
  <2> QED BY <2>1, <2>2
<1>4. ASSUME NEW n \in 1 .. 6, IsFiniteSet(Q(n - 1))
      PROVE  IsFiniteSet(Q(n)) /\ Cardinality(Q(n)) = Cardinality(Q(n - 1)) + One(In(n))
  <2>1. Q(n) = IF In(n) THEN Q(n - 1) \cup {<<p, n>>} ELSE Q(n - 1)
    <3>1. 1 .. n = (1 .. n - 1) \cup {n}
      OBVIOUS
    <3> HIDE DEF Q0, In
    <3>2. \A x : x \in {p} \X (1 .. n) /\ In(x[2])
                 <=> (x \in {p} \X (1 .. n - 1) /\ In(x[2])) \/ (x = <<p, n>> /\ In(n))
      BY <3>1
    <3> QED BY <3>2
  <2>2. <<p, n>> \notin Q(n - 1)
    <3>1. <<p, n>> \notin Q0
      BY DEF To
    <3> HIDE DEF Q0, In
    <3> QED BY <3>1
  <2> HIDE DEF Q, Q0
  <2> QED BY <2>1, <2>2, <1>4, AddIf
<1>5. Cardinality(Q(6)) = Cardinality(Q(0)) + One(In(1)) + One(In(2)) + One(In(3)) + One(In(4))
                          + One(In(5)) + One(In(6))
  <2>0. IsFiniteSet(Q(0))
    BY <1>1, <1>2
  <2> HIDE DEF Q, In, Q0
  <2>1. IsFiniteSet(Q(1)) /\ Cardinality(Q(1)) = Cardinality(Q(0)) + One(In(1))
    BY <1>4, <2>0
  <2>2. IsFiniteSet(Q(2)) /\ Cardinality(Q(2)) = Cardinality(Q(1)) + One(In(2))
    BY <1>4, <2>1
  <2>3. IsFiniteSet(Q(3)) /\ Cardinality(Q(3)) = Cardinality(Q(2)) + One(In(3))
    BY <1>4, <2>2
  <2>4. IsFiniteSet(Q(4)) /\ Cardinality(Q(4)) = Cardinality(Q(3)) + One(In(4))
    BY <1>4, <2>3
  <2>5. IsFiniteSet(Q(5)) /\ Cardinality(Q(5)) = Cardinality(Q(4)) + One(In(5))
    BY <1>4, <2>4
  <2>6. IsFiniteSet(Q(6)) /\ Cardinality(Q(6)) = Cardinality(Q(5)) + One(In(6))
    BY <1>4, <2>5
  <2>7. Cardinality(Q(0)) \in Nat
    BY <2>0, FS_CardinalityType
  <2>8. One(In(1)) \in Nat /\ One(In(2)) \in Nat /\ One(In(3)) \in Nat
        /\ One(In(4)) \in Nat /\ One(In(5)) \in Nat /\ One(In(6)) \in Nat
    BY DEF One
  <2> QED BY <2>1, <2>2, <2>3, <2>4, <2>5, <2>6, <2>7, <2>8
<1>6. Ones(F[p], s) = One(In(1)) + One(In(2)) + One(In(3)) + One(In(4)) + One(In(5)) + One(In(6))
  BY DEF Ones, One
<1> QED
  <2>1. Cardinality(Q0) \in Nat
    BY <1>1, FS_CardinalityType
  <2>2. One(In(1)) \in Nat /\ One(In(2)) \in Nat /\ One(In(3)) \in Nat
        /\ One(In(4)) \in Nat /\ One(In(5)) \in Nat /\ One(In(6)) \in Nat
    BY DEF One
  <2> HIDE DEF Q, In, Q0
  <2>3. Cardinality(To(F, S, s)) = Cardinality(Q0) + Ones(F[p], s)
    BY <1>2, <1>3, <1>5, <1>6, <2>1, <2>2
  <2> QED BY <1>1, <2>3 DEF Q0

\* How many pointers a process with the current directory c, the open file o
\* and the locals l has to slot s.
Own(c, o, l, s) ==
    One(c = s) + One(o = s) + One(l.ip = s) + One(l.dp = s)
    + One(Len(l.puts) >= 1 /\ l.puts[1] = s) + One(Len(l.puts) >= 2 /\ l.puts[2] = s)

PtrSeq(c, o, l) == <<c, o, l.ip, l.dp>> \o l.puts

LEMMA PtrSeqOnes ==
    ASSUME NEW c, NEW o, NEW l, l.puts \in Seq(Slots), Len(l.puts) <= 2, NEW s
    PROVE  /\ Len(PtrSeq(c, o, l)) \in 4 .. 6
           /\ DOMAIN PtrSeq(c, o, l) = 1 .. Len(PtrSeq(c, o, l))
           /\ Ones(PtrSeq(c, o, l), s) = Own(c, o, l, s)
<1> DEFINE f == PtrSeq(c, o, l)
           a == <<c, o, l.ip, l.dp>>
<1>0. Len(l.puts) \in Nat
  OBVIOUS
<1>1. Len(f) = 4 + Len(l.puts) /\ DOMAIN f = 1 .. Len(f)
  BY DEF PtrSeq
<1>2. f[1] = c /\ f[2] = o /\ f[3] = l.ip /\ f[4] = l.dp
  BY DEF PtrSeq
<1>3. (Len(l.puts) >= 1 => f[5] = l.puts[1]) /\ (Len(l.puts) >= 2 => f[6] = l.puts[2])
  BY DEF PtrSeq
<1> HIDE DEF f
<1>4. Ones(f, s) = Own(c, o, l, s)
  <2>1. One(Len(f) >= 5 /\ f[5] = s) = One(Len(l.puts) >= 1 /\ l.puts[1] = s)
    BY <1>0, <1>1, <1>3 DEF One
  <2>2. One(Len(f) >= 6 /\ f[6] = s) = One(Len(l.puts) >= 2 /\ l.puts[2] = s)
    BY <1>0, <1>1, <1>3 DEF One
  <2> QED BY <1>2, <2>1, <2>2 DEF Ones, Own
<1>5. Len(f) \in 4 .. 6
  BY <1>0, <1>1
<1> QED BY <1>1, <1>4, <1>5 DEF f

LEMMA ToIsUnion ==
    ASSUME NEW F, NEW S, NEW s,
           \A q \in S : Len(F[q]) \in 4 .. 6 /\ DOMAIN F[q] = 1 .. Len(F[q])
    PROVE  UNION {{<<q, k>> : k \in {j \in DOMAIN F[q] : F[q][j] = s}} : q \in S} = To(F, S, s)
<1> DEFINE U == UNION {{<<q, k>> : k \in {j \in DOMAIN F[q] : F[q][j] = s}} : q \in S}
<1>1. ASSUME NEW x \in U PROVE x \in To(F, S, s)
  <2>1. PICK q \in S : x \in {<<q, k>> : k \in {j \in DOMAIN F[q] : F[q][j] = s}}
    OBVIOUS
  <2>2. PICK k \in DOMAIN F[q] : x = <<q, k>> /\ F[q][k] = s
    BY <2>1
  <2>3. k \in 1 .. 6 /\ k <= Len(F[q])
    BY <2>2
  <2> QED BY <2>2, <2>3 DEF To
<1>2. ASSUME NEW x \in To(F, S, s) PROVE x \in U
  <2>1. PICK q \in S, k \in 1 .. 6 : x = <<q, k>> /\ k <= Len(F[q]) /\ F[q][k] = s
    BY DEF To
  <2>2. k \in DOMAIN F[q]
    BY <2>1
  <2> QED BY <2>1, <2>2
<1> QED BY <1>1, <1>2

Shaped == {l \in Locals : Shape(l)}

\* The pointers to s of the processes in S, with the current directories C, the
\* open files O and the locals L.
PtrsTo(C, O, L, S, s) == To([q \in Procs |-> PtrSeq(C[q], O[q], L[q])], S, s)

LEMMA PtrSeqs ==
    ASSUME NEW C, NEW O, NEW L \in [Procs -> Shaped],
           NEW q \in Procs, NEW s
    PROVE  /\ Len(PtrSeq(C[q], O[q], L[q])) \in 4 .. 6
           /\ DOMAIN PtrSeq(C[q], O[q], L[q]) = 1 .. Len(PtrSeq(C[q], O[q], L[q]))
           /\ Ones(PtrSeq(C[q], O[q], L[q]), s) = Own(C[q], O[q], L[q], s)
<1>1. L[q].puts \in Seq(Slots) /\ Len(L[q].puts) <= 2
  BY DEF Locals, Shape, Shaped
<1>2. PICK c, o, l : c = C[q] /\ o = O[q] /\ l = L[q]
  OBVIOUS
<1>3. l.puts \in Seq(Slots) /\ Len(l.puts) <= 2
  BY <1>1, <1>2
<1>4. /\ Len(PtrSeq(c, o, l)) \in 4 .. 6
      /\ DOMAIN PtrSeq(c, o, l) = 1 .. Len(PtrSeq(c, o, l))
      /\ Ones(PtrSeq(c, o, l), s) = Own(c, o, l, s)
  BY <1>3, PtrSeqOnes
<1> QED BY <1>2, <1>4

LEMMA PtrsUnion ==
    ASSUME NEW C, NEW O, NEW L \in [Procs -> Shaped], NEW s
    PROVE  UNION {{<<q, k>> : k \in {j \in DOMAIN PtrSeq(C[q], O[q], L[q]) :
                                          PtrSeq(C[q], O[q], L[q])[j] = s}} : q \in Procs}
               = PtrsTo(C, O, L, Procs, s)
<1> DEFINE F == [q \in Procs |-> PtrSeq(C[q], O[q], L[q])]
<1>1. \A q \in Procs : F[q] = PtrSeq(C[q], O[q], L[q])
  OBVIOUS
<1>2. PtrsTo(C, O, L, Procs, s) = To(F, Procs, s)
  BY DEF PtrsTo
<1> HIDE DEF F
<1>3. \A q \in Procs : Len(F[q]) \in 4 .. 6 /\ DOMAIN F[q] = 1 .. Len(F[q])
  BY <1>1, PtrSeqs, SMTT(30)
<1>4. UNION {{<<q, k>> : k \in {j \in DOMAIN F[q] : F[q][j] = s}} : q \in Procs} = To(F, Procs, s)
  BY <1>3, ToIsUnion
<1> QED BY <1>1, <1>2, <1>4

LEMMA PtrsSplit ==
    ASSUME NEW C, NEW O, NEW L \in [Procs -> Shaped],
           NEW p \in Procs, NEW s
    PROVE  /\ IsFiniteSet(PtrsTo(C, O, L, Procs, s)) /\ IsFiniteSet(PtrsTo(C, O, L, Procs \ {p}, s))
           /\ Cardinality(PtrsTo(C, O, L, Procs, s))
                  = Cardinality(PtrsTo(C, O, L, Procs \ {p}, s)) + Own(C[p], O[p], L[p], s)
<1> DEFINE F == [q \in Procs |-> PtrSeq(C[q], O[q], L[q])]
<1>1. F[p] = PtrSeq(C[p], O[p], L[p])
  OBVIOUS
<1>2. PtrsTo(C, O, L, Procs, s) = To(F, Procs, s) /\ PtrsTo(C, O, L, Procs \ {p}, s) = To(F, Procs \ {p}, s)
  BY DEF PtrsTo
<1>3. IsFiniteSet(Procs)
  BY FsAssumption
<1> HIDE DEF F
<1>5. Len(PtrSeq(C[p], O[p], L[p])) \in 4 .. 6
  BY PtrSeqs
<1>6. Ones(PtrSeq(C[p], O[p], L[p]), s) = Own(C[p], O[p], L[p], s)
  BY PtrSeqs
<1>4. Len(F[p]) \in 4 .. 6 /\ Ones(F[p], s) = Own(C[p], O[p], L[p], s)
  BY <1>1, <1>5, <1>6
<1> QED BY <1>2, <1>3, <1>4, ToSplit

LEMMA PointersSplit ==
    ASSUME loc \in [Procs -> Locals], Shapes, NEW p \in Procs, NEW s
    PROVE  /\ PointersTo(s) = PtrsTo(cwd, ofile, loc, Procs, s)
           /\ IsFiniteSet(PointersTo(s)) /\ IsFiniteSet(PtrsTo(cwd, ofile, loc, Procs \ {p}, s))
           /\ Cardinality(PointersTo(s))
                  = Cardinality(PtrsTo(cwd, ofile, loc, Procs \ {p}, s)) + Own(cwd[p], ofile[p], loc[p], s)
<1>1. PointersTo(s) = UNION {{<<q, k>> : k \in {j \in DOMAIN PtrSeq(cwd[q], ofile[q], loc[q]) :
                                 PtrSeq(cwd[q], ofile[q], loc[q])[j] = s}} : q \in Procs}
  BY DEF PointersTo, Pointers, PtrSeq
<1>2. loc \in [Procs -> Shaped]
  BY DEF Shapes, Shaped
<1>3. PointersTo(s) = PtrsTo(cwd, ofile, loc, Procs, s)
  BY <1>1, <1>2, PtrsUnion, Zenon
<1>4. IsFiniteSet(PtrsTo(cwd, ofile, loc, Procs, s)) /\ IsFiniteSet(PtrsTo(cwd, ofile, loc, Procs \ {p}, s))
  BY <1>2, PtrsSplit
<1>5. Cardinality(PtrsTo(cwd, ofile, loc, Procs, s))
        = Cardinality(PtrsTo(cwd, ofile, loc, Procs \ {p}, s)) + Own(cwd[p], ofile[p], loc[p], s)
  BY <1>2, PtrsSplit
<1> QED BY <1>3, <1>4, <1>5

LEMMA OwnNat ==
    ASSUME NEW c, NEW o, NEW l, NEW s
    PROVE  Own(c, o, l, s) \in Nat
BY DEF Own, One

\* A step of p changes the pointers of p only.
LEMMA RefsMove ==
    ASSUME loc \in [Procs -> Locals], Shapes, loc' \in [Procs -> Locals], Shapes', NEW p \in Procs,
           \A q \in Procs \ {p} : cwd'[q] = cwd[q] /\ ofile'[q] = ofile[q] /\ loc'[q] = loc[q],
           NEW s
    PROVE  /\ Cardinality(PointersTo(s)) \in Nat
           /\ Cardinality(PointersTo(s)') = Cardinality(PointersTo(s))
                  - Own(cwd[p], ofile[p], loc[p], s) + Own(cwd'[p], ofile'[p], loc'[p], s)
<1> DEFINE A == PtrsTo(cwd, ofile, loc, Procs \ {p}, s)
           B == PtrsTo(cwd', ofile', loc', Procs \ {p}, s)
<1>1. IsFiniteSet(PointersTo(s)) /\ IsFiniteSet(A)
      /\ Cardinality(PointersTo(s)) = Cardinality(A) + Own(cwd[p], ofile[p], loc[p], s)
  BY PointersSplit
<1>2. Cardinality(PointersTo(s)') = Cardinality(B) + Own(cwd'[p], ofile'[p], loc'[p], s)
  <2>1. PointersTo(s)' = UNION {{<<q, k>> : k \in {j \in DOMAIN PtrSeq(cwd'[q], ofile'[q], loc'[q]) :
                                 PtrSeq(cwd'[q], ofile'[q], loc'[q])[j] = s}} : q \in Procs}
    BY DEF PointersTo, Pointers, PtrSeq
  <2>2. loc' \in [Procs -> Shaped]
    BY DEF Shapes, Shape, Shaped
  <2>3. PointersTo(s)' = PtrsTo(cwd', ofile', loc', Procs, s)
    BY <2>1, <2>2, PtrsUnion, Zenon
  <2> QED BY <2>2, <2>3, PtrsSplit
<1>3. A = B
  BY DEF PtrsTo, To
<1>4. Cardinality(A) \in Nat /\ Cardinality(PointersTo(s)) \in Nat
  BY <1>1, FS_CardinalityType
<1>5. Own(cwd[p], ofile[p], loc[p], s) \in Nat /\ Own(cwd'[p], ofile'[p], loc'[p], s) \in Nat
  BY OwnNat
<1> HIDE DEF A, B
<1> QED BY <1>1, <1>2, <1>3, <1>4, <1>5

----------------------------------------------------------------------------
(* What the operations of the cache do to it *)

\* A non-empty set of natural numbers has a least element.
LEMMA MinIn ==
    ASSUME NEW T \in SUBSET Nat, T # {}
    PROVE  Min(T) \in T /\ \A y \in T : Min(T) <= y
<1> DEFINE R == OpToRel(<, Nat)
<1>1. IsWellFoundedOn(R, Nat)
  BY NatLessThanWellFounded
<1>2. PICK x \in T : \A y \in T : ~(<<y, x>> \in R)
  <2> HIDE DEF R
  <2> QED BY <1>1, WFMin
<1>3. \A y \in T : ~(y < x)
  BY <1>2 DEF OpToRel
<1>4. \A y \in T : x <= y
  BY <1>3
<1>5. Min(T) = CHOOSE u \in T : \A y \in T : u <= y
  BY DEF Min
<1> QED BY <1>4, <1>5

SameRefs(c) == /\ c \in [Slots -> Slot]
               /\ \A s \in Slots : c[s].ref = inode[s].ref /\ c[s].inum = inode[s].inum

LEMMA SlotType ==
    ASSUME NEW D, NEW c, CacheOK(D, c), NEW s \in Slots
    PROVE  /\ c[s].ref \in Nat /\ c[s].inum \in 0 .. NInodes /\ c[s].valid \in BOOLEAN /\ c[s].d \in DInode
           /\ c[s] = [ref |-> c[s].ref, inum |-> c[s].inum, valid |-> c[s].valid, d |-> c[s].d]
BY DEF CacheOK, Slot

LEMMA IgetSlotIs ==
    ASSUME CacheOK(dinode, inode), NEW i \in Inums, CanGet(i)
    PROVE  /\ IgetSlot(i) \in Slots
           /\ Cached(i) # {} => inode[IgetSlot(i)].ref > 0 /\ inode[IgetSlot(i)].inum = i
           /\ Cached(i) = {} => inode[IgetSlot(i)].ref = 0
<1>1. Cached(i) \in SUBSET Nat /\ Unused \in SUBSET Nat
  BY DEF Cached, Unused, Slots
<1>2. CASE Cached(i) # {}
  <2>1. IgetSlot(i) \in Cached(i)
    BY <1>1, <1>2, MinIn DEF IgetSlot
  <2> QED BY <1>2, <2>1 DEF Cached
<1>3. CASE Cached(i) = {}
  <2>1. Unused # {}
    BY <1>3 DEF CanGet
  <2>2. IgetSlot(i) \in Unused
    BY <1>1, <1>3, <2>1, MinIn DEF IgetSlot
  <2> QED BY <1>3, <2>2 DEF Unused
<1> QED BY <1>2, <1>3

LEMMA IgetOK ==
    ASSUME CacheOK(dinode, inode), NEW D, NEW c, SameRefs(c), CacheOK(D, c), NEW i \in Inums, CanGet(i)
    PROVE  /\ CacheOK(D, Iget(c, i))
           /\ IgetSlot(i) \in Slots
           /\ Iget(c, i)[IgetSlot(i)].inum = i
           /\ \A s \in Slots : Iget(c, i)[s].ref = inode[s].ref + (IF s = IgetSlot(i) THEN 1 ELSE 0)
           /\ \A s \in Slots : s # IgetSlot(i) => Iget(c, i)[s] = c[s]
           /\ \A s \in Slots : inode[s].ref > 0 =>
                 /\ Iget(c, i)[s].inum = c[s].inum
                 /\ Iget(c, i)[s].valid = c[s].valid
                 /\ Iget(c, i)[s].d = c[s].d
<1> DEFINE t == IgetSlot(i)
           e == Iget(c, i)
<1>1. /\ t \in Slots
      /\ Cached(i) # {} => inode[t].ref > 0 /\ inode[t].inum = i
      /\ Cached(i) = {} => inode[t].ref = 0
  BY IgetSlotIs
<1>2. \A s \in Slots : inode[s].ref \in Nat /\ inode[s].inum \in 0 .. NInodes
  BY SlotType
<1>3. \A s \in Slots : c[s].ref = inode[s].ref /\ c[s].inum = inode[s].inum
  BY DEF SameRefs
<1>4. c \in [Slots -> Slot]
  BY DEF SameRefs
<1>5. i \in 0 .. NInodes
  BY DEF Inums
<1>6. CASE Cached(i) # {}
  <2>1. e = [c EXCEPT ![t].ref = @ + 1]
    BY <1>6 DEF Iget
  <2> HIDE DEF t, e
  <2>2. \A s \in Slots : s # t => e[s] = c[s]
    BY <1>4, <2>1
  <2>3. e[t] = [c[t] EXCEPT !.ref = @ + 1]
    BY <1>1, <1>4, <2>1
  <2>4. c[t] \in Slot
    BY <1>1, <1>4
  <2>5. e[t].ref = c[t].ref + 1 /\ e[t].inum = c[t].inum /\ e[t].valid = c[t].valid /\ e[t].d = c[t].d
        /\ e[t] \in Slot
    BY <2>3, <2>4 DEF Slot
  <2>6. e \in [Slots -> Slot]
    BY <2>1, <2>2, <2>5, <1>4
  <2>7. \A s \in Slots : /\ e[s].ref = c[s].ref + (IF s = t THEN 1 ELSE 0)
                         /\ e[s].inum = c[s].inum /\ e[s].valid = c[s].valid /\ e[s].d = c[s].d
                         /\ (e[s].ref > 0) = (c[s].ref > 0)
    BY <2>2, <2>5, <1>2, <1>3, <1>1, <1>6
  <2>8. CacheOK(D, e)
    BY <2>6, <2>7 DEF CacheOK
  <2> QED BY <1>1, <1>3, <1>6, <2>2, <2>7, <2>8 DEF t, e
<1>7. CASE Cached(i) = {}
  <2>1. e = [c EXCEPT ![t].ref = 1, ![t].inum = i, ![t].valid = FALSE]
    BY <1>7 DEF Iget
  <2>0. \A s \in Slots : inode[s].ref > 0 => inode[s].inum # i
    BY <1>7 DEF Cached
  <2> HIDE DEF t, e
  <2>2. \A s \in Slots : s # t => e[s] = c[s]
    BY <1>4, <2>1
  <2>3. e[t] = [c[t] EXCEPT !.ref = 1, !.inum = i, !.valid = FALSE]
    BY <1>1, <1>4, <2>1
  <2>4. c[t] \in Slot
    BY <1>1, <1>4
  <2>5. e[t].ref = 1 /\ e[t].inum = i /\ e[t].valid = FALSE /\ e[t].d = c[t].d /\ e[t] \in Slot
    <3>1. e[t] = [ref |-> 1, inum |-> i, valid |-> FALSE, d |-> c[t].d] /\ c[t].d \in DInode
      BY <2>3, <2>4 DEF Slot
    <3> QED BY <3>1, <1>5 DEF Slot
  <2>6. e \in [Slots -> Slot]
    BY <2>1, <2>2, <2>5, <1>4
  <2>7. \A s \in Slots : e[s].ref = inode[s].ref + (IF s = t THEN 1 ELSE 0)
    BY <2>2, <2>5, <1>1, <1>2, <1>3, <1>7
  <2>8. CacheOK(D, e)
    <3>1. \A s \in Slots : e[s].ref > 0 => e[s].inum \in Inums
      BY <2>2, <2>5 DEF CacheOK
    <3>2. \A s, u \in Slots : s # u /\ e[s].ref > 0 /\ e[u].ref > 0 => e[s].inum # e[u].inum
      BY <2>0, <2>2, <2>5, <1>3 DEF CacheOK
    <3>3. \A s \in Slots : e[s].ref > 0 /\ e[s].valid => e[s].d = D[e[s].inum] /\ e[s].d.type # "none"
      BY <2>2, <2>5 DEF CacheOK
    <3> QED BY <2>6, <3>1, <3>2, <3>3 DEF CacheOK
  <2>9. \A s \in Slots : inode[s].ref > 0 => e[s] = c[s]
    BY <2>2, <1>1, <1>7
  <2> QED BY <1>1, <2>2, <2>5, <2>7, <2>8, <2>9 DEF t, e
<1> QED BY <1>6, <1>7

\* The function D with d at i.
With(D, i, d) == [D EXCEPT ![i] = d]

LEMMA StoreOK ==
    ASSUME NEW D \in [Inums -> DInode], NEW c, CacheOK(D, c), NEW s \in Slots, c[s].ref > 0,
           NEW d \in DInode, d.type # "none", NEW i, i = c[s].inum
    PROVE  /\ CacheOK(With(D, i, d), Store(c, s, d))
           /\ With(D, i, d) \in [Inums -> DInode]
           /\ With(D, i, d)[i] = d /\ \A j \in Inums : j # i => With(D, i, d)[j] = D[j]
           /\ Store(c, s, d)[s].valid /\ Store(c, s, d)[s].d = d
           /\ \A t \in Slots : /\ Store(c, s, d)[t].ref = c[t].ref
                               /\ Store(c, s, d)[t].inum = c[t].inum
                               /\ t # s => Store(c, s, d)[t] = c[t]
<1> DEFINE e == Store(c, s, d)
           E == With(D, i, d)
<1>1. e = [c EXCEPT ![s].valid = TRUE, ![s].d = d]
  BY DEF Store
<1>2. c \in [Slots -> Slot] /\ c[s] \in Slot
  BY DEF CacheOK
<1> HIDE DEF e
<1>3. \A t \in Slots : t # s => e[t] = c[t]
  BY <1>1, <1>2
<1>4. e[s] = [ref |-> c[s].ref, inum |-> c[s].inum, valid |-> TRUE, d |-> d]
  BY <1>1, <1>2 DEF Slot
<1>5. e[s] \in Slot
  BY <1>2, <1>4 DEF Slot
<1>6. e \in [Slots -> Slot]
  BY <1>1, <1>2, <1>3, <1>5
<1>7. i \in Inums
  BY DEF CacheOK
<1>8. E \in [Inums -> DInode] /\ E[i] = d /\ \A j \in Inums : j # i => E[j] = D[j]
  BY <1>7 DEF With
<1> HIDE DEF E
<1>9. \A t \in Slots : e[t].ref = c[t].ref /\ e[t].inum = c[t].inum
  BY <1>3, <1>4
<1>10. CacheOK(E, e)
  <2>1. \A t \in Slots : e[t].ref > 0 => e[t].inum \in Inums
    BY <1>9 DEF CacheOK
  <2>2. \A t, u \in Slots : t # u /\ e[t].ref > 0 /\ e[u].ref > 0 => e[t].inum # e[u].inum
    BY <1>9 DEF CacheOK
  <2>3. ASSUME NEW t \in Slots, e[t].ref > 0, e[t].valid
        PROVE  e[t].d = E[e[t].inum] /\ e[t].d.type # "none"
    <3>1. CASE t = s
      BY <3>1, <1>4, <1>8
    <3>2. CASE t # s
      <4>1. c[t].inum # i /\ c[t].inum \in Inums
        BY <3>2, <2>3, <1>9 DEF CacheOK
      <4>2. c[t].d = D[c[t].inum] /\ c[t].d.type # "none"
        BY <3>2, <2>3, <1>3 DEF CacheOK
      <4> QED BY <3>2, <4>1, <4>2, <1>3, <1>8
    <3> QED BY <3>1, <3>2
  <2> QED BY <1>6, <2>1, <2>2, <2>3 DEF CacheOK
<1> QED BY <1>3, <1>4, <1>8, <1>9, <1>10 DEF e, E

\* ilock: the copy is that of the disk, and the cache is as good as before.
LEMMA LoadOK ==
    ASSUME dinode \in [Inums -> DInode], CacheOK(dinode, inode),
           NEW s \in Slots, inode[s].ref > 0, inode[s].valid \/ Content(s).type # "none"
    PROVE  /\ Content(s) \in DInode /\ Content(s) = dinode[inode[s].inum] /\ Content(s).type # "none"
           /\ inode[s].inum \in Inums
           /\ CacheOK(dinode, Load(s)) /\ SameRefs(Load(s))
           /\ Load(s)[s].valid /\ Load(s)[s].d = Content(s)
           /\ \A t \in Slots : t # s => Load(s)[t] = inode[t]
           /\ \A t \in Slots : inode[t].valid => Load(s)[t].valid
<1>1. inode[s].inum \in Inums
  BY DEF CacheOK
<1>2. Content(s) = dinode[inode[s].inum] /\ Content(s).type # "none" /\ Content(s) \in DInode
  <2>1. CASE inode[s].valid
    BY <2>1, <1>1 DEF Content, CacheOK
  <2>2. CASE ~inode[s].valid
    BY <2>2, <1>1 DEF Content
  <2> QED BY <2>1, <2>2
<1>3. With(dinode, inode[s].inum, Content(s)) = dinode
  BY <1>1, <1>2 DEF With
<1>4. /\ CacheOK(dinode, Load(s))
      /\ Load(s)[s].valid /\ Load(s)[s].d = Content(s)
      /\ \A t \in Slots : /\ Load(s)[t].ref = inode[t].ref
                          /\ Load(s)[t].inum = inode[t].inum
                          /\ t # s => Load(s)[t] = inode[t]
  BY <1>2, <1>3, StoreOK DEF Load
<1>5. Load(s) \in [Slots -> Slot]
  BY <1>4 DEF CacheOK
<1> QED BY <1>1, <1>2, <1>4, <1>5 DEF SameRefs

\* idup.
Dupped(c, s) == [c EXCEPT ![s].ref = @ + 1]

LEMMA DupOK ==
    ASSUME NEW D, NEW c, CacheOK(D, c), NEW s \in Slots, c[s].ref > 0,
           NEW e, e = Dupped(c, s)
    PROVE  /\ CacheOK(D, e)
           /\ \A t \in Slots : /\ e[t].ref = c[t].ref + (IF t = s THEN 1 ELSE 0)
                               /\ e[t].inum = c[t].inum /\ e[t].valid = c[t].valid /\ e[t].d = c[t].d
<1>1. c \in [Slots -> Slot] /\ c[s] \in Slot
  BY DEF CacheOK
<1>2. \A t \in Slots : t # s => e[t] = c[t]
  BY <1>1 DEF Dupped
<1>3. e[s] = [ref |-> c[s].ref + 1, inum |-> c[s].inum, valid |-> c[s].valid, d |-> c[s].d]
  BY <1>1 DEF Slot, Dupped
<1>4. e[s] \in Slot
  BY <1>1, <1>3 DEF Slot
<1>5. e \in [Slots -> Slot]
  BY <1>1, <1>2, <1>4 DEF Dupped
<1>6. \A t \in Slots : /\ e[t].ref = c[t].ref + (IF t = s THEN 1 ELSE 0)
                       /\ e[t].inum = c[t].inum /\ e[t].valid = c[t].valid /\ e[t].d = c[t].d
                       /\ e[t].ref > 0 => c[t].ref > 0
  BY <1>1, <1>2, <1>3 DEF Slot
<1> QED BY <1>5, <1>6 DEF CacheOK

\* The last part of iput.
Dropped(c, s) == [c EXCEPT ![s] = IF c[s].ref = 1 THEN [EmptySlot EXCEPT !.valid = c[s].valid]
                                  ELSE [c[s] EXCEPT !.ref = @ - 1]]

LEMMA DropOK ==
    ASSUME NEW D, NEW c, CacheOK(D, c), NEW s \in Slots, c[s].ref > 0,
           NEW e, e = Dropped(c, s)
    PROVE  /\ CacheOK(D, e)
           /\ \A t \in Slots : /\ e[t].ref = c[t].ref - (IF t = s THEN 1 ELSE 0)
                               /\ t # s => e[t] = c[t]
                               /\ e[t].valid = c[t].valid
                               /\ e[t].ref > 0 => e[t].inum = c[t].inum /\ e[t].d = c[t].d
<1>1. c \in [Slots -> Slot] /\ c[s] \in Slot
  BY DEF CacheOK
<1>2. \A t \in Slots : t # s => e[t] = c[t]
  BY <1>1 DEF Dropped
<1>3. e[s] = IF c[s].ref = 1 THEN [ref |-> 0, inum |-> 0, valid |-> c[s].valid, d |-> Null]
             ELSE [ref |-> c[s].ref - 1, inum |-> c[s].inum, valid |-> c[s].valid, d |-> c[s].d]
  <2>1. e[s] = IF c[s].ref = 1 THEN [EmptySlot EXCEPT !.valid = c[s].valid]
               ELSE [c[s] EXCEPT !.ref = @ - 1]
    BY <1>1 DEF Dropped
  <2>2. [EmptySlot EXCEPT !.valid = c[s].valid] = [ref |-> 0, inum |-> 0, valid |-> c[s].valid, d |-> Null]
    BY DEF EmptySlot
  <2>3. [c[s] EXCEPT !.ref = @ - 1]
          = [ref |-> c[s].ref - 1, inum |-> c[s].inum, valid |-> c[s].valid, d |-> c[s].d]
    BY <1>1 DEF Slot
  <2> QED BY <2>1, <2>2, <2>3
<1>4. e[s] \in Slot
  <2>1. Null \in DInode /\ 0 \in 0 .. NInodes
    BY FsAssumption DEF Null, DInode, NoAddrs
  <2> HIDE DEF Null
  <2>2. c[s].ref \in Nat /\ c[s].inum \in 0 .. NInodes /\ c[s].valid \in BOOLEAN /\ c[s].d \in DInode
    BY <1>1 DEF Slot
  <2>3. c[s].ref # 1 => c[s].ref - 1 \in Nat
    BY <2>2
  <2> QED BY <1>3, <2>1, <2>2, <2>3 DEF Slot
<1>5. e \in [Slots -> Slot]
  BY <1>1, <1>2, <1>4 DEF Dropped
<1>6. \A t \in Slots : /\ e[t].ref = c[t].ref - (IF t = s THEN 1 ELSE 0)
                       /\ e[t].valid = c[t].valid
                       /\ e[t].ref > 0 => c[t].ref > 0 /\ e[t].inum = c[t].inum /\ e[t].d = c[t].d
  BY <1>1, <1>2, <1>3 DEF Slot
<1>7. CacheOK(D, e)
  BY <1>5, <1>6 DEF CacheOK
<1> QED BY <1>2, <1>6, <1>7

\* The inode of a slot is freed.
LEMMA FreedOK ==
    ASSUME NEW D \in [Inums -> DInode], NEW c, CacheOK(D, c), NEW s \in Slots, c[s].ref > 0,
           NEW i, i = c[s].inum
    PROVE  /\ CacheOK(With(D, i, Null), Freed(c, s))
           /\ With(D, i, Null) \in [Inums -> DInode]
           /\ With(D, i, Null)[i] = Null /\ \A j \in Inums : j # i => With(D, i, Null)[j] = D[j]
           /\ \A t \in Slots : /\ Freed(c, s)[t].ref = c[t].ref
                               /\ Freed(c, s)[t].inum = c[t].inum
                               /\ t # s => Freed(c, s)[t] = c[t]
<1> DEFINE e == Freed(c, s)
           E == With(D, i, Null)
<1>1. e = [c EXCEPT ![s].valid = FALSE, ![s].d = Null]
  BY DEF Freed
<1>2. c \in [Slots -> Slot] /\ c[s] \in Slot
  BY DEF CacheOK
<1>3. Null \in DInode
  BY FsAssumption DEF Null, DInode, NoAddrs
<1> HIDE DEF e
<1>4. \A t \in Slots : t # s => e[t] = c[t]
  BY <1>1, <1>2
<1>5. e[s] = [ref |-> c[s].ref, inum |-> c[s].inum, valid |-> FALSE, d |-> Null]
  BY <1>1, <1>2 DEF Slot
<1>6. e[s] \in Slot
  BY <1>2, <1>3, <1>5 DEF Slot
<1>7. e \in [Slots -> Slot]
  BY <1>1, <1>2, <1>4, <1>6
<1>8. i \in Inums
  BY DEF CacheOK
<1>9. E \in [Inums -> DInode] /\ E[i] = Null /\ \A j \in Inums : j # i => E[j] = D[j]
  BY <1>3, <1>8 DEF With
<1> HIDE DEF E
<1>10. \A t \in Slots : e[t].ref = c[t].ref /\ e[t].inum = c[t].inum
  BY <1>4, <1>5
<1>11. ASSUME NEW t \in Slots, e[t].ref > 0, e[t].valid
       PROVE  e[t].d = E[e[t].inum] /\ e[t].d.type # "none"
  <2>1. t # s
    BY <1>5, <1>11
  <2>2. c[t].inum # i /\ c[t].inum \in Inums
    BY <2>1, <1>10, <1>11 DEF CacheOK
  <2>3. c[t].d = D[c[t].inum] /\ c[t].d.type # "none"
    BY <2>1, <1>4, <1>11 DEF CacheOK
  <2> QED BY <2>1, <2>2, <2>3, <1>4, <1>9
<1>12. CacheOK(E, e)
  <2>1. \A t \in Slots : e[t].ref > 0 => e[t].inum \in Inums
    BY <1>10 DEF CacheOK
  <2>2. \A t, u \in Slots : t # u /\ e[t].ref > 0 /\ e[u].ref > 0 => e[t].inum # e[u].inum
    BY <1>10 DEF CacheOK
  <2> QED BY <1>7, <1>11, <2>1, <2>2 DEF CacheOK
<1> QED BY <1>4, <1>9, <1>10, <1>12 DEF e, E

----------------------------------------------------------------------------
(* A step of one process *)

PutsOwn(x, s) == One(Len(x) >= 1 /\ x[1] = s) + One(Len(x) >= 2 /\ x[2] = s)

LEMMA OwnIs ==
    ASSUME NEW c, NEW o, NEW l, NEW s
    PROVE  Own(c, o, l, s) = One(c = s) + One(o = s) + One(l.ip = s) + One(l.dp = s) + PutsOwn(l.puts, s)
BY DEF Own, PutsOwn, One

LEMMA PutsOwnIs ==
    ASSUME NEW x, NEW s
    PROVE  /\ x = <<>> => PutsOwn(x, s) = 0
           /\ \A a : x = <<a>> => PutsOwn(x, s) = One(a = s)
           /\ \A a, b : x = <<a, b>> => PutsOwn(x, s) = One(a = s) + One(b = s)
BY DEF PutsOwn, One

LEMMA PutsOwnTail ==
    ASSUME NEW s, NEW x \in Seq(Slots), x # <<>>, Len(x) <= 2
    PROVE  PutsOwn(Tail(x), s) = PutsOwn(x, s) - One(Head(x) = s)
<1>1. Len(x) \in Nat /\ Len(x) # 0
  BY EmptySeq
<1>2. Head(x) = x[1]
  BY <1>1, HeadTailProperties
<1>3. Len(Tail(x)) = Len(x) - 1
  BY <1>1, HeadTailProperties
<1>4. Len(x) = 2 => Tail(x)[1] = x[2]
  BY <1>1, <1>3, HeadTailProperties
<1> QED BY <1>1, <1>2, <1>3, <1>4 DEF PutsOwn, One

\* The types of the locals of a process.
LEMMA LocType ==
    ASSUME ProcsOK, Shapes, NEW p \in Procs
    PROVE  /\ loc[p] \in Locals /\ Shape(loc[p])
           /\ cwd[p] \in Slots /\ ofile[p] \in 0 .. NINODE
           /\ loc[p].ip \in 0 .. NINODE /\ loc[p].dp \in 0 .. NINODE
           /\ loc[p].ip # 0 => loc[p].ip \in Slots
           /\ loc[p].dp # 0 => loc[p].dp \in Slots
           /\ ofile[p] # 0 => ofile[p] \in Slots
           /\ loc[p].puts \in Seq(Slots) /\ Len(loc[p].puts) \in Nat /\ Len(loc[p].puts) <= 2
           /\ loc[p].puts # <<>> => Head(loc[p].puts) \in Slots
<1>1. loc[p] \in Locals /\ Shape(loc[p]) /\ cwd[p] \in Slots /\ ofile[p] \in 0 .. NINODE
  BY DEF ProcsOK, Shapes
<1>2. loc[p].ip \in 0 .. NINODE /\ loc[p].dp \in 0 .. NINODE /\ loc[p].puts \in Seq(Slots)
  BY <1>1 DEF Locals
<1>3. Len(loc[p].puts) \in Nat /\ Len(loc[p].puts) <= 2
  BY <1>1, <1>2 DEF Shape
<1>4. \A s \in 0 .. NINODE : s # 0 => s \in Slots
  BY FsAssumption DEF Slots
<1>5. loc[p].puts # <<>> => Head(loc[p].puts) \in Slots
  BY <1>2
<1> QED BY <1>1, <1>2, <1>3, <1>4, <1>5

\* A slot that a pointer leads to is in use.
LEMMA PtrRef ==
    ASSUME CacheInv, NEW p \in Procs, NEW s \in Slots
    PROVE  inode[s].ref \in Nat /\ Own(cwd[p], ofile[p], loc[p], s) \in Nat
           /\ inode[s].ref >= Own(cwd[p], ofile[p], loc[p], s)
<1>1. loc \in [Procs -> Locals] /\ Shapes
  BY DEF CacheInv, ProcsOK
<1> DEFINE A == PtrsTo(cwd, ofile, loc, Procs \ {p}, s)
<1>2. IsFiniteSet(A) /\ IsFiniteSet(PointersTo(s))
  BY <1>1, PointersSplit
<1>3. Cardinality(PointersTo(s)) = Cardinality(A) + Own(cwd[p], ofile[p], loc[p], s)
  BY <1>1, PointersSplit
<1>4. inode[s].ref = Cardinality(PointersTo(s))
  BY DEF CacheInv, Counted
<1> HIDE DEF A
<1>5. Cardinality(A) \in Nat /\ Cardinality(PointersTo(s)) \in Nat
  BY <1>2, FS_CardinalityType
<1>6. Own(cwd[p], ofile[p], loc[p], s) \in Nat
  BY OwnNat
<1> QED BY <1>3, <1>4, <1>5, <1>6

LEMMA PtrRefs ==
    ASSUME CacheInv, NEW p \in Procs
    PROVE  /\ inode[cwd[p]].ref > 0
           /\ ofile[p] # 0 => inode[ofile[p]].ref > 0
           /\ loc[p].ip # 0 => inode[loc[p].ip].ref > 0
           /\ loc[p].dp # 0 => inode[loc[p].dp].ref > 0
           /\ loc[p].puts # <<>> => inode[Head(loc[p].puts)].ref > 0
<1>1. ProcsOK /\ Shapes
  BY DEF CacheInv
<1>2. ASSUME NEW s \in Slots, Own(cwd[p], ofile[p], loc[p], s) > 0 PROVE inode[s].ref > 0
  BY <1>2, PtrRef
<1>3. \A s \in Slots : \/ cwd[p] = s \/ ofile[p] = s \/ loc[p].ip = s \/ loc[p].dp = s
                       \/ Len(loc[p].puts) >= 1 /\ loc[p].puts[1] = s
                       => inode[s].ref > 0
  BY <1>2 DEF Own, One
<1>4. loc[p].puts # <<>> => Len(loc[p].puts) >= 1 /\ Head(loc[p].puts) = loc[p].puts[1]
  BY <1>1, LocType
<1> QED BY <1>1, <1>3, <1>4, LocType

\* What a step of p has to do to keep the invariant: it keeps the types, it
\* counts what it does to its pointers, it leaves alone the slots that others
\* have locked, and it has locked what it should have.
LEMMA StepInv ==
    ASSUME CacheInv, NEW p \in Procs, DiskOK',
           lock' \in [Slots -> Procs \cup {NoProc}],
           cwd' = [cwd EXCEPT ![p] = cwd'[p]], cwd'[p] \in Slots,
           ofile' = [ofile EXCEPT ![p] = ofile'[p]], ofile'[p] \in 0 .. NINODE,
           loc' = [loc EXCEPT ![p] = loc'[p]], loc'[p] \in Locals, Shape(loc'[p]),
           CacheOK(dinode', inode'),
           \A s \in Slots : inode'[s].ref = inode[s].ref - Own(cwd[p], ofile[p], loc[p], s)
                                            + Own(cwd'[p], ofile'[p], loc'[p], s),
           \A s \in Slots : lock[s] # NoProc /\ lock[s] # p /\ inode[s].ref > 0 /\ inode[s].valid
                            => lock'[s] = lock[s] /\ inode'[s].valid,
           \A s \in Slots : Holds(loc'[p], s) => lock'[s] = p /\ inode'[s].valid,
           FreesAnother(loc'[p])
    PROVE  CacheInv'
<1>1. ProcsOK /\ Shapes /\ Locked /\ Counted
  BY DEF CacheInv
<1>2. \A q \in Procs \ {p} : cwd'[q] = cwd[q] /\ ofile'[q] = ofile[q] /\ loc'[q] = loc[q]
  BY <1>1 DEF ProcsOK
<1>3. ProcsOK'
  BY <1>1 DEF ProcsOK
<1>4. Shapes'
  <2> SUFFICES ASSUME NEW q \in Procs PROVE Shape(loc'[q])
    BY DEF Shapes, Shape
  <2> QED BY <1>1, <1>2 DEF Shapes
<1>5. Counted'
  <2> SUFFICES ASSUME NEW s \in Slots PROVE inode'[s].ref = Cardinality(PointersTo(s)')
    BY DEF Counted
  <2>1. loc \in [Procs -> Locals] /\ loc' \in [Procs -> Locals]
    BY <1>1, <1>3 DEF ProcsOK
  <2>2. Cardinality(PointersTo(s)') = Cardinality(PointersTo(s))
                  - Own(cwd[p], ofile[p], loc[p], s) + Own(cwd'[p], ofile'[p], loc'[p], s)
    BY <2>1, <1>1, <1>2, <1>4, RefsMove
  <2>3. inode[s].ref = Cardinality(PointersTo(s))
    BY <1>1 DEF Counted
  <2> QED BY <2>2, <2>3
<1>6. Locked'
  <2>1. ASSUME NEW q \in Procs, NEW s \in Slots, Holds(loc'[q], s)
        PROVE  lock'[s] = q /\ inode'[s].valid
    <3>1. CASE q = p
      BY <2>1, <3>1
    <3>2. CASE q # p
      <4>1. loc'[q] = loc[q]
        BY <3>2, <1>2
      <4>2. lock[s] = q /\ inode[s].valid
        BY <4>1, <2>1, <1>1 DEF Locked
      <4>3. s = loc[q].dp \/ s = loc[q].ip \/ (loc[q].puts # <<>> /\ s = Head(loc[q].puts))
        <5>1. Shape(loc[q])
          BY <1>1 DEF Shapes
        <5> QED BY <4>1, <2>1, <5>1 DEF Holds, Shape
      <4>4. inode[s].ref > 0
        <5>1. s # 0
          BY DEF Slots
        <5> QED BY <4>3, <5>1, PtrRefs
      <4>5. lock[s] # NoProc
        BY <4>2, FsAssumption
      <4> QED BY <3>2, <4>2, <4>4, <4>5
    <3> QED BY <3>1, <3>2
  <2>2. ASSUME NEW q \in Procs PROVE FreesAnother(loc'[q])
    <3>1. CASE q = p
      BY <3>1
    <3>2. CASE q # p
      BY <3>2, <1>1, <1>2 DEF Locked
    <3> QED BY <3>1, <3>2
  <2>3. /\ \A q \in Procs, s \in Slots : Holds(loc[q], s)' => lock'[s] = q /\ inode'[s].valid
        /\ \A q \in Procs : FreesAnother(loc[q])'
    BY <2>1, <2>2 DEF Holds, FreesAnother
  <2> QED BY <2>3 DEF Locked
<1> QED BY <1>3, <1>4, <1>5, <1>6 DEF CacheInv, CacheOK

----------------------------------------------------------------------------
(* iput *)

LEMMA Unpack ==
    ASSUME CacheInv
    PROVE  /\ DiskOK /\ ProcsOK /\ Shapes /\ CacheOK(dinode, inode) /\ Counted /\ Locked
           /\ \A s \in Slots : inode[s].ref \in Nat
BY SlotType DEF CacheInv

LEMMA PutsHead ==
    ASSUME CacheInv, NEW p \in Procs, loc[p].puts # <<>>
    PROVE  /\ Head(loc[p].puts) \in Slots /\ inode[Head(loc[p].puts)].ref > 0
           /\ Head(loc[p].puts) # 0
BY Unpack, LocType, PtrRefs DEF Slots

LEMMA PutTestInv ==
    ASSUME CacheInv, NEW p \in Procs, PutTest(p)
    PROVE  CacheInv'
<1>1. PICK s : s = Head(loc[p].puts)
  OBVIOUS
<1>2. /\ loc[p].puts # <<>> /\ loc[p].put = "test" /\ lock[s] = NoProc
      /\ lock' = IF LastRef(s) THEN [lock EXCEPT ![s] = p] ELSE lock
      /\ loc' = [loc EXCEPT ![p].put = IF LastRef(s) THEN "free" ELSE "drop"]
      /\ UNCHANGED <<disk, inode, cwd, ofile, panic, calls>>
  BY <1>1 DEF PutTest, Putting
<1>3. s \in Slots /\ inode[s].ref > 0
  BY <1>1, <1>2, PutsHead
<1>4. ProcsOK /\ Shapes /\ CacheOK(dinode, inode) /\ Locked /\ DiskOK
  BY DEF CacheInv
<1>5. loc[p] \in Locals /\ Shape(loc[p])
  BY <1>4, LocType
<1>6. PICK x \in {"free", "drop"} : x = IF LastRef(s) THEN "free" ELSE "drop"
  OBVIOUS
<1>7. loc' = [loc EXCEPT ![p] = loc'[p]] /\ loc'[p] = [loc[p] EXCEPT !.put = x]
  BY <1>2, <1>4, <1>6 DEF ProcsOK
<1>8. loc'[p] \in Locals
  BY <1>5, <1>7 DEF Locals
<1>9. /\ loc'[p].pc = loc[p].pc /\ loc'[p].ip = loc[p].ip /\ loc'[p].dp = loc[p].dp
      /\ loc'[p].puts = loc[p].puts /\ loc'[p].put = x
      /\ loc'[p].call = loc[p].call /\ loc'[p].path = loc[p].path
  BY <1>5, <1>7 DEF Locals
<1>10. Shape(loc'[p])
  BY <1>2, <1>5, <1>9 DEF Shape
<1>11. lock' \in [Slots -> Procs \cup {NoProc}]
  BY <1>2, <1>3, <1>4 DEF ProcsOK
<1>12. DiskOK' /\ CacheOK(dinode', inode')
  BY <1>2, <1>4 DEF DiskOK, disk
<1>13. \A t \in Slots : inode'[t].ref = inode[t].ref - Own(cwd[p], ofile[p], loc[p], t)
                                            + Own(cwd'[p], ofile'[p], loc'[p], t)
  <2> SUFFICES ASSUME NEW t \in Slots
               PROVE  inode'[t].ref = inode[t].ref - Own(cwd[p], ofile[p], loc[p], t)
                                            + Own(cwd'[p], ofile'[p], loc'[p], t)
    OBVIOUS
  <2>1. Own(cwd'[p], ofile'[p], loc'[p], t) = Own(cwd[p], ofile[p], loc[p], t)
    BY <1>2, <1>9 DEF Own
  <2>2. inode[t].ref \in Nat /\ Own(cwd[p], ofile[p], loc[p], t) \in Nat
    BY PtrRef
  <2> QED BY <1>2, <2>1, <2>2
<1>14. \A t \in Slots : lock[t] # NoProc /\ lock[t] # p /\ inode[t].ref > 0 /\ inode[t].valid
                        => lock'[t] = lock[t] /\ inode'[t].valid
  BY <1>2, <1>3, <1>4 DEF ProcsOK
<1>15. ASSUME NEW t \in Slots, Holds(loc'[p], t) PROVE lock'[t] = p /\ inode'[t].valid
  <2>1. CASE x = "free" /\ t = s
    BY <2>1, <1>2, <1>3, <1>4, <1>6 DEF LastRef, ProcsOK
  <2>2. CASE Holds(loc[p], t)
    <3>1. lock[t] = p /\ inode[t].valid
      BY <2>2, <1>4 DEF Locked
    <3>2. lock'[t] = lock[t]
      BY <3>1, <1>2, <1>3, <1>4 DEF ProcsOK
    <3> QED BY <3>1, <3>2, <1>2
  <2> QED BY <2>1, <2>2, <1>1, <1>9, <1>15 DEF Holds
<1>16. FreesAnother(loc'[p])
  <2>1. \A t \in Slots : Holds(loc[p], t) => t # s
    BY <1>2, <1>4, FsAssumption DEF Locked
  <2>2. (loc[p].pc \in HeldDp => loc[p].dp # s) /\ (loc[p].pc \in HeldIp => loc[p].ip # s)
    BY <2>1, <1>3 DEF Holds
  <2> QED BY <2>2, <1>1, <1>9 DEF FreesAnother
<1>17. /\ cwd' = [cwd EXCEPT ![p] = cwd'[p]] /\ cwd'[p] \in Slots
       /\ ofile' = [ofile EXCEPT ![p] = ofile'[p]] /\ ofile'[p] \in 0 .. NINODE
  BY <1>2, <1>4 DEF ProcsOK
<1> QED BY <1>7, <1>8, <1>10, <1>11, <1>12, <1>13, <1>14, <1>15, <1>16, <1>17, StepInv

----------------------------------------------------------------------------
(* The locals that the steps of a call leave *)

Held == HeldDp \cup HeldIp

\* The locals of a process that has only the pointers x to give back.
IdlePuts(x) == [pc |-> "idle", call |-> "none", path |-> <<>>, new |-> NoPath,
                ip |-> 0, dp |-> 0, puts |-> x, put |-> "test"]

LEMMA IdleIs ==
    ASSUME NEW x
    PROVE  [Idle EXCEPT !.puts = x] = IdlePuts(x) /\ Idle = IdlePuts(<<>>)
BY DEF Idle, IdlePuts

LEMMA IdleOK ==
    ASSUME NEW x \in Seq(Slots), Len(x) <= 2, NEW m, m = IdlePuts(x)
    PROVE  /\ m \in Locals /\ Shape(m)
           /\ m.pc = "idle" /\ m.call = "none" /\ m.put = "test" /\ m.ip = 0 /\ m.dp = 0 /\ m.puts = x
           /\ m.path = <<>> /\ m.new = NoPath
           /\ m.pc \notin Held
<1>0. PICK e, n : e = <<>> /\ n = NoPath
  OBVIOUS
<1>1. m = [pc |-> "idle", call |-> "none", path |-> e, new |-> n,
           ip |-> 0, dp |-> 0, puts |-> x, put |-> "test"]
  BY <1>0 DEF IdlePuts
<1>2. e \in Seq(Elems) /\ n \in News /\ 0 \in 0 .. NINODE
  BY <1>0, FsAssumption DEF News
<1>3. "idle" \in Pcs
  BY DEF Pcs
<1>4. m \in Locals
  BY <1>1, <1>2, <1>3 DEF Locals
<1>5. Shape(m)
  BY <1>1 DEF Shape, HasDp, HasIp, Parent, LinkPcs
<1> QED BY <1>0, <1>1, <1>4, <1>5 DEF Held, HeldDp, HeldIp

\* What the locals are made of when a lookup of the locals l ends at slot s.
LEMMA FailedOK ==
    ASSUME NEW l \in Locals, l.ip # 0 <=> l.call = "linkto", l.put = "test",
           NEW s \in Slots, NEW m, m = Failed(l, s)
    PROVE  /\ m \in Locals /\ Shape(m) /\ m.put = "test" /\ m.pc \notin Held /\ m.puts = <<s>>
           /\ m.ip = l.ip /\ m.dp = 0 /\ m.path = <<>>
           /\ m.call = "linkto" <=> l.call = "linkto"
           /\ m.pc \in {"idle", "unlinked"}
<1>1. <<s>> \in Seq(Slots) /\ Len(<<s>>) = 1 /\ <<s>> # <<>>
  OBVIOUS
<1>2. CASE l.call = "linkto"
  <2>1. m = [l EXCEPT !.pc = "unlinked", !.puts = <<s>>, !.dp = 0, !.path = <<>>]
    BY <1>2 DEF Failed
  <2>2. /\ m.pc = "unlinked" /\ m.puts = <<s>> /\ m.dp = 0 /\ m.ip = l.ip
        /\ m.call = l.call /\ m.put = "test" /\ m.path = <<>>
    BY <2>1 DEF Locals
  <2>3. m \in Locals
    <3>1. <<>> \in Seq(Elems) /\ 0 \in 0 .. NINODE /\ "unlinked" \in Pcs
      BY FsAssumption DEF Pcs
    <3> QED BY <2>1, <3>1, <1>1 DEF Locals
  <2>4. Shape(m)
    BY <1>1, <1>2, <2>2 DEF Shape, HasDp, HasIp, Parent, LinkPcs
  <2> QED BY <1>2, <2>2, <2>3, <2>4 DEF Held, HeldDp, HeldIp
<1>3. CASE l.call # "linkto"
  <2>1. m = [Idle EXCEPT !.puts = <<s>>]
    BY <1>3 DEF Failed
  <2>2. l.ip = 0
    BY <1>3
  <2>5. PICK x : x = <<s>>
    OBVIOUS
  <2>3. x \in Seq(Slots) /\ Len(x) <= 2 /\ m = IdlePuts(x)
    BY <1>1, <2>1, <2>5, IdleIs
  <2>4. /\ m \in Locals /\ Shape(m)
        /\ m.pc = "idle" /\ m.call = "none" /\ m.put = "test" /\ m.ip = 0 /\ m.dp = 0 /\ m.puts = x
        /\ m.path = <<>> /\ m.pc \notin Held
    BY <2>3, IdleOK
  <2> QED BY <1>3, <2>2, <2>5, <2>4
<1> QED BY <1>2, <1>3

LEMMA ArriveOK ==
    ASSUME NEW l \in Locals, l.ip # 0 <=> l.call = "linkto", l.call # "none",
           l.put = "test", l.puts = <<>>,
           NEW s \in Slots, NEW q \in Seq(Elems), NEW m, m = Arrive(l, s, q)
    PROVE  /\ m \in Locals /\ Shape(m) /\ m.put = "test" /\ m.pc \notin Held
           /\ \/ q = <<>> /\ l.call \in Parent /\ m = Failed(l, s)
              \/ /\ q = <<>> /\ l.call \notin Parent
                 /\ m.ip = s /\ m.dp = 0 /\ m.puts = <<>> /\ m.pc = l.call /\ m.call = l.call
                 /\ l.ip = 0 /\ m.path = <<>>
              \/ /\ q # <<>>
                 /\ m.ip = l.ip /\ m.dp = s /\ m.puts = <<>> /\ m.pc = "walk" /\ m.call = l.call
                 /\ m.path = q
<1>0. s # 0 /\ s \in 0 .. NINODE /\ 0 \in 0 .. NINODE
  BY FsAssumption DEF Slots
<1>1. CASE q = <<>> /\ l.call \in Parent
  <2>1. m = Failed(l, s)
    BY <1>1 DEF Arrive
  <2> QED BY <1>1, <2>1, FailedOK
<1>2. CASE q = <<>> /\ l.call \notin Parent
  <2>1. m = [l EXCEPT !.ip = s, !.dp = 0, !.path = <<>>, !.pc = l.call]
    BY <1>2 DEF Arrive
  <2>2. l.call \in PathCalls /\ l.call # "linkto" /\ l.ip = 0
    BY <1>2 DEF Locals, Parent
  <2>3. l.call \in {"open", "openr", "link", "chdir"}
    BY <1>2, <2>2 DEF PathCalls, Parent
  <2>4. /\ m.pc = l.call /\ m.puts = <<>> /\ m.dp = 0 /\ m.ip = s
        /\ m.call = l.call /\ m.put = "test" /\ m.path = <<>>
    BY <2>1 DEF Locals
  <2>5. m \in Locals
    <3>1. <<>> \in Seq(Elems) /\ l.call \in Pcs
      BY <2>3 DEF Pcs, HasIp
    <3> QED BY <1>0, <2>1, <3>1 DEF Locals
  <2>6. Shape(m)
    BY <1>0, <2>3, <2>4 DEF Shape, HasDp, HasIp, Parent, LinkPcs
  <2> QED BY <1>2, <2>2, <2>3, <2>4, <2>5, <2>6 DEF Held, HeldDp, HeldIp
<1>3. CASE q # <<>>
  <2>1. m = [l EXCEPT !.dp = s, !.path = q, !.pc = "walk"]
    BY <1>3 DEF Arrive
  <2>2. /\ m.pc = "walk" /\ m.puts = <<>> /\ m.dp = s /\ m.ip = l.ip
        /\ m.call = l.call /\ m.put = "test" /\ m.path = q
    BY <2>1 DEF Locals
  <2>3. m \in Locals
    <3>1. "walk" \in Pcs
      BY DEF Pcs, HasDp
    <3> QED BY <1>0, <2>1, <3>1 DEF Locals
  <2>4. Shape(m)
    BY <1>0, <1>3, <2>2 DEF Shape, HasDp, HasIp, Parent, LinkPcs
  <2> QED BY <1>3, <2>2, <2>3, <2>4 DEF Held, HeldDp, HeldIp
<1> QED BY <1>1, <1>2, <1>3

\* A step after which p has nothing locked, of the kind that takes no lock away.
LEMMA QuietStep ==
    ASSUME CacheInv, NEW p \in Procs, DiskOK', lock' = lock,
           cwd' = [cwd EXCEPT ![p] = cwd'[p]], cwd'[p] \in Slots,
           ofile' = [ofile EXCEPT ![p] = ofile'[p]], ofile'[p] \in 0 .. NINODE,
           loc' = [loc EXCEPT ![p] = loc'[p]], loc'[p] \in Locals, Shape(loc'[p]),
           loc'[p].put # "free", loc'[p].pc \notin Held,
           CacheOK(dinode', inode'),
           \A s \in Slots : inode'[s].ref = inode[s].ref - Own(cwd[p], ofile[p], loc[p], s)
                                            + Own(cwd'[p], ofile'[p], loc'[p], s),
           \A s \in Slots : inode[s].ref > 0 /\ inode[s].valid => inode'[s].valid
    PROVE  CacheInv'
<1>1. lock' \in [Slots -> Procs \cup {NoProc}]
  BY DEF CacheInv, ProcsOK
<1>2. \A s \in Slots : ~Holds(loc'[p], s)
  BY DEF Holds, Held
<1>3. FreesAnother(loc'[p])
  BY DEF FreesAnother
<1> QED BY <1>1, <1>2, <1>3, StepInv

LEMMA StillProcs ==
    ASSUME ProcsOK, NEW p \in Procs
    PROVE  /\ cwd' = cwd => cwd' = [cwd EXCEPT ![p] = cwd'[p]] /\ cwd'[p] \in Slots
           /\ ofile' = ofile => ofile' = [ofile EXCEPT ![p] = ofile'[p]] /\ ofile'[p] \in 0 .. NINODE
BY DEF ProcsOK

LEMMA PutFreeInv ==
    ASSUME CacheInv, NEW p \in Procs, PutFree(p)
    PROVE  CacheInv'
<1>1. PICK s : s = Head(loc[p].puts)
  OBVIOUS
<1>2. /\ loc[p].puts # <<>> /\ loc[p].put = "free"
      /\ used' = used \ Truncated(inode[s].d)
      /\ dinode' = Update(dinode, s, Null)
      /\ inode' = Freed(inode, s)
      /\ lock' = [lock EXCEPT ![s] = NoProc]
      /\ loc' = [loc EXCEPT ![p].put = "drop"]
      /\ UNCHANGED <<dirent, ptr, cwd, ofile>>
  BY <1>1 DEF PutFree, Putting
<1>3. s \in Slots /\ inode[s].ref > 0
  BY <1>1, <1>2, PutsHead
<1>4. ProcsOK /\ Shapes /\ CacheOK(dinode, inode) /\ Locked /\ DiskOK
  BY DEF CacheInv
<1>5. loc[p] \in Locals /\ Shape(loc[p])
  BY <1>4, LocType
<1>6. dinode \in [Inums -> DInode]
  BY <1>4 DEF DiskOK
<1>7. /\ CacheOK(dinode', inode') /\ dinode' \in [Inums -> DInode]
      /\ \A t \in Slots : /\ inode'[t].ref = inode[t].ref
                          /\ inode'[t].inum = inode[t].inum
                          /\ t # s => inode'[t] = inode[t]
  <2>1. PICK i : i = inode[s].inum
    OBVIOUS
  <2>2. dinode' = With(dinode, i, Null)
    BY <1>2, <2>1 DEF Update, With
  <2> QED BY <1>2, <1>3, <1>4, <1>6, <2>1, <2>2, FreedOK
<1>8. DiskOK'
  BY <1>2, <1>4, <1>7 DEF DiskOK
<1>9. loc' = [loc EXCEPT ![p] = loc'[p]] /\ loc'[p] = [loc[p] EXCEPT !.put = "drop"]
  BY <1>2, <1>4 DEF ProcsOK
<1>10. loc'[p] \in Locals
  BY <1>5, <1>9 DEF Locals
<1>11. /\ loc'[p].pc = loc[p].pc /\ loc'[p].ip = loc[p].ip /\ loc'[p].dp = loc[p].dp
       /\ loc'[p].puts = loc[p].puts /\ loc'[p].put = "drop"
       /\ loc'[p].call = loc[p].call /\ loc'[p].path = loc[p].path
  BY <1>5, <1>9 DEF Locals
<1>12. Shape(loc'[p])
  BY <1>2, <1>5, <1>11 DEF Shape
<1>13. lock' \in [Slots -> Procs \cup {NoProc}]
  BY <1>2, <1>3, <1>4 DEF ProcsOK
<1>14. ASSUME NEW t \in Slots
       PROVE  inode'[t].ref = inode[t].ref - Own(cwd[p], ofile[p], loc[p], t)
                                            + Own(cwd'[p], ofile'[p], loc'[p], t)
  <2>1. Own(cwd'[p], ofile'[p], loc'[p], t) = Own(cwd[p], ofile[p], loc[p], t)
    BY <1>2, <1>11 DEF Own
  <2>2. inode[t].ref \in Nat /\ Own(cwd[p], ofile[p], loc[p], t) \in Nat
    BY PtrRef
  <2> QED BY <1>7, <2>1, <2>2
<1>15. lock[s] = p
  <2>1. Holds(loc[p], s)
    BY <1>1, <1>2 DEF Holds
  <2> QED BY <1>3, <1>4, <2>1 DEF Locked
<1>16. \A t \in Slots : lock[t] # NoProc /\ lock[t] # p /\ inode[t].ref > 0 /\ inode[t].valid
                        => lock'[t] = lock[t] /\ inode'[t].valid
  BY <1>2, <1>4, <1>7, <1>15 DEF ProcsOK
<1>17. ASSUME NEW t \in Slots, Holds(loc'[p], t) PROVE lock'[t] = p /\ inode'[t].valid
  <2>1. Holds(loc[p], t)
    BY <1>11, <1>17 DEF Holds
  <2>2. lock[t] = p /\ inode[t].valid
    BY <2>1, <1>4 DEF Locked
  <2>3. t # s
    <3>1. FreesAnother(loc[p])
      BY <1>4 DEF Locked
    <3> QED BY <3>1, <1>1, <1>2, <1>11, <1>17 DEF FreesAnother, Holds
  <2> QED BY <2>2, <2>3, <1>2, <1>4, <1>7 DEF ProcsOK
<1>18. FreesAnother(loc'[p])
  BY <1>11 DEF FreesAnother
<1>19. /\ cwd' = [cwd EXCEPT ![p] = cwd'[p]] /\ cwd'[p] \in Slots
       /\ ofile' = [ofile EXCEPT ![p] = ofile'[p]] /\ ofile'[p] \in 0 .. NINODE
  BY <1>2, <1>4, StillProcs
<1> QED BY <1>7, <1>8, <1>9, <1>10, <1>12, <1>13, <1>14, <1>16, <1>17, <1>18, <1>19, StepInv

LEMMA PutDropInv ==
    ASSUME CacheInv, NEW p \in Procs, PutDrop(p)
    PROVE  CacheInv'
<1>1. PICK s : s = Head(loc[p].puts)
  OBVIOUS
<1>2. /\ loc[p].puts # <<>> /\ loc[p].put = "drop"
      /\ inode' = [inode EXCEPT ![s] = IF inode[s].ref = 1 THEN [EmptySlot EXCEPT !.valid = inode[s].valid]
                                         ELSE [inode[s] EXCEPT !.ref = @ - 1]]
      /\ loc' = [loc EXCEPT ![p].puts = Tail(@), ![p].put = "test"]
      /\ UNCHANGED <<disk, lock, cwd, ofile>>
  BY <1>1 DEF PutDrop, Putting
<1>3. s \in Slots /\ inode[s].ref > 0
  BY <1>1, <1>2, PutsHead
<1>4. ProcsOK /\ Shapes /\ CacheOK(dinode, inode) /\ Locked /\ DiskOK
  BY DEF CacheInv
<1>5. loc[p] \in Locals /\ Shape(loc[p]) /\ loc[p].puts \in Seq(Slots)
      /\ Len(loc[p].puts) \in Nat /\ Len(loc[p].puts) <= 2
  BY <1>4, LocType
<1>7. /\ CacheOK(dinode, inode')
      /\ \A t \in Slots : /\ inode'[t].ref = inode[t].ref - (IF t = s THEN 1 ELSE 0)
                          /\ inode'[t].valid = inode[t].valid
  <2>1. PICK e : e = inode'
    OBVIOUS
  <2>2. e = Dropped(inode, s)
    BY <1>2, <2>1 DEF Dropped
  <2>3. /\ CacheOK(dinode, e)
        /\ \A t \in Slots : /\ e[t].ref = inode[t].ref - (IF t = s THEN 1 ELSE 0)
                            /\ t # s => e[t] = inode[t]
                            /\ e[t].valid = inode[t].valid
                            /\ e[t].ref > 0 => e[t].inum = inode[t].inum /\ e[t].d = inode[t].d
    BY <1>3, <1>4, <2>2, DropOK
  <2> QED BY <2>1, <2>3
<1>8. DiskOK' /\ CacheOK(dinode', inode')
  BY <1>2, <1>4, <1>7 DEF DiskOK, disk
<1>6. PICK x : x = Tail(loc[p].puts)
  OBVIOUS
<1>20. x \in Seq(Slots) /\ Len(x) = Len(loc[p].puts) - 1
  BY <1>2, <1>5, <1>6, HeadTailProperties
<1>9. loc' = [loc EXCEPT ![p] = loc'[p]] /\ loc'[p] = [loc[p] EXCEPT !.puts = x, !.put = "test"]
  BY <1>2, <1>4, <1>6 DEF ProcsOK
<1>10. loc'[p] \in Locals
  BY <1>5, <1>9, <1>20 DEF Locals
<1>11. /\ loc'[p].pc = loc[p].pc /\ loc'[p].ip = loc[p].ip /\ loc'[p].dp = loc[p].dp
       /\ loc'[p].puts = x /\ loc'[p].put = "test"
       /\ loc'[p].call = loc[p].call /\ loc'[p].path = loc[p].path
  BY <1>5, <1>9 DEF Locals
<1>12. Shape(loc'[p])
  <2>1. Len(x) <= 2
    BY <1>5, <1>20
  <2> QED BY <2>1, <1>5, <1>11 DEF Shape
<1>13. lock' \in [Slots -> Procs \cup {NoProc}]
  BY <1>2, <1>4 DEF ProcsOK
<1>14. ASSUME NEW t \in Slots
       PROVE  inode'[t].ref = inode[t].ref - Own(cwd[p], ofile[p], loc[p], t)
                                            + Own(cwd'[p], ofile'[p], loc'[p], t)
  <2>1. PutsOwn(x, t) = PutsOwn(loc[p].puts, t) - One(s = t)
    BY <1>1, <1>2, <1>5, <1>6, PutsOwnTail
  <2>2. Own(cwd[p], ofile[p], loc[p], t)
          = One(cwd[p] = t) + One(ofile[p] = t) + One(loc[p].ip = t) + One(loc[p].dp = t) + PutsOwn(loc[p].puts, t)
    BY OwnIs
  <2>3. Own(cwd'[p], ofile'[p], loc'[p], t)
          = One(cwd[p] = t) + One(ofile[p] = t) + One(loc[p].ip = t) + One(loc[p].dp = t) + PutsOwn(x, t)
    BY <1>2, <1>11, OwnIs
  <2>4. /\ inode[t].ref \in Nat /\ PutsOwn(loc[p].puts, t) \in Nat
        /\ One(cwd[p] = t) \in Nat /\ One(ofile[p] = t) \in Nat /\ One(loc[p].ip = t) \in Nat
        /\ One(loc[p].dp = t) \in Nat
    BY PtrRef DEF PutsOwn, One
  <2>5. inode'[t].ref = inode[t].ref - One(s = t) /\ One(s = t) \in Nat
    BY <1>7 DEF One
  <2> QED BY <2>1, <2>2, <2>3, <2>4, <2>5
<1>17. ASSUME NEW t \in Slots, Holds(loc'[p], t) PROVE lock'[t] = p /\ inode'[t].valid
  <2>1. Holds(loc[p], t)
    BY <1>11, <1>17 DEF Holds
  <2> QED BY <2>1, <1>2, <1>4, <1>7 DEF Locked
<1>18. FreesAnother(loc'[p])
  BY <1>11 DEF FreesAnother
<1>19. /\ cwd' = [cwd EXCEPT ![p] = cwd'[p]] /\ cwd'[p] \in Slots
       /\ ofile' = [ofile EXCEPT ![p] = ofile'[p]] /\ ofile'[p] \in 0 .. NINODE
  BY <1>2, <1>4, StillProcs
<1>21. lock' = lock
  BY <1>2
<1>22. \A t \in Slots : lock[t] # NoProc /\ lock[t] # p /\ inode[t].ref > 0 /\ inode[t].valid
                        => lock'[t] = lock[t] /\ inode'[t].valid
  BY <1>7, <1>21
<1> QED BY <1>8, <1>9, <1>10, <1>12, <1>13, <1>14, <1>17, <1>18, <1>19, <1>22, StepInv

----------------------------------------------------------------------------
(* The calls *)

LocOwn(l, s) == One(l.ip = s) + One(l.dp = s) + PutsOwn(l.puts, s)

LEMMA OwnLoc ==
    ASSUME NEW c, NEW o, NEW l, NEW s
    PROVE  /\ Own(c, o, l, s) = One(c = s) + One(o = s) + LocOwn(l, s)
           /\ LocOwn(l, s) \in Nat /\ One(c = s) \in Nat /\ One(o = s) \in Nat
<1>1. LocOwn(l, s) \in Nat /\ One(c = s) \in Nat /\ One(o = s) \in Nat
  BY DEF LocOwn, PutsOwn, One
<1>2. Own(c, o, l, s) = One(c = s) + One(o = s) + LocOwn(l, s)
  BY DEF Own, LocOwn, PutsOwn, One
<1> QED BY <1>1, <1>2

LEMMA OwnSwap ==
    ASSUME NEW c, NEW o, NEW l, NEW m, NEW s, NEW r \in Nat, NEW x, x = r - LocOwn(l, s) + LocOwn(m, s)
    PROVE  x = r - Own(c, o, l, s) + Own(c, o, m, s)
<1>1. Own(c, o, l, s) = One(c = s) + One(o = s) + LocOwn(l, s) /\ LocOwn(l, s) \in Nat
  BY OwnLoc
<1>3. One(c = s) \in Nat /\ One(o = s) \in Nat
  BY DEF One
<1>2. Own(c, o, m, s) = One(c = s) + One(o = s) + LocOwn(m, s) /\ LocOwn(m, s) \in Nat
  BY OwnLoc
<1> QED BY <1>1, <1>2, <1>3

LEMMA LocOwnIs ==
    ASSUME NEW l, NEW s \in Slots
    PROVE  /\ l.puts = <<>> /\ l.ip = 0 => LocOwn(l, s) = One(l.dp = s)
           /\ l.puts = <<>> /\ l.dp = 0 => LocOwn(l, s) = One(l.ip = s)
           /\ l.puts = <<>> => LocOwn(l, s) = One(l.ip = s) + One(l.dp = s)
           /\ \A a : l.puts = <<a>> /\ l.ip = 0 /\ l.dp = 0 => LocOwn(l, s) = One(a = s)
           /\ \A a : l.puts = <<a>> /\ l.dp = 0 => LocOwn(l, s) = One(l.ip = s) + One(a = s)
           /\ \A a : l.puts = <<a>> => LocOwn(l, s) = One(l.ip = s) + One(l.dp = s) + One(a = s)
           /\ \A a, b : l.puts = <<a, b>> /\ l.ip = 0 /\ l.dp = 0 => LocOwn(l, s) = One(a = s) + One(b = s)
<1>0. 0 # s
  BY DEF Slots
<1>1. LocOwn(l, s) = One(l.ip = s) + One(l.dp = s) + PutsOwn(l.puts, s)
  BY DEF LocOwn
<1>2. One(l.ip = s) \in Nat /\ One(l.dp = s) \in Nat /\ PutsOwn(l.puts, s) \in Nat
  BY DEF One, PutsOwn
<1>3. /\ l.puts = <<>> => PutsOwn(l.puts, s) = 0
      /\ \A a : l.puts = <<a>> => PutsOwn(l.puts, s) = One(a = s)
      /\ \A a, b : l.puts = <<a, b>> => PutsOwn(l.puts, s) = One(a = s) + One(b = s)
  <2>1. ASSUME l.puts = <<>> PROVE PutsOwn(l.puts, s) = 0
    BY <2>1 DEF PutsOwn, One
  <2>2. ASSUME NEW a, l.puts = <<a>> PROVE PutsOwn(l.puts, s) = One(a = s)
    BY <2>2 DEF PutsOwn, One
  <2>3. ASSUME NEW a, NEW b, l.puts = <<a, b>> PROVE PutsOwn(l.puts, s) = One(a = s) + One(b = s)
    BY <2>3 DEF PutsOwn, One
  <2> QED BY <2>1, <2>2, <2>3
<1>4. (l.ip = 0 => One(l.ip = s) = 0) /\ (l.dp = 0 => One(l.dp = s) = 0)
  BY <1>0 DEF One
<1>5. \A a : One(a = s) \in Nat
  BY DEF One
<1> HIDE DEF One
<1>6. l.puts = <<>> => LocOwn(l, s) = One(l.ip = s) + One(l.dp = s)
  BY <1>1, <1>2, <1>3
<1>7. \A a : l.puts = <<a>> => LocOwn(l, s) = One(l.ip = s) + One(l.dp = s) + One(a = s)
  BY <1>1, <1>3
<1>8. \A a, b : l.puts = <<a, b>> => LocOwn(l, s) = One(l.ip = s) + One(l.dp = s) + (One(a = s) + One(b = s))
  BY <1>1, <1>3
<1>9. (l.puts = <<>> /\ l.ip = 0 => LocOwn(l, s) = One(l.dp = s)) /\ (l.puts = <<>> /\ l.dp = 0 => LocOwn(l, s) = One(l.ip = s))
  BY <1>2, <1>4, <1>6
<1>10. ASSUME NEW a, l.puts = <<a>>
       PROVE  /\ l.ip = 0 /\ l.dp = 0 => LocOwn(l, s) = One(a = s)
              /\ l.dp = 0 => LocOwn(l, s) = One(l.ip = s) + One(a = s)
  <2>1. PICK y \in Nat : y = One(a = s)
    BY <1>5
  <2>2. LocOwn(l, s) = One(l.ip = s) + One(l.dp = s) + y
    BY <1>7, <1>10, <2>1
  <2> QED BY <1>2, <1>4, <2>1, <2>2
<1>11. ASSUME NEW a, NEW b, l.puts = <<a, b>>, l.ip = 0, l.dp = 0
       PROVE  LocOwn(l, s) = One(a = s) + One(b = s)
  <2>1. PICK y \in Nat, z \in Nat : y = One(a = s) /\ z = One(b = s)
    BY <1>5
  <2>2. LocOwn(l, s) = One(l.ip = s) + One(l.dp = s) + (y + z)
    BY <1>8, <1>11, <2>1
  <2> QED BY <1>4, <1>11, <2>1, <2>2
<1> QED BY <1>6, <1>7, <1>9, <1>10, <1>11

\* A step of a call of p after which p has nothing locked.
LEMMA CallStep ==
    ASSUME CacheInv, NEW p \in Procs, DiskOK', lock' = lock, cwd' = cwd, ofile' = ofile,
           NEW m \in Locals, Shape(m), m.put # "free", m.pc \notin Held,
           loc' = [loc EXCEPT ![p] = m],
           CacheOK(dinode', inode'),
           \A s \in Slots : inode'[s].ref = inode[s].ref - LocOwn(loc[p], s) + LocOwn(m, s),
           \A s \in Slots : inode[s].ref > 0 /\ inode[s].valid => inode'[s].valid
    PROVE  CacheInv'
<1>1. ProcsOK
  BY DEF CacheInv
<1>2. loc' = [loc EXCEPT ![p] = loc'[p]] /\ loc'[p] = m
  BY <1>1 DEF ProcsOK
<1>3. /\ cwd' = [cwd EXCEPT ![p] = cwd'[p]] /\ cwd'[p] \in Slots
      /\ ofile' = [ofile EXCEPT ![p] = ofile'[p]] /\ ofile'[p] \in 0 .. NINODE
  BY <1>1, StillProcs
<1>4. ASSUME NEW s \in Slots
      PROVE  inode'[s].ref = inode[s].ref - Own(cwd[p], ofile[p], loc[p], s)
                                            + Own(cwd'[p], ofile'[p], loc'[p], s)
  <2>1. inode[s].ref \in Nat
    BY Unpack
  <2>2. PICK c, o, l, r, x : /\ c = cwd[p] /\ o = ofile[p] /\ l = loc[p]
                             /\ r = inode[s].ref /\ x = inode'[s].ref
    OBVIOUS
  <2>3. r \in Nat /\ x = r - LocOwn(l, s) + LocOwn(m, s)
    BY <2>1, <2>2
  <2>4. x = r - Own(c, o, l, s) + Own(c, o, m, s)
    BY <2>3, OwnSwap
  <2> QED BY <1>2, <2>2, <2>4
<1> QED BY <1>2, <1>3, <1>4, QuietStep

LEMMA RootIn == ROOTINO \in Inums
BY FsAssumption DEF ROOTINO, Inums

\* iget, where the references are counted with One.
LEMMA GetOK ==
    ASSUME CacheInv, NEW D, NEW c, SameRefs(c), CacheOK(D, c), NEW i \in Inums, CanGet(i)
    PROVE  /\ CacheOK(D, Iget(c, i))
           /\ IgetSlot(i) \in Slots
           /\ Iget(c, i)[IgetSlot(i)].inum = i
           /\ \A s \in Slots : Iget(c, i)[s].ref = inode[s].ref + One(IgetSlot(i) = s)
           /\ \A s \in Slots : inode[s].ref > 0 =>
                 /\ Iget(c, i)[s].inum = c[s].inum
                 /\ Iget(c, i)[s].valid = c[s].valid
                 /\ Iget(c, i)[s].d = c[s].d
<1>1. CacheOK(dinode, inode)
  BY DEF CacheInv
<1>2. \A s \in Slots : Iget(c, i)[s].ref = inode[s].ref + (IF s = IgetSlot(i) THEN 1 ELSE 0)
  BY <1>1, IgetOK
<1>3. \A s \in Slots : Iget(c, i)[s].ref = inode[s].ref + One(IgetSlot(i) = s)
  BY <1>2 DEF One
<1> QED BY <1>1, <1>3, IgetOK

LEMMA StartOK ==
    ASSUME CacheInv, NEW D, NEW c, SameRefs(c), CacheOK(D, c), NEW p \in Procs,
           NEW q, q.abs \in BOOLEAN, q.abs => CanGet(ROOTINO)
    PROVE  /\ CacheOK(D, StartGet(p, c, q))
           /\ StartSlot(p, q) \in Slots
           /\ \A s \in Slots : StartGet(p, c, q)[s].ref = inode[s].ref + One(StartSlot(p, q) = s)
           /\ \A s \in Slots : inode[s].ref > 0 =>
                 /\ StartGet(p, c, q)[s].inum = c[s].inum
                 /\ StartGet(p, c, q)[s].valid = c[s].valid
                 /\ StartGet(p, c, q)[s].d = c[s].d
<1>1. CASE q.abs
  BY <1>1, RootIn, GetOK DEF StartGet, StartSlot
<1>2. CASE ~q.abs
  <2>1. cwd[p] \in Slots /\ inode[cwd[p]].ref > 0
    BY Unpack, LocType, PtrRefs
  <2>2. PICK s : s = cwd[p]
    OBVIOUS
  <2>3. c[s].ref > 0 /\ s \in Slots /\ \A t \in Slots : c[t].ref = inode[t].ref
    BY <2>1, <2>2 DEF SameRefs
  <2>4. StartGet(p, c, q) = Dupped(c, s) /\ StartSlot(p, q) = s
    BY <1>2, <2>2 DEF StartGet, StartSlot, Dupped
  <2>5. /\ CacheOK(D, Dupped(c, s))
        /\ \A t \in Slots : /\ Dupped(c, s)[t].ref = c[t].ref + (IF t = s THEN 1 ELSE 0)
                            /\ Dupped(c, s)[t].inum = c[t].inum /\ Dupped(c, s)[t].valid = c[t].valid
                            /\ Dupped(c, s)[t].d = c[t].d
    BY <2>3, DupOK
  <2>6. \A t \in Slots : Dupped(c, s)[t].ref = inode[t].ref + One(s = t)
    BY <2>3, <2>5 DEF One
  <2> QED BY <2>3, <2>4, <2>5, <2>6
<1> QED BY <1>1, <1>2

\* The pointers of the locals m are those of l apart from l.dp, and s.
LEMMA ArriveOwn ==
    ASSUME NEW l \in Locals, l.ip # 0 <=> l.call = "linkto", l.call # "none",
           l.put = "test", l.puts = <<>>,
           NEW s \in Slots, NEW q \in Seq(Elems), NEW m, m = Arrive(l, s, q) \/ m = Failed(l, s),
           NEW t \in Slots
    PROVE  LocOwn(m, t) = One(l.ip = t) + One(s = t)
<1>1. CASE m = Failed(l, s)
  <2>1. m.ip = l.ip /\ m.dp = 0 /\ m.puts = <<s>>
    BY <1>1, FailedOK
  <2>2. LocOwn(m, t) = One(m.ip = t) + One(s = t)
    BY <2>1, LocOwnIs
  <2> QED BY <2>1, <2>2
<1>2. CASE m = Arrive(l, s, q) /\ m # Failed(l, s)
  <2>1. \/ m.ip = s /\ m.dp = 0 /\ m.puts = <<>> /\ l.ip = 0
        \/ m.ip = l.ip /\ m.dp = s /\ m.puts = <<>>
    BY <1>2, ArriveOK
  <2>2. LocOwn(m, t) = One(m.ip = t) + One(m.dp = t)
    BY <2>1, LocOwnIs
  <2>3. One(0 = t) = 0 /\ One(s = t) \in Nat /\ One(l.ip = t) \in Nat
    BY DEF One, Slots
  <2>4. CASE m.ip = s /\ m.dp = 0 /\ l.ip = 0
    BY <2>2, <2>3, <2>4
  <2>5. CASE m.ip = l.ip /\ m.dp = s
    BY <2>2, <2>3, <2>5
  <2> QED BY <2>1, <2>4, <2>5
<1> QED BY <1>1, <1>2

LEMMA IdleOwn ==
    ASSUME NEW x \in Seq(Slots), Len(x) <= 2, NEW m, m = IdlePuts(x), NEW t \in Slots
    PROVE  LocOwn(m, t) = PutsOwn(x, t)
<1>1. m.ip = 0 /\ m.dp = 0 /\ m.puts = x
  BY IdleOK
<1>2. One(0 = t) = 0 /\ PutsOwn(x, t) \in Nat
  BY DEF Slots, One, PutsOwn
<1> QED BY <1>1, <1>2 DEF LocOwn

LEMMA SameRefsSelf ==
    ASSUME CacheInv
    PROVE  SameRefs(inode) /\ CacheOK(dinode, inode)
BY DEF CacheInv, CacheOK, SameRefs

LEMMA CallInv ==
    ASSUME CacheInv, NEW p \in Procs, Call(p)
    PROVE  CacheInv'
<1>1. PICK r \in Requests :
          /\ r.path.abs => CanGet(ROOTINO)
          /\ inode' = StartGet(p, inode, r.path)
          /\ loc' = [loc EXCEPT ![p] = Arrive([Idle EXCEPT !.call = r.call, !.new = r.new],
                                              StartSlot(p, r.path), r.path.elems)]
  BY DEF Call
<1>2. loc[p] = Idle /\ UNCHANGED <<disk, lock, cwd, ofile, panic>>
  BY DEF Call, Begins
<1>3. r.call \in PathCalls /\ r.path.abs \in BOOLEAN /\ r.path.elems \in Seq(Elems)
  BY FsAssumption DEF Elems
<1>4. PICK l, q, s : /\ l = [Idle EXCEPT !.call = r.call, !.new = r.new] /\ q = r.path.elems
                     /\ s = StartSlot(p, r.path)
  OBVIOUS
<1>17. PICK e, n : e = <<>> /\ n = r.new
  OBVIOUS
<1>5. l = [pc |-> "idle", call |-> r.call, path |-> e, new |-> n,
           ip |-> 0, dp |-> 0, puts |-> e, put |-> "test"]
  BY <1>4, <1>17 DEF Idle
<1>6. l.call = r.call /\ l.ip = 0 /\ l.dp = 0 /\ l.puts = <<>> /\ l.put = "test" /\ l.new = n
  BY <1>5, <1>17
<1>7. l \in Locals
  <2>1. e \in Seq(Elems) /\ e \in Seq(Slots) /\ n \in News /\ 0 \in 0 .. NINODE /\ "idle" \in Pcs
    BY <1>17, FsAssumption DEF News, Pcs
  <2> QED BY <1>3, <1>5, <2>1 DEF Locals
<1>8. l.call # "none" /\ (l.ip # 0 <=> l.call = "linkto")
  BY <1>3, <1>6 DEF PathCalls
<1>18. q \in Seq(Elems)
  BY <1>3, <1>4
<1>9. SameRefs(inode) /\ CacheOK(dinode, inode)
  BY SameRefsSelf
<1>10. /\ CacheOK(dinode, inode') /\ s \in Slots
       /\ \A t \in Slots : inode'[t].ref = inode[t].ref + One(s = t)
       /\ \A t \in Slots : inode[t].ref > 0 => inode'[t].valid = inode[t].valid
  BY <1>1, <1>3, <1>4, <1>9, StartOK
<1>11. PICK m : m = Arrive(l, s, q)
  OBVIOUS
<1>12. loc' = [loc EXCEPT ![p] = m]
  BY <1>1, <1>4, <1>11
<1>13. m \in Locals /\ Shape(m) /\ m.put = "test" /\ m.pc \notin Held
  BY <1>6, <1>7, <1>8, <1>10, <1>11, <1>18, ArriveOK
<1>14. ASSUME NEW t \in Slots
       PROVE  inode'[t].ref = inode[t].ref - LocOwn(loc[p], t) + LocOwn(m, t)
  <2>1. LocOwn(m, t) = One(l.ip = t) + One(s = t)
    BY <1>6, <1>7, <1>8, <1>10, <1>11, <1>18, ArriveOwn
  <2>2. LocOwn(loc[p], t) = 0
    <3>1. Idle.ip = 0 /\ Idle.dp = 0 /\ Idle.puts = <<>>
      BY DEF Idle
    <3>2. LocOwn(Idle, t) = One(Idle.ip = t)
      BY <3>1, LocOwnIs
    <3> QED BY <1>2, <3>1, <3>2 DEF One, Slots
  <2>3. One(l.ip = t) = 0 /\ One(s = t) \in Nat
    BY <1>6 DEF One, Slots
  <2>4. inode[t].ref \in Nat
    BY Unpack
  <2> QED BY <1>10, <2>1, <2>2, <2>3, <2>4
<1>15. DiskOK' /\ CacheOK(dinode', inode')
  BY <1>2, <1>10, Unpack DEF DiskOK, disk
<1>16. lock' = lock /\ cwd' = cwd /\ ofile' = ofile
  BY <1>2
<1> QED BY <1>10, <1>12, <1>13, <1>14, <1>15, <1>16, CallStep

\* The locals of a process between two of its iputs.
LEMMA AtFacts ==
    ASSUME CacheInv, NEW p \in Procs, loc[p].puts = <<>>
    PROVE  /\ loc[p] \in Locals /\ Shape(loc[p]) /\ loc[p].put = "test"
           /\ loc[p].dp # 0 => loc[p].dp \in Slots /\ inode[loc[p].dp].ref > 0
           /\ loc[p].ip # 0 => loc[p].ip \in Slots /\ inode[loc[p].ip].ref > 0
           /\ \A s \in Slots : LocOwn(loc[p], s) = One(loc[p].ip = s) + One(loc[p].dp = s)
<1>1. loc[p] \in Locals /\ Shape(loc[p])
  BY Unpack, LocType
<1>2. loc[p].put = "test"
  BY <1>1 DEF Shape
<1>3. /\ loc[p].dp # 0 => loc[p].dp \in Slots /\ inode[loc[p].dp].ref > 0
      /\ loc[p].ip # 0 => loc[p].ip \in Slots /\ inode[loc[p].ip].ref > 0
  BY Unpack, LocType, PtrRefs
<1>4. \A s \in Slots : LocOwn(loc[p], s) = One(loc[p].ip = s) + One(loc[p].dp = s)
  BY LocOwnIs
<1> QED BY <1>1, <1>2, <1>3, <1>4

\* The points at which a call has a directory in hand, or an inode.
LEMMA AtPtrs ==
    ASSUME CacheInv, NEW p \in Procs, loc[p].puts = <<>>
    PROVE  /\ loc[p].pc \in HasDp => loc[p].dp # 0
           /\ loc[p].pc \in HasIp \cup {"unlinked"} => loc[p].ip # 0
           /\ loc[p].pc \notin HasDp => loc[p].dp = 0
           /\ loc[p].pc \notin HasIp /\ loc[p].call # "linkto" => loc[p].ip = 0
BY AtFacts DEF Shape

LEMMA LookupIn ==
    ASSUME DiskOK, NEW d \in DInode, NEW n \in Elems, Lookup(d, n) # 0
    PROVE  Lookup(d, n) \in Inums /\ d.addrs[0] \in Blocks
<1>1. d.addrs[0] # 0
  BY DEF Lookup
<1>2. d.addrs[0] \in 0 .. NBlocks
  BY FsAssumption DEF DInode
<1>3. d.addrs[0] \in Blocks
  BY <1>1, <1>2, FsAssumption DEF Blocks
<1>4. Lookup(d, n) = dirent[d.addrs[0]][n]
  BY <1>1 DEF Lookup
<1>5. Lookup(d, n) \in 0 .. NInodes
  BY <1>3, <1>4 DEF DiskOK
<1> QED BY <1>3, <1>5, FsAssumption DEF Inums

\* The slot whose lock is taken.
LEMMA LocksOK ==
    ASSUME CacheInv, NEW s \in Slots, inode[s].ref > 0, Locks(s)
    PROVE  /\ lock[s] = NoProc
           /\ Content(s) \in DInode /\ Content(s) = dinode[inode[s].inum] /\ Content(s).type # "none"
           /\ inode[s].inum \in Inums
           /\ CacheOK(dinode, Load(s)) /\ SameRefs(Load(s))
           /\ Load(s)[s].valid /\ Load(s)[s].d = Content(s)
           /\ \A t \in Slots : t # s => Load(s)[t] = inode[t]
           /\ \A t \in Slots : inode[t].valid => Load(s)[t].valid
<1>1. dinode \in [Inums -> DInode] /\ CacheOK(dinode, inode)
  BY Unpack DEF DiskOK
<1> QED BY <1>1, LoadOK DEF Locks

\* The lock of s is taken, and no reference.
LEMMA LoadStep ==
    ASSUME CacheInv, NEW p \in Procs, UNCHANGED <<disk, lock, cwd, ofile>>,
           NEW s \in Slots, inode[s].ref > 0, Locks(s), inode' = Load(s),
           NEW m \in Locals, Shape(m), m.put # "free", m.pc \notin Held,
           loc' = [loc EXCEPT ![p] = m],
           \A t \in Slots : LocOwn(m, t) = LocOwn(loc[p], t)
    PROVE  CacheInv'
<1>1. DiskOK' /\ lock' = lock /\ cwd' = cwd /\ ofile' = ofile /\ dinode' = dinode
  BY Unpack DEF DiskOK, disk
<1>2. /\ CacheOK(dinode, inode') /\ SameRefs(inode')
      /\ \A t \in Slots : inode[t].valid => inode'[t].valid
  BY LocksOK
<1>3. ASSUME NEW t \in Slots
      PROVE  inode'[t].ref = inode[t].ref - LocOwn(loc[p], t) + LocOwn(m, t)
  <2>1. inode[t].ref \in Nat /\ LocOwn(loc[p], t) \in Nat
    BY Unpack DEF LocOwn, PutsOwn, One
  <2>2. LocOwn(m, t) = LocOwn(loc[p], t) /\ inode'[t].ref = inode[t].ref
    BY <1>2 DEF SameRefs
  <2> QED BY <2>1, <2>2
<1>4. CacheOK(dinode', inode')
  BY <1>1, <1>2
<1> QED BY <1>1, <1>2, <1>3, <1>4, CallStep

\* The lock of s is taken, and a reference to inode i.
LEMMA GetStep ==
    ASSUME CacheInv, NEW p \in Procs, UNCHANGED <<disk, lock, cwd, ofile>>,
           NEW s \in Slots, inode[s].ref > 0, Locks(s),
           NEW i \in Inums, CanGet(i), inode' = Iget(Load(s), i),
           NEW m \in Locals, Shape(m), m.put # "free", m.pc \notin Held,
           loc' = [loc EXCEPT ![p] = m],
           \A t \in Slots : LocOwn(m, t) = LocOwn(loc[p], t) + One(IgetSlot(i) = t)
    PROVE  CacheInv'
<1>1. DiskOK' /\ lock' = lock /\ cwd' = cwd /\ ofile' = ofile /\ dinode' = dinode
  BY Unpack DEF DiskOK, disk
<1>2. /\ CacheOK(dinode, Load(s)) /\ SameRefs(Load(s))
      /\ \A t \in Slots : inode[t].valid => Load(s)[t].valid
  BY LocksOK
<1>3. /\ CacheOK(dinode, inode')
      /\ \A t \in Slots : inode'[t].ref = inode[t].ref + One(IgetSlot(i) = t)
      /\ \A t \in Slots : inode[t].ref > 0 => inode'[t].valid = Load(s)[t].valid
  BY <1>2, GetOK
<1>4. \A t \in Slots : inode[t].ref > 0 /\ inode[t].valid => inode'[t].valid
  BY <1>2, <1>3
<1>5. ASSUME NEW t \in Slots
      PROVE  inode'[t].ref = inode[t].ref - LocOwn(loc[p], t) + LocOwn(m, t)
  <2>1. inode[t].ref \in Nat /\ LocOwn(loc[p], t) \in Nat /\ One(IgetSlot(i) = t) \in Nat
    BY Unpack DEF LocOwn, PutsOwn, One
  <2>2. LocOwn(m, t) = LocOwn(loc[p], t) + One(IgetSlot(i) = t)
    OBVIOUS
  <2>3. inode'[t].ref = inode[t].ref + One(IgetSlot(i) = t)
    BY <1>3
  <2> QED BY <2>1, <2>2, <2>3
<1>6. CacheOK(dinode', inode')
  BY <1>1, <1>3
<1> QED BY <1>1, <1>4, <1>5, <1>6, CallStep

\* The locals l with pointers to give back first.
LEMMA WithPuts ==
    ASSUME NEW l \in Locals, Shape(l), l.put = "test", NEW x \in Seq(Slots), Len(x) <= 2,
           NEW m, m = [l EXCEPT !.puts = x]
    PROVE  /\ m \in Locals /\ Shape(m) /\ m.put = "test" /\ m.puts = x
           /\ m.pc = l.pc /\ m.call = l.call /\ m.path = l.path /\ m.ip = l.ip /\ m.dp = l.dp
<1>1. /\ m \in Locals /\ m.put = "test" /\ m.puts = x
      /\ m.pc = l.pc /\ m.call = l.call /\ m.path = l.path /\ m.ip = l.ip /\ m.dp = l.dp
  BY DEF Locals
<1> QED BY <1>1 DEF Shape

LEMMA WalkInv ==
    ASSUME CacheInv, NEW p \in Procs, Walk(p)
    PROVE  CacheInv'
<1>1. PICK l, s : l = loc[p] /\ s = loc[p].dp
  OBVIOUS
<1>2. PICK i : i = Lookup(Content(s), Head(l.path))
  OBVIOUS
<1>3. /\ l.puts = <<>> /\ l.pc = "walk" /\ Locks(s)
      /\ UNCHANGED <<disk, lock, cwd, ofile, panic, calls>>
  BY <1>1 DEF Walk, At
<1>4. \/ /\ LastElem(p)
         /\ inode' = Load(s)
         /\ loc' = [loc EXCEPT ![p].pc = loc[p].call]
      \/ /\ inode' = Load(s)
         /\ loc' = [loc EXCEPT ![p] = Failed(l, s)]
      \/ /\ ~LastElem(p) /\ i # 0 /\ CanGet(i)
         /\ inode' = Iget(Load(s), i)
         /\ loc' = [loc EXCEPT ![p] = [Arrive(l, IgetSlot(i), Tail(l.path)) EXCEPT !.puts = <<s>>]]
  BY <1>1, <1>2 DEF Walk
<1>5. /\ l \in Locals /\ Shape(l) /\ l.put = "test" /\ s \in Slots /\ inode[s].ref > 0 /\ s # 0 /\ l.dp = s
      /\ \A t \in Slots : LocOwn(l, t) = One(l.ip = t) + One(s = t)
  BY <1>1, <1>3, AtFacts, AtPtrs DEF HasDp
<1>6. l.path # <<>> /\ l.call # "none" /\ (l.ip # 0 <=> l.call = "linkto") /\ l.path \in Seq(Elems)
  BY <1>3, <1>5 DEF Shape, HasIp, Locals
<1>7. UNCHANGED <<disk, lock, cwd, ofile>> /\ loc \in [Procs -> Locals]
  BY <1>3, Unpack DEF ProcsOK
<1>8. CASE LastElem(p) /\ inode' = Load(s) /\ loc' = [loc EXCEPT ![p].pc = loc[p].call]
  <2>1. PICK m : m = [l EXCEPT !.pc = l.call]
    OBVIOUS
  <2>2. loc' = [loc EXCEPT ![p] = m]
    BY <1>1, <1>7, <1>8, <2>1
  <2>3. l.call \in Parent /\ Len(l.path) = 1
    BY <1>1, <1>8 DEF LastElem
  <2>4. m \in Locals
    BY <1>5, <2>1, <2>3 DEF Locals, Pcs, HasDp
  <2>5. /\ m.pc = l.call /\ m.call = l.call /\ m.puts = <<>> /\ m.put = "test"
        /\ m.ip = l.ip /\ m.dp = s /\ m.path = l.path
    BY <1>3, <1>5, <2>1 DEF Locals
  <2>6. Shape(m)
    BY <1>5, <1>6, <2>3, <2>5 DEF Shape, HasDp, HasIp, Parent, LinkPcs
  <2>7. m.pc \notin Held
    BY <2>3, <2>5 DEF Held, HeldDp, HeldIp, Parent
  <2>8. \A t \in Slots : LocOwn(m, t) = LocOwn(loc[p], t)
    BY <1>1, <1>3, <1>5, <2>5 DEF LocOwn
  <2> QED BY <1>5, <1>3, <1>7, <1>8, <2>2, <2>4, <2>5, <2>6, <2>7, <2>8, LoadStep
<1>9. CASE inode' = Load(s) /\ loc' = [loc EXCEPT ![p] = Failed(l, s)]
  <2>1. PICK m : m = Failed(l, s)
    OBVIOUS
  <2>2. m \in Locals /\ Shape(m) /\ m.put = "test" /\ m.pc \notin Held
    BY <1>5, <1>6, <2>1, FailedOK
  <2>3. \A t \in Slots : LocOwn(m, t) = LocOwn(loc[p], t)
    <3>1. <<>> \in Seq(Elems)
      OBVIOUS
    <3>2. \A t \in Slots : LocOwn(m, t) = One(l.ip = t) + One(s = t)
      BY <1>3, <1>5, <1>6, <2>1, <3>1, ArriveOwn
    <3> QED BY <1>1, <1>5, <3>2
  <2> QED BY <1>5, <1>3, <1>7, <1>9, <2>1, <2>2, <2>3, LoadStep
<1>10. CASE /\ ~LastElem(p) /\ i # 0 /\ CanGet(i)
            /\ inode' = Iget(Load(s), i)
            /\ loc' = [loc EXCEPT ![p] = [Arrive(l, IgetSlot(i), Tail(l.path)) EXCEPT !.puts = <<s>>]]
  <2>1. PICK u, q, x : u = IgetSlot(i) /\ q = Tail(l.path) /\ x = <<s>>
    OBVIOUS
  <2>2. PICK a : a = Arrive(l, u, q)
    OBVIOUS
  <2>3. PICK m : m = [a EXCEPT !.puts = x]
    OBVIOUS
  <2>4. loc' = [loc EXCEPT ![p] = m]
    BY <1>10, <2>1, <2>2, <2>3
  <2>5. Content(s) \in DInode /\ Head(l.path) \in Elems /\ q \in Seq(Elems)
    BY <1>3, <1>5, <1>6, <2>1, LocksOK
  <2>6. i \in Inums
    BY <1>2, <1>10, <2>5, LookupIn, Unpack
  <2>7. u \in Slots
    BY <1>10, <2>1, <2>6, IgetSlotIs, Unpack
  <2>8. q = <<>> => l.call \notin Parent
    <3>1. q = <<>> => Len(l.path) = 1
      <4>1. Len(l.path) \in Nat /\ Len(l.path) # 0
        BY <1>6, EmptySeq
      <4>2. Len(q) = Len(l.path) - 1
        BY <1>6, <2>1, HeadTailProperties
      <4> QED BY <4>1, <4>2
    <3> QED BY <1>1, <1>10, <3>1 DEF LastElem
  <2>9. a \in Locals /\ Shape(a) /\ a.put = "test" /\ a.pc \notin Held /\ a.puts = <<>>
    BY <1>3, <1>5, <1>6, <2>2, <2>5, <2>7, <2>8, ArriveOK
  <2>10. x \in Seq(Slots) /\ Len(x) <= 2
    BY <1>5, <2>1
  <2>11. /\ m \in Locals /\ Shape(m) /\ m.put = "test" /\ m.puts = x
         /\ m.pc = a.pc /\ m.ip = a.ip /\ m.dp = a.dp
    BY <2>3, <2>9, <2>10, WithPuts
  <2>12. ASSUME NEW t \in Slots PROVE LocOwn(m, t) = LocOwn(loc[p], t) + One(u = t)
    <3>1. LocOwn(a, t) = One(l.ip = t) + One(u = t)
      BY <1>3, <1>5, <1>6, <2>2, <2>5, <2>7, ArriveOwn
    <3>2. LocOwn(a, t) = One(a.ip = t) + One(a.dp = t)
      BY <2>9, LocOwnIs
    <3>3. LocOwn(m, t) = One(a.ip = t) + One(a.dp = t) + One(s = t)
      BY <2>1, <2>11, LocOwnIs
    <3>4. LocOwn(loc[p], t) = One(l.ip = t) + One(s = t)
      BY <1>1, <1>5
    <3>5. One(l.ip = t) \in Nat /\ One(s = t) \in Nat /\ One(u = t) \in Nat
          /\ One(a.ip = t) \in Nat /\ One(a.dp = t) \in Nat
      BY DEF One
    <3> QED BY <3>1, <3>2, <3>3, <3>4, <3>5
  <2>13. \A t \in Slots : LocOwn(m, t) = LocOwn(loc[p], t) + One(IgetSlot(i) = t)
    BY <2>1, <2>12
  <2>14. CanGet(i) /\ inode' = Iget(Load(s), i) /\ Locks(s) /\ s \in Slots /\ inode[s].ref > 0
    BY <1>3, <1>5, <1>10
  <2>15. m \in Locals /\ Shape(m) /\ m.put # "free" /\ m.pc \notin Held
    BY <2>9, <2>11
  <2> QED BY <1>7, <2>4, <2>6, <2>13, <2>14, <2>15, GetStep
<1> QED BY <1>4, <1>8, <1>9, <1>10

\* The locals of a process whose call is over but for the iput of s.
Gives(s) == [Idle EXCEPT !.puts = <<s>>]

LEMMA GivesBack ==
    ASSUME NEW s \in Slots, NEW m, m = Gives(s)
    PROVE  /\ m \in Locals /\ Shape(m) /\ m.put = "test" /\ m.pc = "idle" /\ m.pc \notin Held
           /\ m.ip = 0 /\ m.dp = 0 /\ m.puts = <<s>> /\ m.call = "none" /\ m.path = <<>>
           /\ \A t \in Slots : LocOwn(m, t) = One(s = t)
<1>1. PICK x : x = <<s>>
  OBVIOUS
<1>2. x \in Seq(Slots) /\ Len(x) <= 2
  BY <1>1
<1>5. m = IdlePuts(x)
  BY <1>1, IdleIs DEF Gives
<1>3. /\ m \in Locals /\ Shape(m) /\ m.put = "test" /\ m.pc = "idle" /\ m.pc \notin Held
      /\ m.ip = 0 /\ m.dp = 0 /\ m.puts = x /\ m.call = "none" /\ m.path = <<>>
  BY <1>2, <1>5, IdleOK
<1>6. m.ip = 0 /\ m.dp = 0 /\ m.puts = <<s>>
  BY <1>1, <1>3
<1>4. \A t \in Slots : LocOwn(m, t) = One(s = t)
  BY <1>6, LocOwnIs
<1> QED BY <1>1, <1>3, <1>4

LEMMA IdleFacts ==
    /\ Idle \in Locals /\ Shape(Idle) /\ Idle.put = "test" /\ Idle.pc = "idle" /\ Idle.pc \notin Held
    /\ Idle.ip = 0 /\ Idle.dp = 0 /\ Idle.puts = <<>> /\ Idle.call = "none" /\ Idle.path = <<>>
    /\ \A t \in Slots : LocOwn(Idle, t) = 0
<1>1. PICK x : x = <<>>
  OBVIOUS
<1>2. x \in Seq(Slots) /\ Len(x) <= 2 /\ Idle = IdlePuts(x)
  BY <1>1, IdleIs
<1>3. /\ Idle \in Locals /\ Shape(Idle) /\ Idle.put = "test" /\ Idle.pc = "idle" /\ Idle.pc \notin Held
      /\ Idle.ip = 0 /\ Idle.dp = 0 /\ Idle.puts = x /\ Idle.call = "none" /\ Idle.path = <<>>
  BY <1>2, IdleOK
<1>4. \A t \in Slots : LocOwn(Idle, t) = One(Idle.ip = t)
  BY <1>1, <1>3, LocOwnIs
<1>5. \A t \in Slots : One(0 = t) = 0
  BY DEF One, Slots
<1> QED BY <1>1, <1>3, <1>4, <1>5

\* A call ends with s, its last pointer, as the open file or given back.
LEMMA OpensOK ==
    ASSUME CacheInv, NEW p \in Procs, NEW s \in Slots, cwd' = cwd,
           \/ Opens(p, s)
           \/ ofile' = ofile /\ loc' = [loc EXCEPT ![p] = [Idle EXCEPT !.puts = <<s>>]]
    PROVE  /\ loc' = [loc EXCEPT ![p] = loc'[p]]
           /\ loc'[p] \in Locals /\ Shape(loc'[p]) /\ loc'[p].put = "test" /\ loc'[p].pc \notin Held
           /\ loc'[p].pc = "idle" /\ loc'[p].ip = 0 /\ loc'[p].dp = 0
           /\ loc'[p].call = "none" /\ loc'[p].path = <<>>
           /\ ofile' = [ofile EXCEPT ![p] = ofile'[p]] /\ ofile'[p] \in 0 .. NINODE
           /\ \A t \in Slots : Own(cwd'[p], ofile'[p], loc'[p], t)
                                 = One(cwd[p] = t) + One(ofile[p] = t) + One(s = t)
<1>1. ProcsOK
  BY Unpack
<1>2. CASE ofile[p] = 0 /\ ofile' = [ofile EXCEPT ![p] = s] /\ loc' = [loc EXCEPT ![p] = Idle]
  <2>1. loc' = [loc EXCEPT ![p] = loc'[p]] /\ loc'[p] = Idle /\ ofile'[p] = s
        /\ ofile' = [ofile EXCEPT ![p] = ofile'[p]]
    BY <1>1, <1>2 DEF ProcsOK
  <2>2. s \in 0 .. NINODE
    BY FsAssumption DEF Slots
  <2>3. ASSUME NEW t \in Slots
        PROVE  Own(cwd'[p], ofile'[p], loc'[p], t) = One(cwd[p] = t) + One(ofile[p] = t) + One(s = t)
    <3>1. Own(cwd[p], s, Idle, t) = One(cwd[p] = t) + One(s = t) + LocOwn(Idle, t)
      BY OwnLoc
    <3>2. LocOwn(Idle, t) = 0 /\ One(ofile[p] = t) = 0
      BY <1>2, IdleFacts DEF One, Slots
    <3>3. One(cwd[p] = t) \in Nat /\ One(s = t) \in Nat
      BY DEF One
    <3> QED BY <2>1, <3>1, <3>2, <3>3
  <2> QED BY <2>1, <2>2, <2>3, IdleFacts
<1>3. CASE ofile' = ofile /\ loc' = [loc EXCEPT ![p] = [Idle EXCEPT !.puts = <<s>>]]
  <2>1. PICK m : m = Gives(s)
    OBVIOUS
  <2>2. loc' = [loc EXCEPT ![p] = loc'[p]] /\ loc'[p] = m
    BY <1>1, <1>3, <2>1 DEF ProcsOK, Gives
  <2>3. ofile' = [ofile EXCEPT ![p] = ofile'[p]] /\ ofile'[p] \in 0 .. NINODE
    BY <1>1, <1>3, StillProcs
  <2>4. /\ m \in Locals /\ Shape(m) /\ m.put = "test" /\ m.pc = "idle" /\ m.pc \notin Held
        /\ m.ip = 0 /\ m.dp = 0 /\ m.call = "none" /\ m.path = <<>>
        /\ \A t \in Slots : LocOwn(m, t) = One(s = t)
    BY <2>1, GivesBack
  <2>5. ASSUME NEW t \in Slots
        PROVE  Own(cwd'[p], ofile'[p], loc'[p], t) = One(cwd[p] = t) + One(ofile[p] = t) + One(s = t)
    <3>1. Own(cwd[p], ofile[p], m, t) = One(cwd[p] = t) + One(ofile[p] = t) + LocOwn(m, t)
      BY OwnLoc
    <3> QED BY <1>3, <2>2, <2>4, <3>1
  <2> QED BY <2>2, <2>3, <2>4, <2>5
<1> QED BY <1>2, <1>3 DEF Opens

LEMMA OpenInv ==
    ASSUME CacheInv, NEW p \in Procs, Open(p)
    PROVE  CacheInv'
<1>1. PICK s : s = loc[p].ip
  OBVIOUS
<1>2. /\ loc[p].puts = <<>> /\ loc[p].pc \in {"open", "openr", "existing"} /\ Locks(s) /\ inode' = Load(s)
      /\ disk' = disk /\ lock' = lock /\ cwd' = cwd
  BY <1>1 DEF Open, At
<1>3. \/ Opens(p, s)
      \/ ofile' = ofile /\ loc' = [loc EXCEPT ![p] = [Idle EXCEPT !.puts = <<s>>]]
  BY <1>1 DEF Open
<1>4. /\ Shape(loc[p]) /\ s \in Slots /\ inode[s].ref > 0 /\ loc[p].dp = 0 /\ loc[p].ip = s
      /\ \A t \in Slots : LocOwn(loc[p], t) = One(loc[p].ip = t) + One(loc[p].dp = t)
  BY <1>1, <1>2, AtFacts, AtPtrs DEF HasIp, HasDp, Parent
<1>5. /\ loc' = [loc EXCEPT ![p] = loc'[p]]
      /\ loc'[p] \in Locals /\ Shape(loc'[p]) /\ loc'[p].put = "test" /\ loc'[p].pc \notin Held
      /\ ofile' = [ofile EXCEPT ![p] = ofile'[p]] /\ ofile'[p] \in 0 .. NINODE
      /\ \A t \in Slots : Own(cwd'[p], ofile'[p], loc'[p], t)
                            = One(cwd[p] = t) + One(ofile[p] = t) + One(s = t)
  BY <1>2, <1>3, <1>4, OpensOK
<1>6. /\ CacheOK(dinode, inode') /\ SameRefs(inode')
      /\ \A t \in Slots : inode[t].valid => inode'[t].valid
  BY <1>2, <1>4, LocksOK
<1>7. ASSUME NEW t \in Slots
      PROVE  inode'[t].ref = inode[t].ref - Own(cwd[p], ofile[p], loc[p], t)
                                            + Own(cwd'[p], ofile'[p], loc'[p], t)
  <2>1. Own(cwd[p], ofile[p], loc[p], t) = One(cwd[p] = t) + One(ofile[p] = t) + LocOwn(loc[p], t)
    BY OwnLoc
  <2>2. LocOwn(loc[p], t) = One(s = t)
    <3>1. One(0 = t) = 0 /\ One(s = t) \in Nat
      BY DEF One, Slots
    <3> QED BY <1>4, <3>1
  <2>3. Own(cwd'[p], ofile'[p], loc'[p], t) = Own(cwd[p], ofile[p], loc[p], t)
    BY <1>5, <2>1, <2>2
  <2>4. inode'[t].ref = inode[t].ref /\ inode[t].ref \in Nat /\ Own(cwd[p], ofile[p], loc[p], t) \in Nat
    BY <1>6, PtrRef DEF SameRefs
  <2> QED BY <2>3, <2>4
<1>8. DiskOK' /\ CacheOK(dinode', inode') /\ lock' = lock
  BY <1>2, <1>6, Unpack DEF DiskOK, disk
<1>9. cwd' = [cwd EXCEPT ![p] = cwd'[p]] /\ cwd'[p] \in Slots
  BY <1>2, Unpack, StillProcs
<1> QED BY <1>5, <1>6, <1>7, <1>8, <1>9, QuietStep

LEMMA ChdirInv ==
    ASSUME CacheInv, NEW p \in Procs, Chdir(p)
    PROVE  CacheInv'
<1>1. PICK s : s = loc[p].ip
  OBVIOUS
<1>2. /\ loc[p].puts = <<>> /\ loc[p].pc = "chdir" /\ Locks(s) /\ inode' = Load(s)
      /\ disk' = disk /\ lock' = lock /\ ofile' = ofile
  BY <1>1 DEF Chdir, At
<1>3. PICK u, c : /\ c = IF Content(s).type = "dir" THEN s ELSE cwd[p]
                  /\ u = IF Content(s).type = "dir" THEN cwd[p] ELSE s
  OBVIOUS
<1>4. cwd' = [cwd EXCEPT ![p] = c] /\ loc' = [loc EXCEPT ![p] = [Idle EXCEPT !.puts = <<u>>]]
  BY <1>1, <1>3, Unpack DEF Chdir, ProcsOK
<1>5. /\ Shape(loc[p]) /\ s \in Slots /\ inode[s].ref > 0 /\ loc[p].dp = 0 /\ loc[p].ip = s
      /\ \A t \in Slots : LocOwn(loc[p], t) = One(loc[p].ip = t) + One(loc[p].dp = t)
  BY <1>1, <1>2, AtFacts, AtPtrs DEF HasIp, HasDp, Parent
<1>6. ProcsOK /\ c \in Slots /\ u \in Slots
  BY <1>3, <1>5, Unpack, LocType
<1>7. PICK m : m = Gives(u)
  OBVIOUS
<1>8. /\ m \in Locals /\ Shape(m) /\ m.put = "test" /\ m.pc \notin Held
      /\ \A t \in Slots : LocOwn(m, t) = One(u = t)
  BY <1>6, <1>7, GivesBack
<1>9. loc' = [loc EXCEPT ![p] = loc'[p]] /\ loc'[p] = m /\ cwd' = [cwd EXCEPT ![p] = cwd'[p]] /\ cwd'[p] = c
  BY <1>4, <1>6, <1>7 DEF ProcsOK, Gives
<1>10. ofile' = [ofile EXCEPT ![p] = ofile'[p]] /\ ofile'[p] \in 0 .. NINODE /\ ofile'[p] = ofile[p]
  BY <1>2, <1>6, StillProcs
<1>11. /\ CacheOK(dinode, inode') /\ SameRefs(inode')
       /\ \A t \in Slots : inode[t].valid => inode'[t].valid
  BY <1>2, <1>5, LocksOK
<1>12. ASSUME NEW t \in Slots
       PROVE  inode'[t].ref = inode[t].ref - Own(cwd[p], ofile[p], loc[p], t)
                                            + Own(cwd'[p], ofile'[p], loc'[p], t)
  <2>1. Own(cwd[p], ofile[p], loc[p], t) = One(cwd[p] = t) + One(ofile[p] = t) + LocOwn(loc[p], t)
    BY OwnLoc
  <2>2. One(0 = t) = 0 /\ One(s = t) \in Nat /\ One(cwd[p] = t) \in Nat /\ One(ofile[p] = t) \in Nat
    BY DEF One, Slots
  <2>3. LocOwn(loc[p], t) = One(s = t)
    BY <1>5, <2>2
  <2>4. Own(c, ofile[p], m, t) = One(c = t) + One(ofile[p] = t) + LocOwn(m, t)
    BY OwnLoc
  <2>5. Own(c, ofile[p], m, t) = One(c = t) + One(ofile[p] = t) + One(u = t)
    BY <1>8, <2>4
  <2>6. Own(c, ofile[p], m, t) = Own(cwd[p], ofile[p], loc[p], t)
    <3>1. CASE Content(s).type = "dir"
      BY <1>3, <2>1, <2>2, <2>3, <2>5, <3>1
    <3>2. CASE Content(s).type # "dir"
      BY <1>3, <2>1, <2>2, <2>3, <2>5, <3>2
    <3> QED BY <3>1, <3>2
  <2>7. inode'[t].ref = inode[t].ref /\ inode[t].ref \in Nat /\ Own(cwd[p], ofile[p], loc[p], t) \in Nat
    BY <1>11, PtrRef DEF SameRefs
  <2> QED BY <1>9, <1>10, <2>6, <2>7
<1>13. DiskOK' /\ CacheOK(dinode', inode') /\ lock' = lock
  BY <1>2, <1>11, Unpack DEF DiskOK, disk
<1> QED BY <1>6, <1>8, <1>9, <1>10, <1>11, <1>12, <1>13, QuietStep

LEMMA CloseInv ==
    ASSUME CacheInv, NEW p \in Procs, Close(p)
    PROVE  CacheInv'
<1>1. PICK s : s = ofile[p]
  OBVIOUS
<1>2. /\ loc[p] = Idle /\ s # 0 /\ ofile' = [ofile EXCEPT ![p] = 0] /\ loc' = [loc EXCEPT ![p].puts = <<s>>]
      /\ disk' = disk /\ inode' = inode /\ lock' = lock /\ cwd' = cwd
  BY <1>1 DEF Close, Begins
<1>3. ProcsOK /\ s \in Slots
  BY <1>1, <1>2, Unpack, LocType
<1>4. PICK m : m = Gives(s)
  OBVIOUS
<1>5. /\ m \in Locals /\ Shape(m) /\ m.put = "test" /\ m.pc \notin Held
      /\ \A t \in Slots : LocOwn(m, t) = One(s = t)
  BY <1>3, <1>4, GivesBack
<1>6. /\ loc' = [loc EXCEPT ![p] = loc'[p]] /\ loc'[p] = m
      /\ ofile' = [ofile EXCEPT ![p] = ofile'[p]] /\ ofile'[p] = 0
  BY <1>2, <1>3, <1>4 DEF ProcsOK, Gives
<1>7. cwd' = [cwd EXCEPT ![p] = cwd'[p]] /\ cwd'[p] \in Slots /\ cwd'[p] = cwd[p]
  BY <1>2, <1>3, StillProcs
<1>8. ASSUME NEW t \in Slots
       PROVE  inode'[t].ref = inode[t].ref - Own(cwd[p], ofile[p], loc[p], t)
                                            + Own(cwd'[p], ofile'[p], loc'[p], t)
  <2>1. Own(cwd[p], s, Idle, t) = One(cwd[p] = t) + One(s = t) + LocOwn(Idle, t)
    BY OwnLoc
  <2>2. Own(cwd[p], 0, m, t) = One(cwd[p] = t) + One(0 = t) + LocOwn(m, t)
    BY OwnLoc
  <2>3. One(0 = t) = 0 /\ One(s = t) \in Nat /\ One(cwd[p] = t) \in Nat
    BY DEF One, Slots
  <2>4. LocOwn(Idle, t) = 0
    BY IdleFacts
  <2>5. LocOwn(m, t) = One(s = t)
    BY <1>5
  <2>6. Own(cwd[p], 0, m, t) = Own(cwd[p], s, Idle, t)
    BY <2>1, <2>2, <2>3, <2>4, <2>5
  <2>7. inode[t].ref \in Nat /\ Own(cwd[p], ofile[p], loc[p], t) \in Nat
    BY PtrRef
  <2> QED BY <1>1, <1>2, <1>6, <1>7, <2>6, <2>7
<1>9. DiskOK' /\ CacheOK(dinode', inode') /\ lock' = lock /\ 0 \in 0 .. NINODE
  BY <1>2, Unpack, FsAssumption DEF DiskOK, disk
<1>10. \A t \in Slots : inode[t].valid => inode'[t].valid
  BY <1>2
<1> QED BY <1>5, <1>6, <1>7, <1>8, <1>9, <1>10, QuietStep

\* A step of a call of p that takes or releases locks.
LEMMA HoldStep ==
    ASSUME CacheInv, NEW p \in Procs, DiskOK', cwd' = cwd, ofile' = ofile,
           lock' \in [Slots -> Procs \cup {NoProc}],
           NEW m \in Locals, Shape(m), m.put = "test",
           loc' = [loc EXCEPT ![p] = m],
           CacheOK(dinode', inode'),
           \A s \in Slots : inode'[s].ref = inode[s].ref - LocOwn(loc[p], s) + LocOwn(m, s),
           \A s \in Slots : inode[s].ref > 0 /\ inode[s].valid => inode'[s].valid,
           \A s \in Slots : lock[s] # NoProc /\ lock[s] # p => lock'[s] = lock[s],
           m.pc \in HeldDp => lock'[m.dp] = p /\ inode'[m.dp].valid,
           m.pc \in HeldIp => lock'[m.ip] = p /\ inode'[m.ip].valid
    PROVE  CacheInv'
<1>1. ProcsOK
  BY DEF CacheInv
<1>2. loc' = [loc EXCEPT ![p] = loc'[p]] /\ loc'[p] = m
  BY <1>1 DEF ProcsOK
<1>3. /\ cwd' = [cwd EXCEPT ![p] = cwd'[p]] /\ cwd'[p] \in Slots
      /\ ofile' = [ofile EXCEPT ![p] = ofile'[p]] /\ ofile'[p] \in 0 .. NINODE
  BY <1>1, StillProcs
<1>4. ASSUME NEW s \in Slots
      PROVE  inode'[s].ref = inode[s].ref - Own(cwd[p], ofile[p], loc[p], s)
                                            + Own(cwd'[p], ofile'[p], loc'[p], s)
  <2>1. inode[s].ref \in Nat
    BY Unpack
  <2>2. PICK c, o, l, r, x : /\ c = cwd[p] /\ o = ofile[p] /\ l = loc[p]
                             /\ r = inode[s].ref /\ x = inode'[s].ref
    OBVIOUS
  <2>3. r \in Nat /\ x = r - LocOwn(l, s) + LocOwn(m, s)
    BY <2>1, <2>2
  <2>4. x = r - Own(c, o, l, s) + Own(c, o, m, s)
    BY <2>3, OwnSwap
  <2> QED BY <1>2, <2>2, <2>4
<1>5. \A s \in Slots : Holds(loc'[p], s) => lock'[s] = p /\ inode'[s].valid
  BY <1>2 DEF Holds
<1>6. FreesAnother(loc'[p])
  BY <1>2 DEF FreesAnother
<1>7. \A s \in Slots : lock[s] # NoProc /\ lock[s] # p /\ inode[s].ref > 0 /\ inode[s].valid
                       => lock'[s] = lock[s] /\ inode'[s].valid
  OBVIOUS
<1> QED BY <1>2, <1>3, <1>4, <1>5, <1>6, <1>7, StepInv

LEMMA LastName ==
    ASSUME NEW x \in Seq(Elems), Len(x) = 1
    PROVE  x # <<>> /\ Head(x) \in Elems
<1>1. x # <<>>
  BY EmptySeq
<1> QED BY <1>1

LEMMA CreateFoundInv ==
    ASSUME CacheInv, NEW p \in Procs, CreateFound(p)
    PROVE  CacheInv'
<1>1. PICK l, s : l = loc[p] /\ s = loc[p].dp
  OBVIOUS
<1>2. PICK i : i = Lookup(Content(s), Head(l.path))
  OBVIOUS
<1>3. /\ l.puts = <<>> /\ l.pc \in Creates /\ Locks(s) /\ i # 0 /\ CanGet(i)
      /\ inode' = Iget(Load(s), i) /\ UNCHANGED <<disk, lock, cwd, ofile>>
  BY <1>1, <1>2 DEF CreateFound, At
<1>4. loc' = [loc EXCEPT ![p].pc = "existing", ![p].ip = IgetSlot(i), ![p].dp = 0, ![p].puts = <<s>>]
  BY <1>1, <1>2 DEF CreateFound
<1>5. /\ l \in Locals /\ Shape(l) /\ l.put = "test" /\ s \in Slots /\ inode[s].ref > 0 /\ l.dp = s
      /\ \A t \in Slots : LocOwn(l, t) = One(l.ip = t) + One(s = t)
  BY <1>1, <1>3, AtFacts, AtPtrs DEF HasDp, Creates, Parent
<1>6. l.call = l.pc /\ l.ip = 0 /\ Len(l.path) = 1 /\ l.path \in Seq(Elems)
  BY <1>3, <1>5 DEF Shape, Locals, HasIp, Creates, Parent
<1>7. Head(l.path) \in Elems
  BY <1>6, LastName
<1>8. Content(s) \in DInode
  BY <1>3, <1>5, LocksOK
<1>9. i \in Inums
  BY <1>2, <1>3, <1>7, <1>8, LookupIn, Unpack
<1>10. PICK u, x : u = IgetSlot(i) /\ x = <<s>>
  OBVIOUS
<1>11. u \in Slots /\ u # 0 /\ u \in 0 .. NINODE /\ 0 \in 0 .. NINODE
  <2>1. u \in Slots
    BY <1>3, <1>9, <1>10, IgetSlotIs, Unpack
  <2> QED BY <2>1, FsAssumption DEF Slots
<1>12. x \in Seq(Slots) /\ Len(x) <= 2 /\ x # <<>>
  BY <1>5, <1>10
<1>13. PICK m : m = [l EXCEPT !.pc = "existing", !.ip = u, !.dp = 0, !.puts = x]
  OBVIOUS
<1>14. loc' = [loc EXCEPT ![p] = m]
  BY <1>1, <1>4, <1>10, <1>13, Unpack DEF ProcsOK
<1>15. m \in Locals
  BY <1>5, <1>11, <1>12, <1>13 DEF Locals, Pcs, HasIp
<1>16. /\ m.pc = "existing" /\ m.call = l.call /\ m.puts = x /\ m.put = "test" /\ m.ip = u /\ m.dp = 0
       /\ m.path = l.path
  BY <1>5, <1>13 DEF Locals
<1>17. Shape(m)
  BY <1>3, <1>6, <1>11, <1>12, <1>16 DEF Shape, HasDp, HasIp, Parent, LinkPcs, Creates
<1>18. m.pc \notin Held
  BY <1>16 DEF Held, HeldDp, HeldIp
<1>19. \A t \in Slots : LocOwn(m, t) = LocOwn(loc[p], t) + One(IgetSlot(i) = t)
  <2> SUFFICES ASSUME NEW t \in Slots PROVE LocOwn(m, t) = LocOwn(loc[p], t) + One(u = t)
    BY <1>10
  <2>1. LocOwn(m, t) = One(m.ip = t) + One(s = t)
    BY <1>10, <1>16, LocOwnIs
  <2>2. LocOwn(l, t) = One(0 = t) + One(s = t)
    BY <1>5, <1>6
  <2>3. One(0 = t) = 0 /\ One(s = t) \in Nat /\ One(u = t) \in Nat
    BY DEF One, Slots
  <2> QED BY <1>1, <1>16, <2>1, <2>2, <2>3
<1> QED BY <1>3, <1>5, <1>9, <1>14, <1>15, <1>16, <1>17, <1>18, <1>19, GetStep

LEMMA LinkEnterInv ==
    ASSUME CacheInv, NEW p \in Procs, LinkEnter(p)
    PROVE  CacheInv'
<1>1. PICK l, s, n, j : l = loc[p] /\ s = loc[p].dp /\ n = Head(loc[p].path) /\ j = inode[loc[p].ip].inum
  OBVIOUS
<1>2. /\ l.puts = <<>> /\ l.pc = "linkto" /\ Locks(s) /\ inode' = Load(s)
      /\ dirent' = [dirent EXCEPT ![Content(s).addrs[0]][n] = j]
      /\ UNCHANGED <<dinode, used, ptr, lock, cwd, ofile>>
  BY <1>1 DEF LinkEnter, At
<1>3. loc' = [loc EXCEPT ![p] = [Idle EXCEPT !.puts = <<s, l.ip>>]]
  BY <1>1 DEF LinkEnter
<1>4. /\ l \in Locals /\ Shape(l) /\ s \in Slots /\ inode[s].ref > 0 /\ l.dp = s
      /\ \A t \in Slots : LocOwn(l, t) = One(l.ip = t) + One(s = t)
  BY <1>1, <1>2, AtFacts, AtPtrs DEF HasDp, Parent
<1>5. l.ip # 0
  BY <1>2, <1>4 DEF Shape, Parent
<1>6. l.ip \in Slots /\ inode[l.ip].ref > 0
  BY <1>1, <1>2, <1>5, AtFacts
<1>7. j \in Inums
  BY <1>1, <1>6, Unpack DEF CacheOK
<1>8. PICK x, m : x = <<s, l.ip>> /\ m = IdlePuts(x)
  OBVIOUS
<1>9. x \in Seq(Slots) /\ Len(x) <= 2
  BY <1>4, <1>6, <1>8
<1>10. loc' = [loc EXCEPT ![p] = m]
  BY <1>3, <1>8, IdleIs
<1>11. m \in Locals /\ Shape(m) /\ m.put = "test" /\ m.pc \notin Held /\ m.ip = 0 /\ m.dp = 0 /\ m.puts = x
  <2>1. m = IdlePuts(x)
    BY <1>8
  <2> QED BY <1>9, <2>1, IdleOK
<1>12. /\ CacheOK(dinode, inode') /\ SameRefs(inode')
       /\ \A t \in Slots : inode[t].valid => inode'[t].valid
  BY <1>2, <1>4, LocksOK
<1>13. ASSUME NEW t \in Slots
       PROVE  inode'[t].ref = inode[t].ref - LocOwn(loc[p], t) + LocOwn(m, t)
  <2>1. LocOwn(m, t) = One(s = t) + One(l.ip = t)
    BY <1>8, <1>11, LocOwnIs
  <2>2. LocOwn(loc[p], t) = One(l.ip = t) + One(s = t)
    BY <1>1, <1>4
  <2>3. One(l.ip = t) \in Nat /\ One(s = t) \in Nat /\ inode[t].ref \in Nat /\ inode'[t].ref = inode[t].ref
    BY <1>12, Unpack DEF One, SameRefs
  <2> QED BY <2>1, <2>2, <2>3
<1>14. DiskOK'
  <2>1. j \in 0 .. NInodes
    BY <1>7 DEF Inums
  <2>2. dirent' \in [Blocks -> [Elems -> 0 .. NInodes]]
    BY <1>2, <2>1, Unpack DEF DiskOK
  <2> QED BY <1>2, <2>2, Unpack DEF DiskOK
<1>15. lock' = lock /\ cwd' = cwd /\ ofile' = ofile /\ CacheOK(dinode', inode')
  BY <1>2, <1>12
<1> QED BY <1>10, <1>11, <1>12, <1>13, <1>14, <1>15, CallStep

\* The lock of s is taken and kept, and a reference to inode i is taken.
LEMMA GetHold ==
    ASSUME CacheInv, NEW p \in Procs, DiskOK', cwd' = cwd, ofile' = ofile,
           NEW s \in Slots, inode[s].ref > 0, Locks(s), lock' = [lock EXCEPT ![s] = p],
           CacheOK(dinode', Load(s)),
           NEW i \in Inums, CanGet(i), inode' = Iget(Load(s), i),
           NEW m \in Locals, Shape(m), m.put = "test", m.pc \in HeldDp, m.dp = s,
           loc' = [loc EXCEPT ![p] = m],
           \A t \in Slots : LocOwn(m, t) = LocOwn(loc[p], t) + One(IgetSlot(i) = t)
    PROVE  CacheInv'
<1>1. /\ SameRefs(Load(s)) /\ Load(s)[s].valid /\ lock[s] = NoProc
      /\ \A t \in Slots : inode[t].valid => Load(s)[t].valid
  BY LocksOK
<1>2. /\ CacheOK(dinode', inode')
      /\ \A t \in Slots : inode'[t].ref = inode[t].ref + One(IgetSlot(i) = t)
      /\ \A t \in Slots : inode[t].ref > 0 => inode'[t].valid = Load(s)[t].valid
  BY <1>1, GetOK
<1>3. \A t \in Slots : inode[t].ref > 0 /\ inode[t].valid => inode'[t].valid
  BY <1>1, <1>2
<1>4. ASSUME NEW t \in Slots
      PROVE  inode'[t].ref = inode[t].ref - LocOwn(loc[p], t) + LocOwn(m, t)
  <2>1. inode[t].ref \in Nat /\ LocOwn(loc[p], t) \in Nat /\ One(IgetSlot(i) = t) \in Nat
    BY Unpack DEF LocOwn, PutsOwn, One
  <2>2. LocOwn(m, t) = LocOwn(loc[p], t) + One(IgetSlot(i) = t)
    OBVIOUS
  <2>3. inode'[t].ref = inode[t].ref + One(IgetSlot(i) = t)
    BY <1>2
  <2> QED BY <2>1, <2>2, <2>3
<1>5. /\ lock' \in [Slots -> Procs \cup {NoProc}] /\ lock'[s] = p
      /\ \A t \in Slots : lock[t] # NoProc /\ lock[t] # p => lock'[t] = lock[t]
  BY <1>1, Unpack DEF ProcsOK
<1>6. inode'[s].valid
  BY <1>1, <1>2
<1>7. m.pc \notin HeldIp
  BY DEF HeldDp, HeldIp
<1> QED BY <1>2, <1>3, <1>4, <1>5, <1>6, <1>7, HoldStep

\* The lock of s is released, and nothing else.
LEMMA ReleaseStep ==
    ASSUME CacheInv, NEW p \in Procs, UNCHANGED <<disk, inode, cwd, ofile>>,
           NEW s \in Slots, lock[s] = p, lock' = [lock EXCEPT ![s] = NoProc],
           NEW m \in Locals, Shape(m), m.put = "test", m.pc \notin Held,
           loc' = [loc EXCEPT ![p] = m],
           \A t \in Slots : LocOwn(m, t) = LocOwn(loc[p], t)
    PROVE  CacheInv'
<1>1. DiskOK' /\ cwd' = cwd /\ ofile' = ofile /\ CacheOK(dinode', inode') /\ inode' = inode
  BY Unpack DEF DiskOK, disk
<1>2. ASSUME NEW t \in Slots
      PROVE  inode'[t].ref = inode[t].ref - LocOwn(loc[p], t) + LocOwn(m, t)
  <2>1. inode[t].ref \in Nat /\ LocOwn(loc[p], t) \in Nat /\ LocOwn(m, t) = LocOwn(loc[p], t)
    BY Unpack DEF LocOwn, PutsOwn, One
  <2> QED BY <1>1, <2>1
<1>3. /\ lock' \in [Slots -> Procs \cup {NoProc}]
      /\ \A t \in Slots : lock[t] # NoProc /\ lock[t] # p => lock'[t] = lock[t]
  BY Unpack DEF ProcsOK
<1>4. \A t \in Slots : inode[t].ref > 0 /\ inode[t].valid => inode'[t].valid
  BY <1>1
<1>5. m.pc \notin HeldDp /\ m.pc \notin HeldIp
  BY DEF Held
<1> QED BY <1>1, <1>2, <1>3, <1>4, <1>5, HoldStep

\* What p has locked.
LEMMA HeldFacts ==
    ASSUME CacheInv, NEW p \in Procs
    PROVE  /\ loc[p].pc \in HeldDp => /\ loc[p].dp \in Slots /\ lock[loc[p].dp] = p
                                      /\ inode[loc[p].dp].ref > 0 /\ inode[loc[p].dp].valid
           /\ loc[p].pc \in HeldIp => /\ loc[p].ip \in Slots /\ lock[loc[p].ip] = p
                                      /\ inode[loc[p].ip].ref > 0 /\ inode[loc[p].ip].valid
<1>1. Shape(loc[p]) /\ Locked
  BY Unpack, LocType
<1>2. ASSUME loc[p].pc \in HeldDp
      PROVE  loc[p].dp \in Slots /\ inode[loc[p].dp].ref > 0 /\ Holds(loc[p], loc[p].dp)
  <2>1. loc[p].dp # 0
    BY <1>1, <1>2 DEF Shape, HeldDp, HasDp
  <2> QED BY <1>2, <2>1, Unpack, LocType, PtrRefs DEF Holds
<1>3. ASSUME loc[p].pc \in HeldIp
      PROVE  loc[p].ip \in Slots /\ inode[loc[p].ip].ref > 0 /\ Holds(loc[p], loc[p].ip)
  <2>1. loc[p].ip # 0
    BY <1>1, <1>3 DEF Shape, HeldIp, HasIp
  <2> QED BY <1>3, <2>1, Unpack, LocType, PtrRefs DEF Holds
<1> QED BY <1>1, <1>2, <1>3 DEF Locked

LEMMA LinkBadInv ==
    ASSUME CacheInv, NEW p \in Procs, LinkBad(p)
    PROVE  CacheInv'
<1>1. PICK l, s, x : l = loc[p] /\ s = loc[p].dp /\ x = <<s>>
  OBVIOUS
<1>2. /\ l.puts = <<>> /\ l.pc = "linkbad" /\ lock' = [lock EXCEPT ![s] = NoProc]
      /\ UNCHANGED <<disk, inode, cwd, ofile>>
  BY <1>1 DEF LinkBad, At
<1>3. loc' = [loc EXCEPT ![p].pc = "unlinked", ![p].dp = 0, ![p].puts = x]
  BY <1>1 DEF LinkBad
<1>4. /\ l \in Locals /\ Shape(l) /\ l.put = "test"
      /\ \A t \in Slots : LocOwn(l, t) = One(l.ip = t) + One(s = t)
  BY <1>1, <1>2, AtFacts
<1>5. s \in Slots /\ lock[s] = p
  BY <1>1, <1>2, HeldFacts DEF HeldDp
<1>6. PICK m : m = [l EXCEPT !.pc = "unlinked", !.dp = 0, !.puts = x]
  OBVIOUS
<1>7. loc' = [loc EXCEPT ![p] = m]
  BY <1>1, <1>3, <1>6, Unpack DEF ProcsOK
<1>8. x \in Seq(Slots) /\ Len(x) <= 2 /\ x # <<>> /\ 0 \in 0 .. NINODE
  BY <1>1, <1>5, FsAssumption
<1>9. m \in Locals
  BY <1>4, <1>6, <1>8 DEF Locals, Pcs
<1>10. /\ m.pc = "unlinked" /\ m.call = l.call /\ m.puts = x /\ m.put = "test" /\ m.ip = l.ip /\ m.dp = 0
       /\ m.path = l.path
  BY <1>4, <1>6 DEF Locals
<1>11. Shape(m)
  BY <1>2, <1>4, <1>8, <1>10 DEF Shape, HasDp, HasIp, Parent, LinkPcs
<1>12. m.pc \notin Held
  BY <1>10 DEF Held, HeldDp, HeldIp
<1>13. \A t \in Slots : LocOwn(m, t) = LocOwn(loc[p], t)
  <2>1. \A t \in Slots : LocOwn(m, t) = One(m.ip = t) + One(s = t)
    BY <1>1, <1>10, LocOwnIs
  <2> QED BY <1>1, <1>4, <1>10, <2>1
<1> QED BY <1>2, <1>5, <1>7, <1>9, <1>10, <1>11, <1>12, <1>13, ReleaseStep

LEMMA UnlinkBadInv ==
    ASSUME CacheInv, NEW p \in Procs, UnlinkBad(p)
    PROVE  CacheInv'
<1>1. PICK l, s : l = loc[p] /\ s = loc[p].dp
  OBVIOUS
<1>2. /\ l.puts = <<>> /\ l.pc = "unlinkbad" /\ lock' = [lock EXCEPT ![s] = NoProc]
      /\ UNCHANGED <<disk, inode, cwd, ofile>>
  BY <1>1 DEF UnlinkBad, At
<1>3. loc' = [loc EXCEPT ![p] = Gives(s)]
  BY <1>1 DEF UnlinkBad, Gives
<1>4. /\ l \in Locals /\ Shape(l)
      /\ \A t \in Slots : LocOwn(l, t) = One(l.ip = t) + One(s = t)
  BY <1>1, <1>2, AtFacts
<1>5. s \in Slots /\ lock[s] = p
  BY <1>1, <1>2, HeldFacts DEF HeldDp
<1>6. PICK m : m = Gives(s)
  OBVIOUS
<1>7. /\ m \in Locals /\ Shape(m) /\ m.put = "test" /\ m.pc \notin Held
      /\ \A t \in Slots : LocOwn(m, t) = One(s = t)
  BY <1>5, <1>6, GivesBack
<1>8. l.ip = 0
  BY <1>2, <1>4 DEF Shape, HasIp, LinkPcs
<1>9. ASSUME NEW t \in Slots PROVE LocOwn(m, t) = LocOwn(loc[p], t)
  <2>1. One(l.ip = t) = 0 /\ One(s = t) \in Nat
    BY <1>8 DEF One, Slots
  <2>2. LocOwn(l, t) = One(l.ip = t) + One(s = t) /\ LocOwn(m, t) = One(s = t)
    BY <1>4, <1>7
  <2> QED BY <1>1, <2>1, <2>2
<1> QED BY <1>2, <1>3, <1>5, <1>6, <1>7, <1>9, ReleaseStep

\* The lookup of the last name in the directory that the locals l have in hand.
LEMMA DirLookup ==
    ASSUME CacheInv, NEW p \in Procs, loc[p].puts = <<>>, loc[p].pc \in Parent, Locks(loc[p].dp)
    PROVE  /\ loc[p].dp \in Slots /\ inode[loc[p].dp].ref > 0 /\ loc[p].dp # 0
           /\ loc[p].call = loc[p].pc /\ Len(loc[p].path) = 1 /\ Head(loc[p].path) \in Elems
           /\ loc[p].path \in Seq(Elems)
           /\ Lookup(Content(loc[p].dp), Head(loc[p].path)) # 0
                => Lookup(Content(loc[p].dp), Head(loc[p].path)) \in Inums
<1>1. /\ loc[p] \in Locals /\ Shape(loc[p]) /\ loc[p].dp \in Slots /\ inode[loc[p].dp].ref > 0 /\ loc[p].dp # 0
  BY AtFacts, AtPtrs DEF HasDp
<1>2. loc[p].call = loc[p].pc /\ Len(loc[p].path) = 1 /\ loc[p].path \in Seq(Elems)
  BY <1>1 DEF Shape, Locals
<1>3. Head(loc[p].path) \in Elems
  BY <1>2, LastName
<1>4. Content(loc[p].dp) \in DInode
  BY <1>1, LocksOK
<1> QED BY <1>1, <1>2, <1>3, <1>4, LookupIn, Unpack

LEMMA IgetIn ==
    ASSUME CacheInv, NEW i \in Inums, CanGet(i)
    PROVE  IgetSlot(i) \in Slots /\ IgetSlot(i) # 0 /\ IgetSlot(i) \in 0 .. NINODE /\ 0 \in 0 .. NINODE
<1>1. IgetSlot(i) \in Slots
  BY IgetSlotIs, Unpack
<1> QED BY <1>1, FsAssumption DEF Slots

LEMMA LinkExistsInv ==
    ASSUME CacheInv, NEW p \in Procs, LinkExists(p)
    PROVE  CacheInv'
<1>1. PICK l, s : l = loc[p] /\ s = loc[p].dp
  OBVIOUS
<1>2. PICK i : i = Lookup(Content(s), Head(l.path))
  OBVIOUS
<1>3. /\ l.puts = <<>> /\ l.pc = "linkto" /\ Locks(s) /\ i # 0 /\ CanGet(i)
      /\ inode' = Iget(Load(s), i) /\ lock' = [lock EXCEPT ![s] = p]
      /\ UNCHANGED <<disk, cwd, ofile>>
  BY <1>1, <1>2 DEF LinkExists, At
<1>4. PICK u, x : u = IgetSlot(i) /\ x = <<u>>
  OBVIOUS
<1>5. loc' = [loc EXCEPT ![p].pc = "linkbad", ![p].puts = x]
  BY <1>1, <1>2, <1>4 DEF LinkExists
<1>6. /\ l \in Locals /\ Shape(l) /\ l.put = "test"
      /\ \A t \in Slots : LocOwn(l, t) = One(l.ip = t) + One(l.dp = t)
  BY <1>1, <1>3, AtFacts
<1>7. s \in Slots /\ inode[s].ref > 0 /\ i \in Inums /\ s # 0
  BY <1>1, <1>2, <1>3, DirLookup DEF Parent
<1>8. u \in Slots
  BY <1>3, <1>4, <1>7, IgetIn
<1>9. PICK m : m = [l EXCEPT !.pc = "linkbad", !.puts = x]
  OBVIOUS
<1>10. loc' = [loc EXCEPT ![p] = m]
  BY <1>1, <1>5, <1>9, Unpack DEF ProcsOK
<1>11. x \in Seq(Slots) /\ Len(x) <= 2 /\ x # <<>>
  BY <1>4, <1>8
<1>12. m \in Locals
  BY <1>6, <1>9, <1>11 DEF Locals, Pcs, HasDp
<1>13. /\ m.pc = "linkbad" /\ m.call = l.call /\ m.puts = x /\ m.put = "test" /\ m.ip = l.ip /\ m.dp = l.dp
       /\ m.path = l.path
  BY <1>6, <1>9 DEF Locals
<1>14. Shape(m)
  BY <1>3, <1>6, <1>11, <1>13 DEF Shape, HasDp, HasIp, Parent, LinkPcs
<1>15. m.pc \in HeldDp /\ m.dp = s
  BY <1>1, <1>13 DEF HeldDp
<1>16. \A t \in Slots : LocOwn(m, t) = LocOwn(loc[p], t) + One(IgetSlot(i) = t)
  <2> SUFFICES ASSUME NEW t \in Slots PROVE LocOwn(m, t) = LocOwn(loc[p], t) + One(u = t)
    BY <1>4
  <2>1. LocOwn(m, t) = One(m.ip = t) + One(m.dp = t) + One(u = t)
    BY <1>4, <1>13, LocOwnIs
  <2>2. LocOwn(loc[p], t) = One(m.ip = t) + One(m.dp = t)
    BY <1>1, <1>6, <1>13
  <2> QED BY <2>1, <2>2
<1>17. DiskOK' /\ cwd' = cwd /\ ofile' = ofile /\ dinode' = dinode
  BY <1>3, Unpack DEF DiskOK, disk
<1>18. CacheOK(dinode', Load(s))
  BY <1>3, <1>7, <1>17, LocksOK
<1>19. Locks(s) /\ CanGet(i) /\ inode' = Iget(Load(s), i) /\ lock' = [lock EXCEPT ![s] = p]
  BY <1>3
<1> QED BY <1>7, <1>10, <1>12, <1>13, <1>14, <1>15, <1>16, <1>17, <1>18, <1>19, GetHold

\* The locals of a call that keeps its directory locked and has the inode u.
Takes(l, c, u) == [l EXCEPT !.pc = c, !.ip = u]

LEMMA TakesOK ==
    ASSUME CacheInv, NEW p \in Procs, loc[p].puts = <<>>, loc[p].pc \in {"unlink"} \cup Creates,
           NEW u \in Slots, NEW c \in {"remove", "new"}, c = "new" => loc[p].pc \in Creates,
           NEW m, m = Takes(loc[p], c, u)
    PROVE  /\ m \in Locals /\ Shape(m) /\ m.put = "test" /\ m.pc \in HeldDp /\ m.dp = loc[p].dp
           /\ m.pc = c /\ m.ip = u /\ m.path = loc[p].path /\ m.call = loc[p].call /\ m.puts = <<>>
           /\ \A t \in Slots : LocOwn(m, t) = LocOwn(loc[p], t) + One(u = t)
<1>1. /\ loc[p] \in Locals /\ Shape(loc[p]) /\ loc[p].put = "test"
      /\ \A t \in Slots : LocOwn(loc[p], t) = One(loc[p].ip = t) + One(loc[p].dp = t)
  BY AtFacts
<1>2. loc[p].ip = 0 /\ loc[p].call = loc[p].pc /\ Len(loc[p].path) = 1 /\ loc[p].dp # 0
  BY <1>1 DEF Shape, Creates, HasIp, HasDp, Parent, LinkPcs
<1>3. u # 0 /\ u \in 0 .. NINODE
  BY FsAssumption DEF Slots
<1>4. m \in Locals
  BY <1>1, <1>3 DEF Locals, Pcs, HasDp, Takes
<1>5. /\ m.pc = c /\ m.ip = u /\ m.path = loc[p].path /\ m.call = loc[p].call /\ m.puts = <<>>
      /\ m.dp = loc[p].dp /\ m.put = "test"
  BY <1>1 DEF Locals, Takes
<1>6. Shape(m)
  BY <1>1, <1>2, <1>3, <1>5 DEF Shape, HasDp, HasIp, Parent, LinkPcs, Creates
<1>7. m.pc \in HeldDp
  BY <1>5 DEF HeldDp
<1>8. ASSUME NEW t \in Slots PROVE LocOwn(m, t) = LocOwn(loc[p], t) + One(u = t)
  <2>1. LocOwn(m, t) = One(m.ip = t) + One(m.dp = t)
    <3>1. m.puts = <<>>
      BY <1>5
    <3> QED BY <3>1, LocOwnIs
  <2>2. LocOwn(loc[p], t) = One(0 = t) + One(loc[p].dp = t)
    BY <1>1, <1>2
  <2>3. One(0 = t) = 0 /\ One(u = t) \in Nat /\ One(loc[p].dp = t) \in Nat
    BY DEF One, Slots
  <2> QED BY <1>5, <2>1, <2>2, <2>3
<1> QED BY <1>4, <1>5, <1>6, <1>7, <1>8

LEMMA UnlinkLookupInv ==
    ASSUME CacheInv, NEW p \in Procs, UnlinkLookup(p)
    PROVE  CacheInv'
<1>1. PICK l, s : l = loc[p] /\ s = loc[p].dp
  OBVIOUS
<1>2. PICK i : i = Lookup(Content(s), Head(l.path))
  OBVIOUS
<1>3. /\ l.puts = <<>> /\ l.pc = "unlink" /\ Locks(s) /\ UNCHANGED <<disk, cwd, ofile>>
  BY <1>1 DEF UnlinkLookup, At
<1>4. \/ /\ inode' = Load(s) /\ lock' = lock
         /\ loc' = [loc EXCEPT ![p] = Gives(s)]
      \/ /\ i # 0 /\ CanGet(i)
         /\ inode' = Iget(Load(s), i)
         /\ lock' = [lock EXCEPT ![s] = p]
         /\ loc' = [loc EXCEPT ![p].pc = "remove", ![p].ip = IgetSlot(i)]
  BY <1>1, <1>2 DEF UnlinkLookup, Gives
<1>5. s \in Slots /\ inode[s].ref > 0 /\ (i # 0 => i \in Inums)
  BY <1>1, <1>2, <1>3, DirLookup DEF Parent
<1>6. DiskOK' /\ cwd' = cwd /\ ofile' = ofile /\ dinode' = dinode
  BY <1>3, Unpack DEF DiskOK, disk
<1>7. CASE inode' = Load(s) /\ lock' = lock /\ loc' = [loc EXCEPT ![p] = Gives(s)]
  <2>1. PICK m : m = Gives(s)
    OBVIOUS
  <2>2. /\ m \in Locals /\ Shape(m) /\ m.put = "test" /\ m.pc \notin Held
        /\ \A t \in Slots : LocOwn(m, t) = One(s = t)
    BY <1>5, <2>1, GivesBack
  <2>3. l.ip = 0 /\ \A t \in Slots : LocOwn(l, t) = One(l.ip = t) + One(s = t)
    BY <1>1, <1>3, AtFacts DEF Shape, HasIp, LinkPcs
  <2>4. ASSUME NEW t \in Slots PROVE LocOwn(m, t) = LocOwn(loc[p], t)
    <3>1. One(l.ip = t) = 0 /\ One(s = t) \in Nat
      BY <2>3 DEF One, Slots
    <3>2. LocOwn(l, t) = One(l.ip = t) + One(s = t) /\ LocOwn(m, t) = One(s = t)
      BY <2>2, <2>3
    <3> QED BY <1>1, <3>1, <3>2
  <2>5. UNCHANGED <<disk, lock, cwd, ofile>>
    BY <1>3, <1>7
  <2> QED BY <1>3, <1>5, <1>7, <2>1, <2>2, <2>4, <2>5, LoadStep
<1>8. CASE /\ i # 0 /\ CanGet(i)
           /\ inode' = Iget(Load(s), i)
           /\ lock' = [lock EXCEPT ![s] = p]
           /\ loc' = [loc EXCEPT ![p].pc = "remove", ![p].ip = IgetSlot(i)]
  <2>9. PICK c \in {"remove", "new"} : c = "remove"
    OBVIOUS
  <2>1. PICK m : m = Takes(loc[p], c, IgetSlot(i))
    OBVIOUS
  <2>2. loc' = [loc EXCEPT ![p] = m]
    BY <1>8, <2>1, <2>9, Unpack DEF ProcsOK, Takes
  <2>3. IgetSlot(i) \in Slots
    BY <1>5, <1>8, IgetIn
  <2>7. loc[p].puts = <<>> /\ loc[p].pc \in {"unlink"} \cup Creates
    BY <1>1, <1>3
  <2>8. /\ m \in Locals /\ Shape(m) /\ m.put = "test" /\ m.pc \in HeldDp /\ m.dp = loc[p].dp
        /\ \A t \in Slots : LocOwn(m, t) = LocOwn(loc[p], t) + One(IgetSlot(i) = t)
    BY <2>1, <2>3, <2>7, <2>9, TakesOK
  <2>4. /\ m \in Locals /\ Shape(m) /\ m.put = "test" /\ m.pc \in HeldDp /\ m.dp = s
        /\ \A t \in Slots : LocOwn(m, t) = LocOwn(loc[p], t) + One(IgetSlot(i) = t)
    BY <1>1, <2>8
  <2>5. CacheOK(dinode', Load(s))
    BY <1>3, <1>5, <1>6, LocksOK
  <2>6. i \in Inums /\ CanGet(i) /\ inode' = Iget(Load(s), i) /\ lock' = [lock EXCEPT ![s] = p] /\ Locks(s)
    BY <1>3, <1>5, <1>8
  <2> QED BY <1>5, <1>6, <2>2, <2>4, <2>5, <2>6, GetHold
<1> QED BY <1>4, <1>7, <1>8

LEMMA NullIn == Null \in DInode /\ Null.type = "none" /\ Null.nlink = 0 /\ Null.addrs = NoAddrs
BY FsAssumption DEF Null, DInode, NoAddrs

\* An inode as ialloc leaves it.
Fresh(c) == [Null EXCEPT !.type = Makes(c)]

LEMMA FreshIn ==
    ASSUME NEW c, NEW d, d = Fresh(c)
    PROVE  d \in DInode /\ d.type \in {"dir", "file", "dev"} /\ d.nlink = 0 /\ d.addrs = NoAddrs
           /\ (d.type = "dir" <=> c = "mkdir")
<1>1. Makes(c) \in {"dir", "file", "dev"} /\ (Makes(c) = "dir" <=> c = "mkdir")
  BY DEF Makes
<1> HIDE DEF Makes
<1>2. d = [type |-> Makes(c), nlink |-> 0, addrs |-> NoAddrs]
  BY DEF Null, Fresh
<1>3. NoAddrs \in [0 .. NDIRECT -> 0 .. NBlocks]
  BY FsAssumption DEF NoAddrs
<1>4. PICK k, a : k = Makes(c) /\ a = NoAddrs
  OBVIOUS
<1>5. d = [type |-> k, nlink |-> 0, addrs |-> a] /\ a \in [0 .. NDIRECT -> 0 .. NBlocks]
  BY <1>2, <1>3, <1>4
<1>8. k \in {"none", "dir", "file", "dev"} /\ k \in {"dir", "file", "dev"} /\ (k = "dir" <=> c = "mkdir")
  BY <1>1, <1>4
<1>9. PICK T, A : T = {"none", "dir", "file", "dev"} /\ A = [0 .. NDIRECT -> 0 .. NBlocks]
  OBVIOUS
<1>6. d \in DInode
  <2>2. k \in T /\ a \in A /\ 0 \in Int
    BY <1>5, <1>8, <1>9
  <2>3. d = [type |-> k, nlink |-> 0, addrs |-> a]
    BY <1>5
  <2>1. d \in [type : T, nlink : Int, addrs : A]
    BY <2>2, <2>3
  <2> QED BY <1>9, <2>1 DEF DInode
<1>7. d.type = k /\ d.nlink = 0 /\ d.addrs = a
  BY <1>5
<1> QED BY <1>4, <1>6, <1>7, <1>8

LEMMA FreeInumIn ==
    ASSUME FreeInums # {}
    PROVE  Min(FreeInums) \in Inums /\ dinode[Min(FreeInums)].type = "none"
<1>1. FreeInums \in SUBSET Nat
  BY DEF FreeInums, Inums
<1>2. Min(FreeInums) \in FreeInums
  BY <1>1, MinIn
<1> QED BY <1>2 DEF FreeInums

LEMMA CreateAllocInv ==
    ASSUME CacheInv, NEW p \in Procs, CreateAlloc(p)
    PROVE  CacheInv'
<1>1. PICK l, s, i : l = loc[p] /\ s = loc[p].dp /\ i = Min(FreeInums)
  OBVIOUS
<1>2. PICK d : d = Fresh(l.call)
  OBVIOUS
<1>3. /\ l.puts = <<>> /\ l.pc \in Creates /\ Locks(s) /\ FreeInums # {} /\ CanGet(i)
      /\ inode' = Iget(Load(s), i) /\ lock' = [lock EXCEPT ![s] = p]
      /\ UNCHANGED <<used, dirent, ptr, cwd, ofile>>
  BY <1>1 DEF CreateAlloc, At
<1>4. dinode' = With(dinode, i, d)
  BY <1>1, <1>2 DEF CreateAlloc, With, Fresh
<1>5. PICK c \in {"remove", "new"} : c = "new"
  OBVIOUS
<1>6. PICK m : m = Takes(loc[p], c, IgetSlot(i))
  OBVIOUS
<1>7. loc' = [loc EXCEPT ![p] = m]
  BY <1>1, <1>5, <1>6, Unpack DEF CreateAlloc, ProcsOK, Takes
<1>8. s \in Slots /\ inode[s].ref > 0
  BY <1>1, <1>3, DirLookup DEF Parent, Creates
<1>9. i \in Inums /\ dinode[i].type = "none"
  BY <1>1, <1>3, FreeInumIn
<1>10. IgetSlot(i) \in Slots
  BY <1>3, <1>9, IgetIn
<1>11. loc[p].puts = <<>> /\ loc[p].pc \in {"unlink"} \cup Creates /\ loc[p].pc \in Creates
  BY <1>1, <1>3
<1>12. /\ m \in Locals /\ Shape(m) /\ m.put = "test" /\ m.pc \in HeldDp /\ m.dp = loc[p].dp
       /\ \A t \in Slots : LocOwn(m, t) = LocOwn(loc[p], t) + One(IgetSlot(i) = t)
  BY <1>5, <1>6, <1>10, <1>11, TakesOK
<1>13. d \in DInode
  BY <1>2, FreshIn
<1>14. dinode' \in [Inums -> DInode] /\ \A j \in Inums : j # i => dinode'[j] = dinode[j]
  BY <1>4, <1>9, <1>13, Unpack DEF With, DiskOK
<1>15. DiskOK'
  BY <1>3, <1>14, Unpack DEF DiskOK
<1>16. CacheOK(dinode', Load(s))
  <2>1. CacheOK(dinode, Load(s))
    BY <1>3, <1>8, LocksOK
  <2> QED BY <1>9, <1>14, <2>1 DEF CacheOK
<1>17. cwd' = cwd /\ ofile' = ofile /\ lock' = [lock EXCEPT ![s] = p] /\ inode' = Iget(Load(s), i)
       /\ CanGet(i) /\ Locks(s)
  BY <1>3
<1>18. m.dp = s
  BY <1>1, <1>12
<1> QED BY <1>7, <1>8, <1>9, <1>12, <1>15, <1>16, <1>17, <1>18, GetHold

LEMMA CreatedInv ==
    ASSUME CacheInv, NEW p \in Procs, Created(p)
    PROVE  CacheInv'
<1>1. PICK s : s = loc[p].ip
  OBVIOUS
<1>2. /\ loc[p].puts = <<>> /\ loc[p].pc = "created" /\ lock' = [lock EXCEPT ![s] = NoProc]
      /\ disk' = disk /\ inode' = inode /\ cwd' = cwd
  BY <1>1 DEF Created, At
<1>3. \/ Opens(p, s)
      \/ ofile' = ofile /\ loc' = [loc EXCEPT ![p] = [Idle EXCEPT !.puts = <<s>>]]
  BY <1>1 DEF Created
<1>4. /\ Shape(loc[p]) /\ s \in Slots /\ lock[s] = p /\ loc[p].dp = 0 /\ loc[p].ip = s
      /\ \A t \in Slots : LocOwn(loc[p], t) = One(loc[p].ip = t) + One(loc[p].dp = t)
  BY <1>1, <1>2, AtFacts, AtPtrs, HeldFacts DEF HasIp, HasDp, Parent, HeldIp
<1>5. /\ loc' = [loc EXCEPT ![p] = loc'[p]]
      /\ loc'[p] \in Locals /\ Shape(loc'[p]) /\ loc'[p].put = "test" /\ loc'[p].pc \notin Held
      /\ ofile' = [ofile EXCEPT ![p] = ofile'[p]] /\ ofile'[p] \in 0 .. NINODE
      /\ \A t \in Slots : Own(cwd'[p], ofile'[p], loc'[p], t)
                            = One(cwd[p] = t) + One(ofile[p] = t) + One(s = t)
  BY <1>2, <1>3, <1>4, OpensOK
<1>7. ASSUME NEW t \in Slots
      PROVE  inode'[t].ref = inode[t].ref - Own(cwd[p], ofile[p], loc[p], t)
                                            + Own(cwd'[p], ofile'[p], loc'[p], t)
  <2>1. Own(cwd[p], ofile[p], loc[p], t) = One(cwd[p] = t) + One(ofile[p] = t) + LocOwn(loc[p], t)
    BY OwnLoc
  <2>2. LocOwn(loc[p], t) = One(s = t)
    <3>1. One(0 = t) = 0 /\ One(s = t) \in Nat
      BY DEF One, Slots
    <3> QED BY <1>4, <3>1
  <2>3. Own(cwd'[p], ofile'[p], loc'[p], t) = Own(cwd[p], ofile[p], loc[p], t)
    BY <1>5, <2>1, <2>2
  <2>4. inode'[t].ref = inode[t].ref /\ inode[t].ref \in Nat /\ Own(cwd[p], ofile[p], loc[p], t) \in Nat
    BY <1>2, PtrRef
  <2> QED BY <2>3, <2>4
<1>8. DiskOK' /\ CacheOK(dinode', inode')
  BY <1>2, Unpack DEF DiskOK, disk
<1>9. cwd' = [cwd EXCEPT ![p] = cwd'[p]] /\ cwd'[p] \in Slots
  BY <1>2, Unpack, StillProcs
<1>10. /\ lock' \in [Slots -> Procs \cup {NoProc}]
       /\ \A t \in Slots : lock[t] # NoProc /\ lock[t] # p /\ inode[t].ref > 0 /\ inode[t].valid
                             => lock'[t] = lock[t] /\ inode'[t].valid
  BY <1>2, <1>4, Unpack DEF ProcsOK
<1>11. \A t \in Slots : Holds(loc'[p], t) => lock'[t] = p /\ inode'[t].valid
  BY <1>5 DEF Holds, Held
<1>12. FreesAnother(loc'[p])
  BY <1>5 DEF FreesAnother
<1> QED BY <1>5, <1>7, <1>8, <1>9, <1>10, <1>11, <1>12, StepInv

LEMMA SameInv ==
    ASSUME CacheInv, UNCHANGED <<dinode, used, dirent, ptr, inode, lock, cwd, ofile, loc>>
    PROVE  CacheInv'
<1>1. /\ dinode' = dinode /\ used' = used /\ dirent' = dirent /\ ptr' = ptr
      /\ inode' = inode /\ lock' = lock /\ cwd' = cwd /\ ofile' = ofile /\ loc' = loc
  OBVIOUS
<1>2. DiskOK' /\ ProcsOK' /\ Shapes' /\ CacheOK(dinode', inode')
  BY <1>1, Unpack DEF DiskOK, ProcsOK, Shapes, Shape
<1>3. Counted'
  <2>1. ASSUME NEW s PROVE PointersTo(s)' = PointersTo(s)
    BY <1>1 DEF PointersTo, Pointers
  <2> QED BY <1>1, <2>1, Unpack DEF Counted
<1>4. Locked'
  BY <1>1, Unpack DEF Locked, Holds, FreesAnother
<1> QED BY <1>2, <1>3, <1>4 DEF CacheInv, CacheOK

----------------------------------------------------------------------------
(* The steps that change inodes *)

\* What a step that only stores copies does to the references.
LEMMA StoredStep ==
    ASSUME CacheInv, NEW p \in Procs, DiskOK', cwd' = cwd, ofile' = ofile,
           NEW m \in Locals, Shape(m), m.put = "test",
           loc' = [loc EXCEPT ![p] = m],
           lock' \in [Slots -> Procs \cup {NoProc}],
           \A t \in Slots : lock[t] # NoProc /\ lock[t] # p => lock'[t] = lock[t],
           CacheOK(dinode', inode'), SameRefs(inode'),
           \A t \in Slots : inode[t].ref > 0 /\ inode[t].valid => inode'[t].valid,
           \A t \in Slots : LocOwn(m, t) = LocOwn(loc[p], t),
           m.pc \in HeldDp => lock'[m.dp] = p /\ inode'[m.dp].valid,
           m.pc \in HeldIp => lock'[m.ip] = p /\ inode'[m.ip].valid
    PROVE  CacheInv'
<1>1. ASSUME NEW t \in Slots
      PROVE  inode'[t].ref = inode[t].ref - LocOwn(loc[p], t) + LocOwn(m, t)
  <2>1. inode[t].ref \in Nat /\ LocOwn(loc[p], t) \in Nat
    BY Unpack DEF LocOwn, PutsOwn, One
  <2>2. LocOwn(m, t) = LocOwn(loc[p], t) /\ inode'[t].ref = inode[t].ref
    BY DEF SameRefs
  <2> QED BY <2>1, <2>2
<1> QED BY <1>1, HoldStep

\* A directory dp that is locked and the inode ip, whose lock is taken, are
\* stored, on disk too.
LEMMA TwoStores ==
    ASSUME CacheInv, NEW s \in Slots, NEW t \in Slots, s # t, inode[s].ref > 0, inode[t].ref > 0,
           NEW d \in DInode, NEW e \in DInode, d.type # "none", e.type # "none",
           NEW D, D = Update(Update(dinode, s, d), t, e),
           NEW c, c = Store(Store(inode, s, d), t, e)
    PROVE  /\ CacheOK(D, c) /\ SameRefs(c) /\ D \in [Inums -> DInode]
           /\ c[s].valid /\ c[t].valid /\ c[s].d = d /\ c[t].d = e
           /\ \A u \in Slots : u # s /\ u # t => c[u] = inode[u]
           /\ \A u \in Slots : inode[u].valid => c[u].valid
           /\ inode[s].inum \in Inums /\ inode[t].inum \in Inums /\ inode[s].inum # inode[t].inum
           /\ D[inode[s].inum] = d /\ D[inode[t].inum] = e
           /\ \A i \in Inums : i # inode[s].inum /\ i # inode[t].inum => D[i] = dinode[i]
<1>1. PICK i, j : i = inode[s].inum /\ j = inode[t].inum
  OBVIOUS
<1>2. PICK E, f : E = With(dinode, i, d) /\ f = Store(inode, s, d)
  OBVIOUS
<1>3. D = With(E, j, e) /\ c = Store(f, t, e)
  BY <1>1, <1>2 DEF Update, With
<1>4. dinode \in [Inums -> DInode] /\ CacheOK(dinode, inode)
  BY Unpack DEF DiskOK
<1>5. /\ CacheOK(E, f) /\ E \in [Inums -> DInode]
      /\ E[i] = d /\ \A k \in Inums : k # i => E[k] = dinode[k]
      /\ f[s].valid /\ f[s].d = d
      /\ \A u \in Slots : f[u].ref = inode[u].ref /\ f[u].inum = inode[u].inum /\ (u # s => f[u] = inode[u])
  BY <1>1, <1>2, <1>4, StoreOK
<1>6. f[t].ref > 0 /\ j = f[t].inum
  BY <1>1, <1>5
<1>7. /\ CacheOK(D, c) /\ D \in [Inums -> DInode]
      /\ D[j] = e /\ \A k \in Inums : k # j => D[k] = E[k]
      /\ c[t].valid /\ c[t].d = e
      /\ \A u \in Slots : c[u].ref = f[u].ref /\ c[u].inum = f[u].inum /\ (u # t => c[u] = f[u])
  BY <1>3, <1>5, <1>6, StoreOK
<1>8. c \in [Slots -> Slot]
  BY <1>7 DEF CacheOK
<1>9. SameRefs(c)
  BY <1>5, <1>7, <1>8 DEF SameRefs
<1>10. i \in Inums /\ j \in Inums /\ i # j
  BY <1>1, <1>4 DEF CacheOK
<1>11. c[s].valid /\ c[s].d = d /\ (\A u \in Slots : u # s /\ u # t => c[u] = inode[u])
       /\ \A u \in Slots : inode[u].valid => c[u].valid
  BY <1>5, <1>7
<1>12. D[i] = d /\ \A k \in Inums : k # i /\ k # j => D[k] = dinode[k]
  BY <1>5, <1>7, <1>10
<1> QED BY <1>1, <1>7, <1>9, <1>10, <1>11, <1>12

\* An inode with another number of links, or another block.
LEMMA ChangedIn ==
    ASSUME NEW d \in DInode, NEW n \in Int, NEW k, NEW b \in 0 .. NBlocks
    PROVE  /\ [d EXCEPT !.nlink = n] \in DInode
           /\ [d EXCEPT !.nlink = n].type = d.type /\ [d EXCEPT !.nlink = n].nlink = n
           /\ [d EXCEPT !.nlink = n].addrs = d.addrs
           /\ [d EXCEPT !.addrs[k] = b] \in DInode
           /\ [d EXCEPT !.addrs[k] = b].type = d.type /\ [d EXCEPT !.addrs[k] = b].nlink = d.nlink
           /\ [d EXCEPT !.addrs[k] = b].addrs = [d.addrs EXCEPT ![k] = b]
           /\ [d EXCEPT !.nlink = n, !.addrs[k] = b] \in DInode
           /\ [d EXCEPT !.nlink = n, !.addrs[k] = b].type = d.type
           /\ [d EXCEPT !.nlink = n, !.addrs[k] = b].nlink = n
           /\ [d EXCEPT !.nlink = n, !.addrs[k] = b].addrs = [d.addrs EXCEPT ![k] = b]
BY DEF DInode

\* A free block.
LEMMA FreeBlockIn ==
    ASSUME used \subseteq Blocks, used # Blocks
    PROVE  FreeBlock \in Blocks /\ FreeBlock \notin used
<1>1. Blocks \ used \in SUBSET Nat
  BY DEF Blocks
<1>3. Blocks \ used # {}
  OBVIOUS
<1>2. FreeBlock \in Blocks \ used
  BY <1>1, <1>3, MinIn DEF FreeBlock
<1> QED BY <1>2

\* The copies of a directory and of the inode that CreateInit writes.
InitD(d, dir, b) == [d EXCEPT !.nlink = 1, !.addrs[0] = IF dir THEN b ELSE 0]
InitE(d, dir) == [d EXCEPT !.nlink = IF dir THEN @ + 1 ELSE @]

LEMMA InitIn ==
    ASSUME NEW d \in DInode, NEW dir \in BOOLEAN, NEW b, dir => b \in Blocks
    PROVE  /\ InitD(d, dir, b) \in DInode /\ InitD(d, dir, b).type = d.type /\ InitD(d, dir, b).nlink = 1
           /\ InitD(d, dir, b).addrs = [d.addrs EXCEPT ![0] = IF dir THEN b ELSE 0]
           /\ InitE(d, dir) \in DInode /\ InitE(d, dir).type = d.type /\ InitE(d, dir).addrs = d.addrs
           /\ InitE(d, dir).nlink = IF dir THEN d.nlink + 1 ELSE d.nlink
<1>1. PICK a, n, x : a = (IF dir THEN b ELSE 0) /\ n = (IF dir THEN d.nlink + 1 ELSE d.nlink) /\ x = 1
  OBVIOUS
<1>2. a \in 0 .. NBlocks /\ n \in Int /\ x \in Int
  BY <1>1, FsAssumption DEF Blocks, DInode
<1>3. InitD(d, dir, b) = [d EXCEPT !.nlink = x, !.addrs[0] = a]
  BY <1>1 DEF InitD
<1>4. InitE(d, dir) = [d EXCEPT !.nlink = n]
  BY <1>1 DEF InitE
<1>5. /\ InitD(d, dir, b) \in DInode /\ InitD(d, dir, b).type = d.type /\ InitD(d, dir, b).nlink = x
      /\ InitD(d, dir, b).addrs = [d.addrs EXCEPT ![0] = a]
  <2>1. PICK A : A = [d.addrs EXCEPT ![0] = a]
    OBVIOUS
  <2>2. A \in [0 .. NDIRECT -> 0 .. NBlocks]
    BY <1>2, <2>1 DEF DInode
  <2>3. InitD(d, dir, b) = [type |-> d.type, nlink |-> x, addrs |-> A]
    BY <1>3, <2>1 DEF DInode
  <2>4. d.type \in {"none", "dir", "file", "dev"}
    BY DEF DInode
  <2>5. InitD(d, dir, b) \in DInode
    BY <1>2, <2>2, <2>3, <2>4 DEF DInode
  <2> QED BY <2>1, <2>3, <2>5
<1>6. /\ InitE(d, dir) \in DInode /\ InitE(d, dir).type = d.type /\ InitE(d, dir).addrs = d.addrs
      /\ InitE(d, dir).nlink = n
  BY <1>2, <1>4 DEF DInode
<1> QED BY <1>1, <1>5, <1>6

\* What a call gives back of its directory, with the inode still locked.
Leaves(l, c, x) == [l EXCEPT !.pc = c, !.dp = 0, !.puts = x]

LEMMA LeavesOK ==
    ASSUME CacheInv, NEW p \in Procs, loc[p].puts = <<>>, NEW c \in HeldIp,
           loc[p].pc \in {"new", "remove"},
           NEW x, x = <<loc[p].dp>>, NEW m, m = Leaves(loc[p], c, x)
    PROVE  /\ m \in Locals /\ Shape(m) /\ m.put = "test" /\ m.pc = c /\ m.ip = loc[p].ip /\ m.dp = 0
           /\ m.puts = <<loc[p].dp>> /\ m.call = loc[p].call /\ m.path = loc[p].path
           /\ \A t \in Slots : LocOwn(m, t) = LocOwn(loc[p], t)
<1>1. /\ loc[p] \in Locals /\ Shape(loc[p]) /\ loc[p].put = "test"
      /\ \A t \in Slots : LocOwn(loc[p], t) = One(loc[p].ip = t) + One(loc[p].dp = t)
  BY AtFacts
<1>2. loc[p].dp \in Slots /\ loc[p].ip # 0 /\ loc[p].call # "linkto"
  BY <1>1, AtFacts, AtPtrs DEF HasDp, HasIp, Shape, LinkPcs
<1>3. x \in Seq(Slots) /\ Len(x) <= 2 /\ x # <<>> /\ 0 \in 0 .. NINODE
  BY <1>2, FsAssumption
<1>4. c \in Pcs
  BY DEF HeldIp, Pcs, HasIp
<1>5. m \in Locals
  BY <1>1, <1>3, <1>4 DEF Locals, Leaves
<1>6. /\ m.pc = c /\ m.ip = loc[p].ip /\ m.dp = 0 /\ m.puts = x /\ m.put = "test"
      /\ m.call = loc[p].call /\ m.path = loc[p].path
  BY <1>1 DEF Locals, Leaves
<1>7. Shape(m)
  BY <1>2, <1>3, <1>6 DEF Shape, HasDp, HasIp, Parent, LinkPcs, HeldIp
<1>8. \A t \in Slots : LocOwn(m, t) = LocOwn(loc[p], t)
  <2>1. m.puts = <<loc[p].dp>> /\ m.dp = 0
    BY <1>6
  <2>2. \A t \in Slots : LocOwn(m, t) = One(m.ip = t) + One(loc[p].dp = t)
    BY <2>1, LocOwnIs
  <2> QED BY <1>1, <1>6, <2>2
<1> QED BY <1>5, <1>6, <1>7, <1>8

\* What p has locked and what it locks next are two slots.
LEMMA TwoSlots ==
    ASSUME CacheInv, NEW p \in Procs, loc[p].puts = <<>>, loc[p].pc \in {"new", "remove"},
           NEW s, NEW t, s = loc[p].ip, t = loc[p].dp, Locks(s)
    PROVE  /\ s \in Slots /\ t \in Slots /\ s # t /\ inode[s].ref > 0 /\ inode[t].ref > 0
           /\ lock[s] = NoProc /\ lock[t] = p
           /\ Content(s) \in DInode /\ Content(s).type # "none" /\ Content(s) = dinode[inode[s].inum]
           /\ inode[t].valid
           /\ inode[t].d \in DInode /\ inode[t].d.type # "none" /\ inode[t].d = dinode[inode[t].inum]
           /\ inode[s].inum \in Inums /\ inode[t].inum \in Inums
           /\ loc[p].path \in Seq(Elems) /\ Len(loc[p].path) = 1 /\ Head(loc[p].path) \in Elems
<1>1. s \in Slots /\ inode[s].ref > 0 /\ loc[p] \in Locals /\ Shape(loc[p])
  BY AtFacts, AtPtrs DEF HasIp
<1>2. t \in Slots /\ lock[t] = p /\ inode[t].ref > 0 /\ inode[t].valid
  BY HeldFacts DEF HeldDp
<1>3. lock[s] = NoProc /\ Content(s) \in DInode /\ Content(s).type # "none"
      /\ Content(s) = dinode[inode[s].inum] /\ inode[s].inum \in Inums
  BY <1>1, LocksOK
<1>4. s # t
  BY <1>2, <1>3, FsAssumption
<1>5. inode[t].d \in DInode /\ inode[t].d.type # "none" /\ inode[t].d = dinode[inode[t].inum]
      /\ inode[t].inum \in Inums
  <2>1. inode[t] \in Slot
    BY <1>2, Unpack DEF CacheOK
  <2> QED BY <1>2, <2>1, Unpack DEF CacheOK, Slot
<1>6. loc[p].path \in Seq(Elems) /\ Len(loc[p].path) = 1
  BY <1>1 DEF Locals, Shape
<1>7. Head(loc[p].path) \in Elems
  BY <1>6, LastName
<1> QED BY <1>1, <1>2, <1>3, <1>4, <1>5, <1>6, <1>7

\* The entry n of block b is set to i, and the entries of a new directory.
Entered(F, b, n, i) == [F EXCEPT ![b][n] = i]
NewDir(i, j) == [NoNames EXCEPT !["."] = i, ![".."] = j]

LEMMA EnteredIn ==
    ASSUME NEW F \in [Blocks -> [Elems -> 0 .. NInodes]], NEW b, NEW n, NEW i \in 0 .. NInodes
    PROVE  Entered(F, b, n, i) \in [Blocks -> [Elems -> 0 .. NInodes]]
BY DEF Entered

LEMMA NewDirIn ==
    ASSUME NEW i \in 0 .. NInodes, NEW j \in 0 .. NInodes
    PROVE  /\ NewDir(i, j) \in [Elems -> 0 .. NInodes]
           /\ NewDir(i, j)["."] = i /\ NewDir(i, j)[".."] = j
           /\ \A n \in Names : NewDir(i, j)[n] = 0
<1>1. NoNames \in [Elems -> 0 .. NInodes] /\ \A n \in Elems : NoNames[n] = 0
  BY FsAssumption DEF NoNames, Elems
<1>2. "." \in Elems /\ ".." \in Elems
  BY DEF Elems, Dots
<1>3. \A n \in Names : n \in Elems /\ n # "." /\ n # ".."
  BY FsAssumption DEF Elems, Dots
<1> HIDE DEF NoNames
<1> QED BY <1>1, <1>2, <1>3 DEF NewDir

LEMMA CreateInitInv ==
    ASSUME CacheInv, NEW p \in Procs, CreateInit(p)
    PROVE  CacheInv'
<1>1. PICK s, t, dir, b : s = loc[p].ip /\ t = loc[p].dp /\ dir = (loc[p].call = "mkdir") /\ b = FreeBlock
  OBVIOUS
<1>2. PICK d, e, n : d = InitD(Content(s), dir, b) /\ e = InitE(inode[t].d, dir) /\ n = Head(loc[p].path)
  OBVIOUS
<1>3. /\ loc[p].puts = <<>> /\ loc[p].pc = "new" /\ Locks(s)
      /\ dir => used # Blocks
      /\ used' = IF dir THEN used \cup {b} ELSE used
      /\ ptr' = IF dir THEN [ptr EXCEPT ![b] = NoPtrs] ELSE ptr
      /\ lock' = [lock EXCEPT ![s] = p, ![t] = NoProc]
      /\ cwd' = cwd /\ ofile' = ofile
  BY <1>1, Zenon DEF CreateInit, At
<1>4. /\ dinode' = Update(Update(dinode, s, d), t, e)
      /\ inode' = Store(Store(inode, s, d), t, e)
  BY <1>1, <1>2, Zenon DEF CreateInit, InitD, InitE
<1>5. PICK x, c : x = <<t>> /\ c = "created"
  BY Zenon
<1>6. PICK m : m = Leaves(loc[p], c, x)
  OBVIOUS
<1>7. loc' = [loc EXCEPT ![p] = m]
  BY <1>1, <1>5, <1>6, Unpack, Zenon DEF CreateInit, ProcsOK, Leaves
<1>8. /\ s \in Slots /\ t \in Slots /\ s # t /\ inode[s].ref > 0 /\ inode[t].ref > 0
      /\ lock[s] = NoProc /\ lock[t] = p /\ Content(s) \in DInode /\ Content(s).type # "none"
      /\ inode[t].d \in DInode /\ inode[t].d.type # "none" /\ inode[s].inum \in Inums /\ inode[t].inum \in Inums
  BY <1>1, <1>3, TwoSlots
<1>9. dir \in BOOLEAN /\ (dir => b \in Blocks)
  BY <1>1, <1>3, FreeBlockIn, Unpack DEF DiskOK
<1>10. d \in DInode /\ d.type # "none"
  <2>1. PICK y \in DInode : y = Content(s) /\ y.type # "none"
    BY <1>8
  <2>2. InitD(y, dir, b) \in DInode /\ InitD(y, dir, b).type = y.type
    BY <1>9, InitIn, ZenonT(40)
  <2> QED BY <1>2, <2>1, <2>2
<1>11. e \in DInode /\ e.type # "none"
  BY <1>2, <1>8, <1>9, InitIn
<1>12. /\ CacheOK(dinode', inode') /\ SameRefs(inode') /\ dinode' \in [Inums -> DInode]
       /\ inode'[s].valid /\ \A u \in Slots : inode[u].valid => inode'[u].valid
  BY <1>4, <1>8, <1>10, <1>11, TwoStores
<1>13. /\ m \in Locals /\ Shape(m) /\ m.put = "test" /\ m.pc = c /\ m.ip = loc[p].ip
       /\ \A u \in Slots : LocOwn(m, u) = LocOwn(loc[p], u)
  <2>1. c \in HeldIp /\ loc[p].pc \in {"new", "remove"} /\ x = <<loc[p].dp>>
    BY <1>1, <1>3, <1>5 DEF HeldIp
  <2> QED BY <1>3, <1>6, <2>1, LeavesOK
<1>14. DiskOK'
  <2>1. NoPtrs \in [0 .. NINDIRECT - 1 -> 0 .. NBlocks]
    BY FsAssumption DEF NoPtrs
  <2>2. used' \subseteq Blocks /\ ptr' \in [Blocks -> [0 .. NINDIRECT - 1 -> 0 .. NBlocks]]
    BY <1>3, <1>9, <2>1, Unpack DEF DiskOK
  <2>3. PICK i, j : i = inode[s].inum /\ j = inode[t].inum
    OBVIOUS
  <2>4. i \in 0 .. NInodes /\ j \in 0 .. NInodes
    BY <1>8, <2>3 DEF Inums
  <2>5. dirent' = IF dir THEN With(Entered(dirent, e.addrs[0], n, i), b, NewDir(i, j))
                  ELSE Entered(dirent, e.addrs[0], n, i)
    <3>1. dirent' = IF loc[p].call = "mkdir"
                    THEN With(Entered(dirent, InitE(inode[loc[p].dp].d, loc[p].call = "mkdir").addrs[0],
                                      Head(loc[p].path), inode[loc[p].ip].inum),
                              FreeBlock, NewDir(inode[loc[p].ip].inum, inode[loc[p].dp].inum))
                    ELSE Entered(dirent, InitE(inode[loc[p].dp].d, loc[p].call = "mkdir").addrs[0],
                                 Head(loc[p].path), inode[loc[p].ip].inum)
      BY Zenon DEF CreateInit, With, Entered, NewDir, InitE
    <3> QED BY <1>1, <1>2, <2>3, <3>1, Zenon
  <2>10. dirent' \in [Blocks -> [Elems -> 0 .. NInodes]]
    BY <2>4, <2>5, EnteredIn, NewDirIn, Unpack DEF DiskOK, With
  <2> QED BY <1>12, <2>2, <2>10 DEF DiskOK
<1>15. /\ lock' \in [Slots -> Procs \cup {NoProc}] /\ lock'[s] = p
       /\ \A u \in Slots : lock[u] # NoProc /\ lock[u] # p => lock'[u] = lock[u]
  BY <1>3, <1>8, Unpack DEF ProcsOK
<1>16. m.pc \notin HeldDp /\ (m.pc \in HeldIp => lock'[m.ip] = p /\ inode'[m.ip].valid)
  BY <1>1, <1>5, <1>12, <1>13, <1>15 DEF HeldDp
<1>17. cwd' = cwd /\ ofile' = ofile
  BY <1>3
<1> QED BY <1>7, <1>12, <1>13, <1>14, <1>15, <1>16, <1>17, StoredStep, Zenon

\* The copy of a directory that UnlinkErase writes, and of an inode that loses a
\* link or gains one.
EraseE(d, dir) == [d EXCEPT !.nlink = IF dir THEN @ - 1 ELSE @]
LessD(d) == [d EXCEPT !.nlink = @ - 1]
MoreD(d) == [d EXCEPT !.nlink = @ + 1]

LEMMA LinksIn ==
    ASSUME NEW d \in DInode, NEW dir \in BOOLEAN
    PROVE  /\ EraseE(d, dir) \in DInode /\ EraseE(d, dir).type = d.type /\ EraseE(d, dir).addrs = d.addrs
           /\ EraseE(d, dir).nlink = IF dir THEN d.nlink - 1 ELSE d.nlink
           /\ LessD(d) \in DInode /\ LessD(d).type = d.type /\ LessD(d).addrs = d.addrs
           /\ LessD(d).nlink = d.nlink - 1
           /\ MoreD(d) \in DInode /\ MoreD(d).type = d.type /\ MoreD(d).addrs = d.addrs
           /\ MoreD(d).nlink = d.nlink + 1
<1>1. /\ EraseE(d, dir) \in DInode /\ EraseE(d, dir).type = d.type /\ EraseE(d, dir).addrs = d.addrs
      /\ EraseE(d, dir).nlink = IF dir THEN d.nlink - 1 ELSE d.nlink
  <2>1. PICK n : n = IF dir THEN d.nlink - 1 ELSE d.nlink
    OBVIOUS
  <2>2. n \in Int /\ EraseE(d, dir) = [d EXCEPT !.nlink = n]
    BY <2>1 DEF EraseE, DInode
  <2>3. EraseE(d, dir) \in DInode /\ EraseE(d, dir).type = d.type /\ EraseE(d, dir).addrs = d.addrs
        /\ EraseE(d, dir).nlink = n
    BY <2>2 DEF DInode
  <2> QED BY <2>1, <2>3
<1>2. /\ LessD(d) \in DInode /\ LessD(d).type = d.type /\ LessD(d).addrs = d.addrs
      /\ LessD(d).nlink = d.nlink - 1
  BY DEF LessD, DInode
<1>3. /\ MoreD(d) \in DInode /\ MoreD(d).type = d.type /\ MoreD(d).addrs = d.addrs
      /\ MoreD(d).nlink = d.nlink + 1
  BY DEF MoreD, DInode
<1> QED BY <1>1, <1>2, <1>3

\* The directory stays locked, and the inode is given back.
Backs(l, x) == [l EXCEPT !.pc = "unlinkbad", !.ip = 0, !.puts = x]

LEMMA BacksOK ==
    ASSUME CacheInv, NEW p \in Procs, loc[p].puts = <<>>, loc[p].pc = "remove",
           NEW x, x = <<loc[p].ip>>, NEW m, m = Backs(loc[p], x)
    PROVE  /\ m \in Locals /\ Shape(m) /\ m.put = "test" /\ m.pc = "unlinkbad" /\ m.dp = loc[p].dp /\ m.ip = 0
           /\ m.puts = <<loc[p].ip>> /\ m.call = loc[p].call /\ m.path = loc[p].path
           /\ \A t \in Slots : LocOwn(m, t) = LocOwn(loc[p], t)
<1>1. /\ loc[p] \in Locals /\ Shape(loc[p]) /\ loc[p].put = "test"
      /\ \A t \in Slots : LocOwn(loc[p], t) = One(loc[p].ip = t) + One(loc[p].dp = t)
  BY AtFacts
<1>2. loc[p].ip \in Slots /\ loc[p].dp # 0 /\ loc[p].call # "linkto"
  BY <1>1, AtFacts, AtPtrs DEF HasDp, HasIp, Shape, LinkPcs
<1>3. x \in Seq(Slots) /\ Len(x) <= 2 /\ x # <<>> /\ 0 \in 0 .. NINODE
  BY <1>2, FsAssumption
<1>4. "unlinkbad" \in Pcs
  BY DEF Pcs, HasDp
<1>5. m \in Locals
  BY <1>1, <1>3, <1>4 DEF Locals, Backs
<1>6. /\ m.pc = "unlinkbad" /\ m.ip = 0 /\ m.dp = loc[p].dp /\ m.puts = x /\ m.put = "test"
      /\ m.call = loc[p].call /\ m.path = loc[p].path
  BY <1>1 DEF Locals, Backs
<1>7. Shape(m)
  BY <1>2, <1>3, <1>6 DEF Shape, HasDp, HasIp, Parent, LinkPcs
<1>8. ASSUME NEW t \in Slots PROVE LocOwn(m, t) = LocOwn(loc[p], t)
  <2>1. m.puts = <<loc[p].ip>>
    BY <1>6
  <2>2. LocOwn(m, t) = One(m.ip = t) + One(m.dp = t) + One(loc[p].ip = t)
    BY <2>1, LocOwnIs
  <2>3. One(0 = t) = 0 /\ One(loc[p].ip = t) \in Nat /\ One(loc[p].dp = t) \in Nat
    BY SMTT(30) DEF One, Slots
  <2> QED BY <1>1, <1>6, <2>2, <2>3
<1> QED BY <1>5, <1>6, <1>7, <1>8

\* The two outcomes of UnlinkErase.
LEMMA UnlinkEraseIs ==
    ASSUME NEW p \in Procs, UnlinkErase(p), loc \in [Procs -> Locals], NEW s, NEW t, NEW n, NEW dir, NEW e,
           s = loc[p].ip, t = loc[p].dp, n = Head(loc[p].path), dir = (Content(s).type = "dir"),
           e = EraseE(inode[t].d, dir)
    PROVE  /\ panic = "none" /\ loc[p].puts = <<>> /\ loc[p].pc = "remove" /\ Locks(s) /\ Content(s).nlink >= 1
           /\ cwd' = cwd /\ ofile' = ofile /\ used' = used /\ ptr' = ptr /\ panic' = panic
           /\ \/ /\ dir /\ ~IsDirEmpty(Content(s))
                 /\ inode' = Load(s) /\ lock' = lock /\ dinode' = dinode /\ dirent' = dirent
                 /\ loc' = [loc EXCEPT ![p] = Backs(loc[p], <<s>>)]
              \/ /\ dir => IsDirEmpty(Content(s))
                 /\ dirent' = Entered(dirent, e.addrs[0], n, 0)
                 /\ dinode' = Update(dinode, t, e)
                 /\ inode' = Store(Load(s), t, e)
                 /\ lock' = [lock EXCEPT ![s] = p, ![t] = NoProc]
                 /\ loc' = [loc EXCEPT ![p] = Leaves(loc[p], "erased", <<t>>)]
<1>1. /\ panic = "none" /\ loc[p].puts = <<>> /\ loc[p].pc = "remove" /\ Locks(s) /\ Content(s).nlink >= 1
      /\ cwd' = cwd /\ ofile' = ofile /\ used' = used /\ ptr' = ptr /\ panic' = panic
  BY Zenon DEF UnlinkErase, At, disk
<1>2. \/ /\ Content(loc[p].ip).type = "dir" /\ ~IsDirEmpty(Content(loc[p].ip))
         /\ inode' = Load(loc[p].ip)
         /\ loc' = [loc EXCEPT ![p].pc = "unlinkbad", ![p].ip = 0, ![p].puts = <<loc[p].ip>>]
         /\ UNCHANGED <<disk, lock>>
      \/ /\ Content(loc[p].ip).type = "dir" => IsDirEmpty(Content(loc[p].ip))
         /\ dirent' = Entered(dirent, EraseE(inode[loc[p].dp].d, Content(loc[p].ip).type = "dir").addrs[0],
                              Head(loc[p].path), 0)
         /\ dinode' = Update(dinode, loc[p].dp, EraseE(inode[loc[p].dp].d, Content(loc[p].ip).type = "dir"))
         /\ inode' = Store(Load(loc[p].ip), loc[p].dp,
                           EraseE(inode[loc[p].dp].d, Content(loc[p].ip).type = "dir"))
         /\ lock' = [lock EXCEPT ![loc[p].ip] = p, ![loc[p].dp] = NoProc]
         /\ loc' = [loc EXCEPT ![p].pc = "erased", ![p].dp = 0, ![p].puts = <<loc[p].dp>>]
  BY Zenon DEF UnlinkErase, EraseE, Entered
<1>3. CASE /\ Content(loc[p].ip).type = "dir" /\ ~IsDirEmpty(Content(loc[p].ip))
           /\ inode' = Load(loc[p].ip)
           /\ loc' = [loc EXCEPT ![p].pc = "unlinkbad", ![p].ip = 0, ![p].puts = <<loc[p].ip>>]
           /\ UNCHANGED <<disk, lock>>
  <2>1. loc' = [loc EXCEPT ![p] = Backs(loc[p], <<loc[p].ip>>)]
    BY <1>3 DEF Backs
  <2>2. dinode' = dinode /\ dirent' = dirent /\ lock' = lock
    BY <1>3 DEF disk
  <2> QED BY <1>1, <1>3, <2>1, <2>2
<1>4. CASE /\ Content(loc[p].ip).type = "dir" => IsDirEmpty(Content(loc[p].ip))
           /\ dirent' = Entered(dirent, EraseE(inode[loc[p].dp].d, Content(loc[p].ip).type = "dir").addrs[0],
                                Head(loc[p].path), 0)
           /\ dinode' = Update(dinode, loc[p].dp, EraseE(inode[loc[p].dp].d, Content(loc[p].ip).type = "dir"))
           /\ inode' = Store(Load(loc[p].ip), loc[p].dp,
                             EraseE(inode[loc[p].dp].d, Content(loc[p].ip).type = "dir"))
           /\ lock' = [lock EXCEPT ![loc[p].ip] = p, ![loc[p].dp] = NoProc]
           /\ loc' = [loc EXCEPT ![p].pc = "erased", ![p].dp = 0, ![p].puts = <<loc[p].dp>>]
  <2>1. loc' = [loc EXCEPT ![p] = Leaves(loc[p], "erased", <<loc[p].dp>>)]
    BY <1>4 DEF Leaves
  <2> QED BY <1>1, <1>4, <2>1
<1> QED BY <1>2, <1>3, <1>4

\* The slot s is stored, on disk too.
LEMMA OneStore ==
    ASSUME CacheInv, NEW s \in Slots, inode[s].ref > 0, NEW d \in DInode, d.type # "none",
           NEW D, D = Update(dinode, s, d), NEW c, c = Store(inode, s, d)
    PROVE  /\ CacheOK(D, c) /\ SameRefs(c) /\ D \in [Inums -> DInode]
           /\ c[s].valid /\ c[s].d = d
           /\ \A u \in Slots : u # s => c[u] = inode[u]
           /\ \A u \in Slots : inode[u].valid => c[u].valid
           /\ inode[s].inum \in Inums /\ D[inode[s].inum] = d
           /\ \A i \in Inums : i # inode[s].inum => D[i] = dinode[i]
<1>1. PICK i : i = inode[s].inum
  OBVIOUS
<1>2. D = With(dinode, i, d)
  BY <1>1 DEF Update, With
<1>3. dinode \in [Inums -> DInode] /\ CacheOK(dinode, inode)
  BY Unpack DEF DiskOK
<1>4. /\ CacheOK(D, c) /\ D \in [Inums -> DInode]
      /\ D[i] = d /\ \A k \in Inums : k # i => D[k] = dinode[k]
      /\ c[s].valid /\ c[s].d = d
      /\ \A u \in Slots : c[u].ref = inode[u].ref /\ c[u].inum = inode[u].inum /\ (u # s => c[u] = inode[u])
  BY <1>1, <1>2, <1>3, StoreOK
<1>5. i \in Inums
  BY <1>1, <1>3 DEF CacheOK
<1>6. c \in [Slots -> Slot]
  BY <1>4 DEF CacheOK
<1>7. SameRefs(c)
  BY <1>4, <1>6 DEF SameRefs
<1>8. \A u \in Slots : inode[u].valid => c[u].valid
  BY <1>4
<1> QED BY <1>1, <1>4, <1>5, <1>7, <1>8

\* ilock and then a change of t.
LEMMA LoadStore ==
    ASSUME CacheInv, NEW s \in Slots, inode[s].ref > 0, Locks(s), NEW t \in Slots, NEW e
    PROVE  /\ Update(dinode, t, e) = Update(Update(dinode, s, Content(s)), t, e)
           /\ Store(Load(s), t, e) = Store(Store(inode, s, Content(s)), t, e)
           /\ Update(dinode, s, Content(s)) = dinode
<1>1. Content(s) = dinode[inode[s].inum] /\ inode[s].inum \in Inums /\ dinode \in [Inums -> DInode]
  BY LocksOK, Unpack DEF DiskOK
<1>2. Update(dinode, s, Content(s)) = dinode
  BY <1>1 DEF Update
<1> QED BY <1>2 DEF Load

LEMMA UnlinkEraseInv ==
    ASSUME CacheInv, NEW p \in Procs, UnlinkErase(p)
    PROVE  CacheInv'
<1>1. PICK s, t, n, dir : s = loc[p].ip /\ t = loc[p].dp /\ n = Head(loc[p].path) /\ dir = (Content(s).type = "dir")
  OBVIOUS
<1>2. PICK e, xs, xt, c : e = EraseE(inode[t].d, dir) /\ xs = <<s>> /\ xt = <<t>> /\ c = "erased"
  OBVIOUS
<1>3. PICK ms, mt : ms = Backs(loc[p], xs) /\ mt = Leaves(loc[p], c, xt)
  OBVIOUS
<1>4. /\ loc[p].puts = <<>> /\ loc[p].pc = "remove" /\ Locks(s)
      /\ cwd' = cwd /\ ofile' = ofile /\ used' = used /\ ptr' = ptr
  BY <1>1, <1>2, Unpack, UnlinkEraseIs DEF ProcsOK
<1>5. \/ /\ inode' = Load(s) /\ lock' = lock /\ dinode' = dinode /\ dirent' = dirent
         /\ loc' = [loc EXCEPT ![p] = ms]
      \/ /\ dirent' = Entered(dirent, e.addrs[0], n, 0)
         /\ dinode' = Update(dinode, t, e)
         /\ inode' = Store(Load(s), t, e)
         /\ lock' = [lock EXCEPT ![s] = p, ![t] = NoProc]
         /\ loc' = [loc EXCEPT ![p] = mt]
  BY <1>1, <1>2, <1>3, Unpack, UnlinkEraseIs, SMTT(30) DEF ProcsOK
<1>6. /\ s \in Slots /\ t \in Slots /\ s # t /\ inode[s].ref > 0 /\ inode[t].ref > 0
      /\ lock[s] = NoProc /\ lock[t] = p /\ Content(s) \in DInode /\ Content(s).type # "none"
      /\ inode[t].d \in DInode /\ inode[t].d.type # "none" /\ inode[s].inum \in Inums /\ inode[t].inum \in Inums
      /\ inode[t].valid
  BY <1>1, <1>4, TwoSlots
<1>7. CASE /\ inode' = Load(s) /\ lock' = lock /\ dinode' = dinode /\ dirent' = dirent
           /\ loc' = [loc EXCEPT ![p] = ms]
  <2>1. /\ ms \in Locals /\ Shape(ms) /\ ms.put = "test" /\ ms.pc = "unlinkbad" /\ ms.dp = loc[p].dp
        /\ \A u \in Slots : LocOwn(ms, u) = LocOwn(loc[p], u)
    BY <1>1, <1>2, <1>3, <1>4, BacksOK
  <2>2. /\ CacheOK(dinode', inode') /\ SameRefs(inode') /\ \A u \in Slots : inode[u].valid => inode'[u].valid
    BY <1>4, <1>6, <1>7, LocksOK
  <2>3. DiskOK'
    BY <1>4, <1>7, Unpack DEF DiskOK
  <2>4. /\ lock' \in [Slots -> Procs \cup {NoProc}]
        /\ \A u \in Slots : lock[u] # NoProc /\ lock[u] # p => lock'[u] = lock[u]
    BY <1>7, Unpack DEF ProcsOK
  <2>5. ms.pc \notin HeldIp /\ lock'[ms.dp] = p /\ inode'[ms.dp].valid
    BY <1>1, <1>6, <1>7, <2>1, <2>2 DEF HeldIp
  <2>6. cwd' = cwd /\ ofile' = ofile /\ loc' = [loc EXCEPT ![p] = ms]
    BY <1>4, <1>7
  <2> QED BY <2>1, <2>2, <2>3, <2>4, <2>5, <2>6, StoredStep
<1>8. CASE /\ dirent' = Entered(dirent, e.addrs[0], n, 0)
           /\ dinode' = Update(dinode, t, e)
           /\ inode' = Store(Load(s), t, e)
           /\ lock' = [lock EXCEPT ![s] = p, ![t] = NoProc]
           /\ loc' = [loc EXCEPT ![p] = mt]
  <2>1. c \in HeldIp /\ loc[p].pc \in {"new", "remove"} /\ xt = <<loc[p].dp>>
    BY <1>1, <1>2, <1>4 DEF HeldIp
  <2>2. /\ mt \in Locals /\ Shape(mt) /\ mt.put = "test" /\ mt.pc = c /\ mt.ip = loc[p].ip
        /\ \A u \in Slots : LocOwn(mt, u) = LocOwn(loc[p], u)
    BY <1>3, <1>4, <2>1, LeavesOK
  <2>3. PICK y \in DInode : y = inode[t].d /\ y.type # "none"
    BY <1>6
  <2>4. dir \in BOOLEAN
    BY <1>1
  <2>5. e \in DInode /\ e.type # "none"
    <3>1. EraseE(y, dir) \in DInode /\ EraseE(y, dir).type = y.type
      BY <2>4, LinksIn
    <3> QED BY <1>2, <2>3, <3>1
  <2>6. dinode' = Update(Update(dinode, s, Content(s)), t, e) /\ inode' = Store(Store(inode, s, Content(s)), t, e)
    BY <1>4, <1>6, <1>8, LoadStore
  <2>7. /\ CacheOK(dinode', inode') /\ SameRefs(inode') /\ dinode' \in [Inums -> DInode]
        /\ inode'[s].valid /\ \A u \in Slots : inode[u].valid => inode'[u].valid
    BY <1>6, <2>5, <2>6, TwoStores
  <2>8. 0 \in 0 .. NInodes
    BY FsAssumption
  <2>9. dirent' \in [Blocks -> [Elems -> 0 .. NInodes]]
    BY <1>8, <2>8, EnteredIn, Unpack DEF DiskOK
  <2>10. DiskOK'
    BY <1>4, <2>7, <2>9, Unpack DEF DiskOK
  <2>11. /\ lock' \in [Slots -> Procs \cup {NoProc}] /\ lock'[s] = p
         /\ \A u \in Slots : lock[u] # NoProc /\ lock[u] # p => lock'[u] = lock[u]
    BY <1>6, <1>8, Unpack DEF ProcsOK
  <2>12. mt.pc \notin HeldDp /\ lock'[mt.ip] = p /\ inode'[mt.ip].valid
    BY <1>1, <1>2, <2>2, <2>7, <2>11 DEF HeldDp
  <2>13. cwd' = cwd /\ ofile' = ofile /\ loc' = [loc EXCEPT ![p] = mt]
    BY <1>4, <1>8
  <2> QED BY <2>2, <2>7, <2>10, <2>11, <2>12, <2>13, StoredStep
<1> QED BY <1>5, <1>7, <1>8

LEMMA UnlinkedInv ==
    ASSUME CacheInv, NEW p \in Procs, Unlinked(p)
    PROVE  CacheInv'
<1>1. PICK s : s = loc[p].ip
  OBVIOUS
<1>2. PICK d, m : d = LessD(Content(s)) /\ m = Gives(s)
  OBVIOUS
<1>3. /\ loc[p].puts = <<>> /\ (loc[p].pc = "erased" \/ (loc[p].pc = "unlinked" /\ Locks(s)))
      /\ lock' = [lock EXCEPT ![s] = NoProc]
      /\ used' = used /\ dirent' = dirent /\ ptr' = ptr /\ cwd' = cwd /\ ofile' = ofile
  BY <1>1 DEF Unlinked, At
<1>4. /\ dinode' = Update(dinode, s, d) /\ inode' = Store(inode, s, d) /\ loc' = [loc EXCEPT ![p] = m]
  BY <1>1, <1>2 DEF Unlinked, LessD, Gives
<1>5. /\ s \in Slots /\ inode[s].ref > 0 /\ loc[p].dp = 0
      /\ \A t \in Slots : LocOwn(loc[p], t) = One(s = t) + One(loc[p].dp = t)
  BY <1>1, <1>3, AtFacts, AtPtrs DEF HasIp, HasDp, Parent
<1>6. Content(s) \in DInode /\ Content(s).type # "none" /\ (lock[s] = NoProc \/ lock[s] = p)
  <2>1. CASE loc[p].pc = "erased"
    <3>1. lock[s] = p /\ inode[s].valid
      BY <1>1, <2>1, HeldFacts DEF HeldIp
    <3>2. inode[s] \in Slot
      BY <1>5, Unpack DEF CacheOK
    <3> QED BY <1>5, <3>1, <3>2, Unpack DEF Content, CacheOK, Slot
  <2>2. CASE Locks(s)
    BY <1>5, <2>2, LocksOK
  <2> QED BY <1>3, <2>1, <2>2
<1>7. d \in DInode /\ d.type # "none"
  <2>1. PICK y \in DInode : y = Content(s) /\ y.type # "none"
    BY <1>6
  <2>2. LessD(y) \in DInode /\ LessD(y).type = y.type
    BY LinksIn
  <2> QED BY <1>2, <2>1, <2>2
<1>8. /\ CacheOK(dinode', inode') /\ SameRefs(inode') /\ dinode' \in [Inums -> DInode]
      /\ \A u \in Slots : inode[u].valid => inode'[u].valid
  BY <1>4, <1>5, <1>7, OneStore
<1>9. DiskOK'
  BY <1>3, <1>8, Unpack DEF DiskOK
<1>10. /\ m \in Locals /\ Shape(m) /\ m.put = "test" /\ m.pc \notin Held
       /\ \A t \in Slots : LocOwn(m, t) = One(s = t)
  BY <1>2, <1>5, GivesBack
<1>11. ASSUME NEW t \in Slots PROVE LocOwn(m, t) = LocOwn(loc[p], t)
  <2>1. One(0 = t) = 0 /\ One(s = t) \in Nat
    BY DEF One, Slots
  <2> QED BY <1>5, <1>10, <2>1
<1>12. /\ lock' \in [Slots -> Procs \cup {NoProc}]
       /\ \A u \in Slots : lock[u] # NoProc /\ lock[u] # p => lock'[u] = lock[u]
  BY <1>3, <1>5, <1>6, Unpack DEF ProcsOK
<1>13. m.pc \notin HeldDp /\ m.pc \notin HeldIp
  BY <1>10 DEF Held
<1>14. cwd' = cwd /\ ofile' = ofile /\ loc' = [loc EXCEPT ![p] = m]
  BY <1>3, <1>4
<1> QED BY <1>8, <1>9, <1>10, <1>11, <1>12, <1>13, <1>14, StoredStep

LinksTo(s) == [Idle EXCEPT !.call = "linkto", !.ip = s]

LEMMA LinksToOK ==
    ASSUME NEW s \in Slots, NEW l, l = LinksTo(s)
    PROVE  /\ l \in Locals /\ l.call = "linkto" /\ l.ip = s /\ l.dp = 0 /\ l.puts = <<>> /\ l.put = "test"
           /\ l.path = <<>> /\ s # 0
<1>1. PICK e, n : e = <<>> /\ n = NoPath
  OBVIOUS
<1>2. l = [pc |-> "idle", call |-> "linkto", path |-> e, new |-> n,
           ip |-> s, dp |-> 0, puts |-> e, put |-> "test"]
  BY <1>1 DEF Idle, LinksTo
<1>3. e \in Seq(Elems) /\ e \in Seq(Slots) /\ n \in News /\ 0 \in 0 .. NINODE /\ "idle" \in Pcs
  BY <1>1, FsAssumption DEF News, Pcs
<1>4. s \in 0 .. NINODE /\ s # 0
  BY DEF Slots
<1>5. l \in Locals
  BY <1>2, <1>3, <1>4 DEF Locals
<1> QED BY <1>1, <1>2, <1>4, <1>5

LEMMA LinkInv ==
    ASSUME CacheInv, NEW p \in Procs, Link(p)
    PROVE  CacheInv'
<1>1. PICK s, q : s = loc[p].ip /\ q = loc[p].new
  OBVIOUS
<1>2. PICK d : d = MoreD(Content(s))
  OBVIOUS
<1>3. /\ loc[p].puts = <<>> /\ loc[p].pc = "link" /\ Locks(s)
      /\ used' = used /\ dirent' = dirent /\ ptr' = ptr /\ lock' = lock /\ cwd' = cwd /\ ofile' = ofile
  BY <1>1 DEF Link, At
<1>4. \/ /\ inode' = Load(s) /\ dinode' = dinode
         /\ loc' = [loc EXCEPT ![p] = Gives(s)]
      \/ /\ q.abs => CanGet(ROOTINO)
         /\ dinode' = Update(dinode, s, d)
         /\ inode' = StartGet(p, Store(inode, s, d), q)
         /\ loc' = [loc EXCEPT ![p] = Arrive(LinksTo(s), StartSlot(p, q), q.elems)]
  BY <1>1, <1>2 DEF Link, Gives, MoreD, LinksTo
<1>5. /\ s \in Slots /\ inode[s].ref > 0 /\ loc[p].dp = 0
      /\ \A t \in Slots : LocOwn(loc[p], t) = One(s = t) + One(loc[p].dp = t)
  BY <1>1, <1>3, AtFacts, AtPtrs DEF HasIp, HasDp, Parent
<1>6. ASSUME NEW t \in Slots PROVE LocOwn(loc[p], t) = One(s = t)
  <2>1. One(0 = t) = 0 /\ One(s = t) \in Nat
    BY DEF One, Slots
  <2> QED BY <1>5, <2>1
<1>7. CASE /\ inode' = Load(s) /\ dinode' = dinode
           /\ loc' = [loc EXCEPT ![p] = Gives(s)]
  <2>1. PICK m : m = Gives(s)
    OBVIOUS
  <2>2. /\ m \in Locals /\ Shape(m) /\ m.put # "free" /\ m.pc \notin Held
        /\ \A t \in Slots : LocOwn(m, t) = One(s = t)
    BY <1>5, <2>1, GivesBack
  <2>3. \A t \in Slots : LocOwn(m, t) = LocOwn(loc[p], t)
    BY <1>6, <2>2
  <2>4. UNCHANGED <<disk, lock, cwd, ofile>> /\ loc' = [loc EXCEPT ![p] = m]
    BY <1>3, <1>7, <2>1 DEF disk
  <2> QED BY <1>3, <1>5, <1>7, <2>2, <2>3, <2>4, LoadStep
<1>8. CASE /\ q.abs => CanGet(ROOTINO)
           /\ dinode' = Update(dinode, s, d)
           /\ inode' = StartGet(p, Store(inode, s, d), q)
           /\ loc' = [loc EXCEPT ![p] = Arrive(LinksTo(s), StartSlot(p, q), q.elems)]
  <2>1. PICK l, u, x, c : /\ l = LinksTo(s) /\ u = StartSlot(p, q) /\ x = q.elems
                          /\ c = Store(inode, s, d)
    OBVIOUS
  <2>2. PICK m : m = Arrive(l, u, x)
    OBVIOUS
  <2>3. q.abs \in BOOLEAN /\ x \in Seq(Elems)
    <3>1. q \in News
      BY <1>1, <1>3, AtFacts DEF Locals
    <3>2. q = NoPath \/ \E r \in Requests : q = r.new
      BY <3>1 DEF News
    <3>3. CASE q = NoPath
      BY <2>1, <3>3 DEF NoPath
    <3>4. CASE \E r \in Requests : q = r.new
      BY <2>1, <3>4, FsAssumption DEF Elems
    <3> QED BY <3>2, <3>3, <3>4
  <2>4. Content(s) \in DInode /\ Content(s).type # "none"
    BY <1>3, <1>5, LocksOK
  <2>5. d \in DInode /\ d.type # "none"
    <3>1. PICK y \in DInode : y = Content(s) /\ y.type # "none"
      BY <2>4
    <3>2. MoreD(y) \in DInode /\ MoreD(y).type = y.type
      BY LinksIn
    <3> QED BY <1>2, <3>1, <3>2
  <2>6. /\ CacheOK(dinode', c) /\ SameRefs(c) /\ dinode' \in [Inums -> DInode]
        /\ \A t \in Slots : inode[t].valid => c[t].valid
    BY <1>5, <1>8, <2>1, <2>5, OneStore
  <2>7. /\ CacheOK(dinode', inode') /\ u \in Slots
        /\ \A t \in Slots : inode'[t].ref = inode[t].ref + One(u = t)
        /\ \A t \in Slots : inode[t].ref > 0 => inode'[t].valid = c[t].valid
    BY <1>8, <2>1, <2>3, <2>6, StartOK
  <2>8. DiskOK'
    BY <1>3, <2>6, Unpack DEF DiskOK
  <2>9. l \in Locals /\ l.call = "linkto" /\ l.ip = s /\ l.puts = <<>> /\ l.put = "test" /\ s # 0
    BY <1>5, <2>1, LinksToOK
  <2>10. m \in Locals /\ Shape(m) /\ m.put = "test" /\ m.pc \notin Held
    BY <2>2, <2>3, <2>7, <2>9, ArriveOK
  <2>11. ASSUME NEW t \in Slots
         PROVE  inode'[t].ref = inode[t].ref - LocOwn(loc[p], t) + LocOwn(m, t)
    <3>1. LocOwn(m, t) = One(l.ip = t) + One(u = t)
      BY <2>2, <2>3, <2>7, <2>9, ArriveOwn
    <3>2. LocOwn(loc[p], t) = One(s = t)
      BY <1>6
    <3>3. One(s = t) \in Nat /\ One(u = t) \in Nat
      BY DEF One
    <3>4. inode[t].ref \in Nat
      BY Unpack
    <3> QED BY <2>7, <2>9, <3>1, <3>2, <3>3, <3>4
  <2>12. \A t \in Slots : inode[t].ref > 0 /\ inode[t].valid => inode'[t].valid
    BY <2>6, <2>7
  <2>13. lock' = lock /\ cwd' = cwd /\ ofile' = ofile /\ loc' = [loc EXCEPT ![p] = m]
    BY <1>3, <1>8, <2>1, <2>2
  <2> QED BY <2>7, <2>8, <2>10, <2>11, <2>12, <2>13, CallStep
<1> QED BY <1>4, <1>7, <1>8

\* What write makes of inode d, of n blocks, and of the indirect blocks.
Grown(d, n, b) == IF n <= NDIRECT THEN [d EXCEPT !.addrs[n] = b] ELSE d
GrownPtr(d, n, b, c) ==
    IF n < NDIRECT THEN [ptr EXCEPT ![b] = NoPtrs]
    ELSE IF n = NDIRECT THEN [ptr EXCEPT ![b] = [NoPtrs EXCEPT ![0] = c], ![c] = NoPtrs]
    ELSE [ptr EXCEPT ![d.addrs[NDIRECT]][n - NDIRECT] = b, ![b] = NoPtrs]
Taken(d, b, c) == IF Needs(d) = 2 THEN {b, c} ELSE {b}
SecondBlock == Min(Blocks \ (used \cup {FreeBlock}))

LEMMA BlocksFinite == IsFiniteSet(Blocks) /\ Blocks \subseteq Nat
<1>1. IsFiniteSet(Blocks)
  <2>1. 1 \in Int /\ NBlocks \in Int
    BY FsAssumption
  <2>2. \A a, b \in Int : IsFiniteSet(a .. b)
    BY FS_Interval
  <2>3. IsFiniteSet(1 .. NBlocks)
    BY <2>1, <2>2
  <2> QED BY <2>3 DEF Blocks
<1> QED BY <1>1 DEF Blocks

LEMMA SizeNat ==
    ASSUME NEW d
    PROVE  Size(d) \in Nat /\ Needs(d) \in {1, 2} /\ (Needs(d) = 2 <=> Size(d) = NDIRECT)
<1> DEFINE A == {k \in 0 .. NDIRECT - 1 : d.addrs[k] # 0}
           B == {k \in DOMAIN NoPtrs : ptr[d.addrs[NDIRECT]][k] # 0}
<1>1. DOMAIN NoPtrs = 0 .. NINDIRECT - 1
  BY DEF NoPtrs
<1>2. IsFiniteSet(0 .. NDIRECT - 1) /\ IsFiniteSet(0 .. NINDIRECT - 1)
  <2>1. 0 \in Int /\ NDIRECT - 1 \in Int /\ NINDIRECT - 1 \in Int
    BY FsAssumption
  <2> QED BY <2>1, UpTo
<1>3. A \subseteq 0 .. NDIRECT - 1 /\ B \subseteq 0 .. NINDIRECT - 1
  BY <1>1
<1>4. IsFiniteSet(A) /\ IsFiniteSet(B)
  BY <1>2, <1>3, FS_Subset
<1>5. Cardinality(A) \in Nat /\ Cardinality(B) \in Nat
  BY <1>4, FS_CardinalityType
<1>6. Size(d) = Cardinality(A) + IF d.addrs[NDIRECT] = 0 THEN 0 ELSE Cardinality(B)
  BY DEF Size
<1> HIDE DEF A, B
<1>7. Size(d) \in Nat
  BY <1>5, <1>6
<1> QED BY <1>7 DEF Needs

LEMMA TakenIn ==
    ASSUME used \subseteq Blocks, NEW d, Cardinality(Blocks \ used) >= Needs(d),
           NEW b, NEW c, b = FreeBlock, c = SecondBlock
    PROVE  /\ b \in Blocks /\ b \notin used
           /\ Needs(d) = 2 => c \in Blocks /\ c \notin used /\ c # b
<1> DEFINE T == Blocks \ used
<1>1. IsFiniteSet(T) /\ T \in SUBSET Nat
  BY BlocksFinite, FS_Subset
<1>2. Cardinality(T) \in Nat /\ Cardinality(T) >= 1 /\ (Needs(d) = 2 => Cardinality(T) >= 2)
  BY <1>1, FS_CardinalityType, SizeNat
<1>3. T # {}
  BY <1>2, FS_EmptySet
<1>4. b \in T
  BY <1>1, <1>3, MinIn DEF FreeBlock
<1>5. ASSUME Needs(d) = 2 PROVE c \in T \ {b}
  <2>1. Cardinality(T \ {b}) = Cardinality(T) - 1
    BY <1>1, <1>4, FS_RemoveElement
  <2>2. T \ {b} # {}
    BY <1>2, <1>5, <2>1, FS_EmptySet
  <2>3. T \ {b} = Blocks \ (used \cup {FreeBlock}) /\ T \ {b} \in SUBSET Nat
    BY <1>1
  <2> QED BY <2>2, <2>3, MinIn DEF SecondBlock
<1> QED BY <1>4, <1>5

\* What a write changes, with names for what the action reads.
Wrote(p, s, d, n, b, c, e) ==
    /\ panic = "none" /\ panic' = panic /\ loc[p] = Idle /\ ofile[p] # 0 /\ Locks(s)
    /\ d.type = "file" /\ n < NDIRECT + NINDIRECT /\ Cardinality(Blocks \ used) >= Needs(d)
    /\ used' = used \cup Taken(d, b, c)
    /\ ptr' = GrownPtr(d, n, b, c)
    /\ dirent' = [k \in Blocks |-> IF k \in used' \ used THEN NoNames ELSE dirent[k]]
    /\ dinode' = Update(dinode, s, e) /\ inode' = Store(inode, s, e)
    /\ lock' = lock /\ cwd' = cwd /\ ofile' = ofile /\ loc' = loc

LEMMA WriteIs ==
    ASSUME NEW p \in Procs, Write(p), NEW s, NEW d, NEW n, NEW b, NEW c, NEW e,
           s = ofile[p], d = Content(s), n = Size(d), b = FreeBlock, c = SecondBlock, e = Grown(d, n, b)
    PROVE  Wrote(p, s, d, n, b, c, e)
<1>1. /\ panic = "none" /\ panic' = panic /\ loc[p] = Idle /\ ofile[p] # 0 /\ Locks(s)
      /\ d.type = "file" /\ n < NDIRECT + NINDIRECT /\ Cardinality(Blocks \ used) >= Needs(d)
      /\ lock' = lock /\ cwd' = cwd /\ ofile' = ofile /\ loc' = loc
  BY DEF Write, Begins
<1>2. /\ used' = used \cup Taken(d, b, c)
      /\ dirent' = [k \in Blocks |-> IF k \in used' \ used THEN NoNames ELSE dirent[k]]
  BY DEF Write, Taken, SecondBlock
<1>3. dinode' = Update(dinode, s, e) /\ inode' = Store(inode, s, e)
  BY DEF Write, Grown
<1>4. ptr' = GrownPtr(d, n, b, c)
  BY DEF Write, GrownPtr, SecondBlock
<1> QED BY <1>1, <1>2, <1>3, <1>4 DEF Wrote

LEMMA GrownPtrIn ==
    ASSUME DiskOK, NEW d, NEW n, NEW b \in Blocks, NEW c, n = NDIRECT => c \in Blocks
    PROVE  GrownPtr(d, n, b, c) \in [Blocks -> [0 .. NINDIRECT - 1 -> 0 .. NBlocks]]
<1>1. NoPtrs \in [0 .. NINDIRECT - 1 -> 0 .. NBlocks] /\ b \in 0 .. NBlocks
  BY FsAssumption DEF NoPtrs, Blocks
<1>2. n = NDIRECT => [NoPtrs EXCEPT ![0] = c] \in [0 .. NINDIRECT - 1 -> 0 .. NBlocks]
  <2>1. SUFFICES ASSUME n = NDIRECT PROVE [NoPtrs EXCEPT ![0] = c] \in [0 .. NINDIRECT - 1 -> 0 .. NBlocks]
    OBVIOUS
  <2>2. c \in 0 .. NBlocks
    BY <2>1 DEF Blocks
  <2> QED BY <1>1, <2>2
<1>3. ptr \in [Blocks -> [0 .. NINDIRECT - 1 -> 0 .. NBlocks]]
  BY DEF DiskOK
<1> QED BY <1>1, <1>2, <1>3 DEF GrownPtr

LEMMA WriteInv ==
    ASSUME CacheInv, NEW p \in Procs, Write(p)
    PROVE  CacheInv'
<1>1. PICK s : s = ofile[p]
  OBVIOUS
<1>2. PICK d, b, c : d = Content(s) /\ b = FreeBlock /\ c = SecondBlock
  OBVIOUS
<1>3. PICK n : n = Size(d)
  OBVIOUS
<1>4. PICK e : e = Grown(d, n, b)
  OBVIOUS
<1>5. /\ loc[p] = Idle /\ ofile[p] # 0 /\ Locks(s)
      /\ d.type = "file" /\ Cardinality(Blocks \ used) >= Needs(d)
      /\ used' = used \cup Taken(d, b, c)
      /\ ptr' = GrownPtr(d, n, b, c)
      /\ dirent' = [k \in Blocks |-> IF k \in used' \ used THEN NoNames ELSE dirent[k]]
      /\ dinode' = Update(dinode, s, e) /\ inode' = Store(inode, s, e)
      /\ lock' = lock /\ cwd' = cwd /\ ofile' = ofile /\ loc' = loc
  <2>1. Wrote(p, s, d, n, b, c, e)
    BY <1>1, <1>2, <1>3, <1>4, WriteIs
  <2> QED BY <2>1 DEF Wrote
<1>6. s \in Slots /\ inode[s].ref > 0
  BY <1>1, <1>5, Unpack, LocType, PtrRefs
<1>7. d \in DInode /\ d.type # "none"
  BY <1>2, <1>5, <1>6, LocksOK
<1>8. DiskOK
  BY Unpack
<1>9. b \in Blocks /\ (Needs(d) = 2 => c \in Blocks)
  BY <1>2, <1>5, <1>8, TakenIn DEF DiskOK
<1>10. n \in Nat /\ (n = NDIRECT => c \in Blocks)
  BY <1>3, <1>9, SizeNat
<1>11. e \in DInode /\ e.type # "none"
  <2>1. b \in 0 .. NBlocks
    BY <1>9 DEF Blocks
  <2>2. [d EXCEPT !.addrs[n] = b] \in DInode /\ [d EXCEPT !.addrs[n] = b].type = d.type
    BY <1>7, <2>1 DEF DInode
  <2> QED BY <1>4, <1>7, <2>2 DEF Grown
<1>12. /\ CacheOK(dinode', inode') /\ SameRefs(inode') /\ dinode' \in [Inums -> DInode]
       /\ \A u \in Slots : inode[u].valid => inode'[u].valid
  BY <1>5, <1>6, <1>11, OneStore
<1>13. DiskOK'
  <2>1. used' \subseteq Blocks
    BY <1>5, <1>8, <1>9 DEF DiskOK, Taken
  <2>2. NoNames \in [Elems -> 0 .. NInodes]
    BY FsAssumption DEF NoNames, Elems
  <2>3. dirent' \in [Blocks -> [Elems -> 0 .. NInodes]]
    BY <1>5, <1>8, <2>2 DEF DiskOK
  <2>4. ptr' \in [Blocks -> [0 .. NINDIRECT - 1 -> 0 .. NBlocks]]
    BY <1>5, <1>8, <1>9, <1>10, GrownPtrIn
  <2> QED BY <1>12, <2>1, <2>3, <2>4 DEF DiskOK
<1>14. ASSUME NEW t \in Slots
       PROVE  inode'[t].ref = inode[t].ref - LocOwn(loc[p], t) + LocOwn(Idle, t)
  BY <1>5, <1>12, IdleFacts, Unpack DEF SameRefs
<1>15. loc' = [loc EXCEPT ![p] = Idle]
  BY <1>5, Unpack DEF ProcsOK
<1>16. Idle \in Locals /\ Shape(Idle) /\ Idle.put # "free" /\ Idle.pc \notin Held
  BY IdleFacts
<1>17. \A t \in Slots : inode[t].ref > 0 /\ inode[t].valid => inode'[t].valid
  BY <1>12
<1> QED BY <1>5, <1>12, <1>13, <1>14, <1>15, <1>16, <1>17, CallStep

----------------------------------------------------------------------------
(* The initial state *)

LEMMA MkfsIn ==
    /\ MkfsBitmap \subseteq Blocks /\ MkfsBitmap \subseteq Inums /\ 1 \in MkfsBitmap
    /\ \A i \in MkfsBitmap, t \in {"dir", "file"} :
          /\ MkfsInode(t, i) \in DInode /\ MkfsInode(t, i).type = t /\ MkfsInode(t, i).nlink = 1
          /\ MkfsInode(t, i).addrs = [NoAddrs EXCEPT ![0] = i]
    /\ MkfsRoot \in [Elems -> 0 .. NInodes]
<1>1. Len(Programs) \in Nat /\ Len(Programs) < NInodes /\ Len(Programs) < NBlocks
      /\ NInodes \in Nat /\ NBlocks \in Nat /\ NDIRECT \in Nat /\ DOMAIN Programs = 1 .. Len(Programs)
  BY FsAssumption
<1>2. MkfsBitmap \subseteq Blocks /\ MkfsBitmap \subseteq Inums /\ 1 \in MkfsBitmap
  BY <1>1 DEF MkfsBitmap, Blocks, Inums
<1>3. ASSUME NEW i \in MkfsBitmap, NEW t \in {"dir", "file"}
      PROVE  /\ MkfsInode(t, i) \in DInode /\ MkfsInode(t, i).type = t /\ MkfsInode(t, i).nlink = 1
             /\ MkfsInode(t, i).addrs = [NoAddrs EXCEPT ![0] = i]
  <2>1. NoAddrs \in [0 .. NDIRECT -> 0 .. NBlocks] /\ i \in 0 .. NBlocks
    BY <1>1, <1>2 DEF NoAddrs, Blocks
  <2>2. [NoAddrs EXCEPT ![0] = i] \in [0 .. NDIRECT -> 0 .. NBlocks]
    BY <2>1
  <2> QED BY <2>2 DEF MkfsInode, DInode
<1>4. ASSUME NEW n \in Elems PROVE MkfsRoot[n] \in 0 .. NInodes
  <2> DEFINE ks == {k \in DOMAIN Programs : Programs[k] = n}
  <2>1. MkfsRoot[n] = IF n \in Dots THEN ROOTINO ELSE IF ks = {} THEN 0 ELSE 1 + Min(ks)
    BY DEF MkfsRoot, Elems
  <2>2. ks \in SUBSET Nat /\ \A k \in ks : k \in 1 .. Len(Programs)
    BY <1>1
  <2> HIDE DEF ks
  <2>3. ks # {} => Min(ks) \in 1 .. Len(Programs)
    BY <2>2, MinIn
  <2> QED BY <1>1, <2>1, <2>3 DEF ROOTINO
<1>5. MkfsRoot \in [Elems -> 0 .. NInodes]
  <2>1. MkfsRoot = [n \in Elems |-> MkfsRoot[n]]
    BY DEF MkfsRoot, Elems
  <2> QED BY <1>4, <2>1
<1> QED BY <1>2, <1>3, <1>5

LEMMA InitDisk ==
    ASSUME Init
    PROVE  DiskOK
<1>1. ASSUME NEW i \in Inums PROVE dinode[i] \in DInode
  <2>1. dinode[i] = IF i = ROOTINO THEN MkfsInode("dir", i)
                    ELSE IF i \in MkfsBitmap THEN MkfsInode("file", i) ELSE Null
    BY DEF Init
  <2>2. CASE i \in MkfsBitmap
    <3>1. MkfsInode("dir", i) \in DInode /\ MkfsInode("file", i) \in DInode
      BY <2>2, MkfsIn
    <3> QED BY <2>1, <2>2, <3>1
  <2>3. CASE i \notin MkfsBitmap
    <3>1. i # ROOTINO
      BY <2>3, MkfsIn DEF ROOTINO
    <3> QED BY <2>1, <2>3, <3>1, NullIn
  <2> QED BY <2>2, <2>3
<1>2. dinode = [i \in Inums |-> dinode[i]]
  BY DEF Init
<1>3. dinode \in [Inums -> DInode]
  BY <1>1, <1>2
<1>4. NoNames \in [Elems -> 0 .. NInodes] /\ NoPtrs \in [0 .. NINDIRECT - 1 -> 0 .. NBlocks]
  BY FsAssumption DEF NoNames, NoPtrs, Elems
<1>5. used \subseteq Blocks
  BY MkfsIn DEF Init
<1>6. dirent \in [Blocks -> [Elems -> 0 .. NInodes]] /\ ptr \in [Blocks -> [0 .. NINDIRECT - 1 -> 0 .. NBlocks]]
  BY <1>4, MkfsIn DEF Init
<1> QED BY <1>3, <1>5, <1>6 DEF DiskOK

LEMMA InitPtrs ==
    ASSUME Init, NEW s
    PROVE  PointersTo(s) = To([q \in Procs |-> <<1, 0, 0, 0>>], Procs, s)
<1>1. Idle \in Shaped
  BY IdleFacts DEF Shaped
<1>2. loc \in [Procs -> Shaped]
  BY <1>1 DEF Init
<1>3. PointersTo(s) = UNION {{<<q, k>> : k \in {j \in DOMAIN PtrSeq(cwd[q], ofile[q], loc[q]) :
                                 PtrSeq(cwd[q], ofile[q], loc[q])[j] = s}} : q \in Procs}
  BY DEF PointersTo, Pointers, PtrSeq
<1>4. PointersTo(s) = PtrsTo(cwd, ofile, loc, Procs, s)
  BY <1>2, <1>3, PtrsUnion, Zenon
<1>5. PtrSeq(1, 0, Idle) = <<1, 0, 0, 0>>
  BY IdleFacts DEF PtrSeq
<1>6. \A q \in Procs : cwd[q] = 1 /\ ofile[q] = 0 /\ loc[q] = Idle
  BY DEF Init
<1>7. [q \in Procs |-> PtrSeq(cwd[q], ofile[q], loc[q])] = [q \in Procs |-> <<1, 0, 0, 0>>]
  BY <1>5, <1>6
<1> QED BY <1>4, <1>7 DEF PtrsTo

LEMMA InitCount ==
    ASSUME Init, NEW s \in Slots
    PROVE  Cardinality(PointersTo(s)) = IF s = 1 THEN Cardinality(Procs) ELSE 0
<1>1. IsFiniteSet(Procs) /\ Cardinality(Procs) \in Nat
  BY FsAssumption, FS_CardinalityType
<1>2. PointersTo(s) = To([q \in Procs |-> <<1, 0, 0, 0>>], Procs, s)
  BY InitPtrs
<1>3. s # 0
  BY DEF Slots
<1>4. CASE s = 1
  <2>1. To([q \in Procs |-> <<1, 0, 0, 0>>], Procs, s) = Procs \X {1}
    BY <1>3, <1>4 DEF To
  <2>2. Cardinality(Procs \X {1}) = Cardinality(Procs) * Cardinality({1}) /\ Cardinality({1}) = 1
    BY <1>1, FS_Product, FS_Singleton
  <2> QED BY <1>1, <1>2, <1>4, <2>1, <2>2
<1>5. CASE s # 1
  <2>1. To([q \in Procs |-> <<1, 0, 0, 0>>], Procs, s) = {}
    BY <1>3, <1>5 DEF To
  <2> QED BY <1>2, <1>5, <2>1, FS_EmptySet
<1> QED BY <1>4, <1>5

LEMMA InitSlots ==
    ASSUME Init
    PROVE  /\ inode \in [Slots -> Slot]
           /\ \A s \in Slots : inode[s].ref = (IF s = 1 THEN Cardinality(Procs) ELSE 0) /\ ~inode[s].valid
           /\ inode[1].inum = ROOTINO
<1>1. 1 \in Slots /\ ROOTINO \in Inums /\ ROOTINO \in 0 .. NInodes /\ 0 \in 0 .. NInodes /\ Cardinality(Procs) \in Nat
  BY RootIn, FsAssumption, FS_CardinalityType DEF Slots, Inums
<1>2. EmptySlot \in Slot /\ EmptySlot.ref = 0 /\ ~EmptySlot.valid
  BY <1>1, NullIn DEF EmptySlot, Slot
<1>3. PICK e : e = [ref |-> Cardinality(Procs), inum |-> ROOTINO, valid |-> FALSE, d |-> Null]
  OBVIOUS
<1>4. e \in Slot /\ e.ref = Cardinality(Procs) /\ ~e.valid /\ e.inum = ROOTINO
  BY <1>1, <1>3, NullIn DEF Slot
<1>5. inode = [s \in Slots |-> IF s = 1 THEN e ELSE EmptySlot]
  <2>1. PICK f, c : f = [s \in Slots |-> EmptySlot] /\ c = Cardinality(Procs)
    OBVIOUS
  <2>2. inode = [f EXCEPT ![1] = [[EmptySlot EXCEPT !.ref = c] EXCEPT !.inum = ROOTINO]]
    BY <1>1, <2>1 DEF Init
  <2>3. [[EmptySlot EXCEPT !.ref = c] EXCEPT !.inum = ROOTINO] = e
    <3>1. PICK z, v, n, i : z = 0 /\ v = FALSE /\ n = Null /\ i = ROOTINO
      OBVIOUS
    <3>2. EmptySlot = [ref |-> z, inum |-> z, valid |-> v, d |-> n] /\ e = [ref |-> c, inum |-> i, valid |-> v, d |-> n]
      BY <1>3, <2>1, <3>1 DEF EmptySlot
    <3>3. [EmptySlot EXCEPT !.ref = c] = [ref |-> c, inum |-> z, valid |-> v, d |-> n]
      BY <3>2
    <3>4. PICK r : r = [EmptySlot EXCEPT !.ref = c]
      OBVIOUS
    <3>5. [r EXCEPT !.inum = i] = e
      <4>1. r = [ref |-> c, inum |-> z, valid |-> v, d |-> n]
        BY <3>3, <3>4
      <4>2. [r EXCEPT !.inum = i] = [ref |-> c, inum |-> i, valid |-> v, d |-> n]
        BY <4>1
      <4> QED BY <3>2, <4>2
    <3>6. [r EXCEPT !.inum = ROOTINO] = e
      BY <3>1, <3>5
    <3> QED BY <3>4, <3>6
  <2> QED BY <2>1, <2>2, <2>3
<1> QED BY <1>1, <1>2, <1>4, <1>5

LEMMA InitInv ==
    ASSUME Init
    PROVE  CacheInv
<1>1. 1 \in Slots /\ ROOTINO \in Inums /\ ROOTINO \in 0 .. NInodes /\ 0 \in 0 .. NInodes /\ Cardinality(Procs) \in Nat
  BY RootIn, FsAssumption, FS_CardinalityType DEF Slots, Inums
<1>3. /\ inode \in [Slots -> Slot]
      /\ \A s \in Slots : inode[s].ref = (IF s = 1 THEN Cardinality(Procs) ELSE 0) /\ ~inode[s].valid
      /\ inode[1].inum = ROOTINO
  BY InitSlots
<1>4. CacheOK(dinode, inode)
  BY <1>1, <1>3 DEF CacheOK
<1>5. Counted
  BY <1>3, InitCount DEF Counted
<1>6. ProcsOK /\ Shapes
  BY <1>1, IdleFacts, FsAssumption DEF Init, ProcsOK, Shapes
<1>7. Locked
  <2>1. \A p \in Procs : loc[p] = Idle
    BY DEF Init
  <2>2. Idle.pc \notin HeldDp /\ Idle.pc \notin HeldIp /\ Idle.put # "free"
    BY IdleFacts DEF Held
  <2> QED BY <2>1, <2>2 DEF Locked, Holds, FreesAnother
<1> QED BY <1>4, <1>5, <1>6, <1>7, InitDisk DEF CacheInv

----------------------------------------------------------------------------
(* The theorems about the cache *)

LEMMA CacheNext ==
    ASSUME CacheInv, [Next]_vars
    PROVE  CacheInv'
<1>1. CASE UNCHANGED vars
  BY <1>1, SameInv DEF vars, disk
<1>2. ASSUME NEW p \in Procs, Panics(p) PROVE CacheInv'
  BY <1>2, SameInv DEF Panics, disk
<1>3. ASSUME NEW p \in Procs, Step(p) PROVE CacheInv'
  BY <1>3, <1>2, PutTestInv, PutFreeInv, PutDropInv, CallInv, WalkInv, OpenInv, CreateFoundInv,
     CreateAllocInv, CreateInitInv, CreatedInv, LinkInv, LinkExistsInv, LinkBadInv, LinkEnterInv,
     UnlinkLookupInv, UnlinkEraseInv, UnlinkBadInv, UnlinkedInv, ChdirInv, CloseInv, WriteInv DEF Step
<1> QED BY <1>1, <1>3 DEF Next

(***************************************************************************)
(* The invariant of the inode cache: the types, the shape of a call's      *)
(* locals at each of its points, the copies of inodes, the counts of       *)
(* references and who holds which lock.                                    *)
(***************************************************************************)
THEOREM FsCacheInvariant == Spec => []CacheInv
BY InitInv, CacheNext, PTL DEF Spec

(***************************************************************************)
(* ref counts the pointers to a slot (fs.c:123), however the processes'    *)
(* calls interleave, and no inode has two slots in use.                    *)
(***************************************************************************)
THEOREM FsRefCounts == Spec => []RefCounts
<1>1. CacheInv => RefCounts
  BY DEF CacheInv, Counted, CacheOK, RefCounts
<1> QED BY <1>1, FsCacheInvariant, PTL

(***************************************************************************)
(* A valid slot in use is a copy of an allocated inode (fs.c:218).         *)
(***************************************************************************)
THEOREM FsCacheCoherent == Spec => []CacheCoherent
<1>1. CacheInv => CacheCoherent
  BY DEF CacheInv, CacheOK, CacheCoherent
<1> QED BY <1>1, FsCacheInvariant, PTL

----------------------------------------------------------------------------
(* The invariant of the disk *)

\* The inode a slot stands for.
Ino(s) == dinode[inode[s].inum]

\* The locals l are those of a call that has allocated the inode in slot s and
\* is about to initialise it, or of an iput that is about to free it.
New(l, s) == l.pc = "new" /\ l.ip = s
Freeing(l, s) == l.put = "free" /\ Head(l.puts) = s

\* A pointer of process p leads to s and will be used: it is neither one that
\* iput is about to drop nor that to a new inode.
Leads(p, s) ==
    \/ cwd[p] = s \/ ofile[p] = s \/ loc[p].dp = s
    \/ loc[p].ip = s /\ loc[p].pc # "new"
    \/ Len(loc[p].puts) >= 1 /\ loc[p].puts[1] = s /\ loc[p].put # "drop"
    \/ Len(loc[p].puts) >= 2 /\ loc[p].puts[2] = s

Solid(s) == Ino(s).type # "none" /\ \A q \in Procs : ~New(loc[q], s)

\* What a directory says of a name, 0 for an inode that is no directory.
Ents == [i \in Inums |-> [n \in Names |-> IF dinode[i].type = "dir" THEN Lookup(dinode[i], n) ELSE 0]]
Types == [i \in Inums |-> dinode[i].type]
Nlinks == [i \in Inums |-> dinode[i].nlink]

\* The inode of which a call is about to enter a name, or has erased one.
Pends == [p \in Procs |-> IF loc[p].call = "linkto" \/ loc[p].pc = "erased"
                          THEN inode[loc[p].ip].inum ELSE 0]

\* The process p, whose pointers lead to inodes that are allocated.
ProcInv(p) ==
    /\ \A s \in Slots : Leads(p, s) => Solid(s)
    /\ loc[p].pc = "new" => /\ Ino(loc[p].ip) = Fresh(loc[p].call)
                            /\ \A q \in Procs : q # p => ~New(loc[q], loc[p].ip)
    /\ loc[p].put = "free" => /\ inode[Head(loc[p].puts)].ref = 1
                              /\ Ino(Head(loc[p].puts)).nlink = 0
    /\ loc[p].pc \in HasDp \ {"walk"} => Ino(loc[p].dp).type = "dir"
    /\ loc[p].call = "linkto" => Ino(loc[p].ip).type # "dir"
    /\ loc[p].pc \in {"new", "remove"} => loc[p].puts = <<>> /\ Head(loc[p].path) \in Names
    /\ loc[p].pc = "new" => Ents[inode[loc[p].dp].inum][Head(loc[p].path)] = 0
    /\ loc[p].pc = "remove" => Ents[inode[loc[p].dp].inum][Head(loc[p].path)] = inode[loc[p].ip].inum

ProcsInv == \A p \in Procs : ProcInv(p)

NullInv == \A i \in Inums : dinode[i].type = "none" => dinode[i] = Null

DirInv ==
    \A i \in Inums : dinode[i].type = "dir" =>
        IF dinode[i].addrs[0] # 0 THEN dirent[dinode[i].addrs[0]]["."] = i
        ELSE \E p \in Procs : loc[p].pc = "new" /\ inode[loc[p].ip].inum = i

\* Inode d, with the indirect blocks of P, has n blocks of data.
Filled(P, d, n) ==
    /\ \A k \in 0 .. NDIRECT - 1 : d.addrs[k] # 0 <=> k < n
    /\ d.addrs[NDIRECT] # 0 <=> NDIRECT < n
    /\ d.addrs[NDIRECT] # 0 =>
          \A k \in 0 .. NINDIRECT - 1 : P[d.addrs[NDIRECT]][k] # 0 <=> k < n - NDIRECT
FilledInv == \A i \in Inums : \E n \in 0 .. NDIRECT + NINDIRECT : Filled(ptr, dinode[i], n)

\* Who counts on the links of inode i: its names, the calls that are about to
\* add one or to take one away, its subdirectories, and mkfs for the root.
NamesIn(E, i) == {x \in Inums \X Names : E[x[1]][x[2]] = i}
PendIn(P, i) == {p \in Procs : P[p] = i}
SubsIn(E, T, i) == {n \in Names : E[i][n] # 0 /\ T[E[i][n]] = "dir"}
RootLink(i) == IF i = ROOTINO THEN 1 ELSE 0
Owed(E, T, P, i) ==
    Cardinality(NamesIn(E, i)) + Cardinality(PendIn(P, i)) + Cardinality(SubsIn(E, T, i)) + RootLink(i)
LinkOK(E, T, P, N) ==
    \A i \in Inums : IF T[i] = "none" THEN i # ROOTINO /\ NamesIn(E, i) = {}
                     ELSE Owed(E, T, P, i) <= N[i]
LinksInv == LinkOK(Ents, Types, Pends, Nlinks)

\* The parent of directory i, and that it is the directory with i's name.
Up(i) == dirent[dinode[i].addrs[0]][".."]
UpInv ==
    /\ \A i \in Inums : dinode[i].type = "dir" /\ dinode[i].addrs[0] # 0 => Up(i) # 0
    /\ \A k \in Inums, n \in Names :
          Ents[k][n] # 0 /\ dinode[Ents[k][n]].type = "dir" => Up(Ents[k][n]) = k

DiskInv == ProcsInv /\ NullInv /\ DirInv /\ UpInv /\ FilledInv /\ OneOwner /\ LinksInv /\ OnlyWhenFull

----------------------------------------------------------------------------
(* Counting what is owed to the links of an inode *)

LEMMA CardLess ==
    ASSUME NEW S, NEW T, IsFiniteSet(S), T \subseteq S
    PROVE  Cardinality(T) \in Nat /\ Cardinality(S) \in Nat /\ Cardinality(T) <= Cardinality(S)
<1>1. IsFiniteSet(T) /\ Cardinality(T) <= Cardinality(S)
  BY FS_Subset
<1> QED BY <1>1, FS_CardinalityType

LEMMA CardMore ==
    ASSUME NEW S, NEW T, NEW x, IsFiniteSet(S), \A y \in T : y \in S \/ y = x
    PROVE  Cardinality(T) \in Nat /\ Cardinality(S) \in Nat /\ Cardinality(T) <= Cardinality(S) + 1
<1>1. IsFiniteSet(S \cup {x}) /\ Cardinality(S \cup {x}) <= Cardinality(S) + 1
  <2>0. Cardinality(S) \in Nat
    BY FS_CardinalityType
  <2>1. CASE x \in S
    <3>1. S \cup {x} = S
      BY <2>1
    <3>2. IsFiniteSet(S \cup {x}) /\ Cardinality(S \cup {x}) = Cardinality(S)
      BY <3>1, Zenon
    <3> QED BY <2>0, <3>2
  <2>2. CASE x \notin S
    <3>1. IsFiniteSet(S \cup {x}) /\ Cardinality(S \cup {x}) = Cardinality(S) + 1
      BY <2>2, FS_AddElement
    <3> QED BY <2>0, <3>1
  <2> QED BY <2>1, <2>2
<1>2. T \subseteq S \cup {x}
  OBVIOUS
<1>3. Cardinality(T) <= Cardinality(S \cup {x}) /\ IsFiniteSet(T)
  BY <1>1, <1>2, FS_Subset
<1>4. Cardinality(T) \in Nat /\ Cardinality(S) \in Nat /\ Cardinality(S \cup {x}) \in Nat
  BY <1>1, <1>3, FS_CardinalityType
<1> QED BY <1>1, <1>3, <1>4

LEMMA CardFewer ==
    ASSUME NEW S, NEW T, NEW x, IsFiniteSet(S), x \in S, \A y \in T : y \in S /\ y # x
    PROVE  Cardinality(T) \in Nat /\ Cardinality(S) \in Nat /\ Cardinality(T) + 1 <= Cardinality(S)
<1>1. IsFiniteSet(S \ {x}) /\ Cardinality(S \ {x}) = Cardinality(S) - 1
  BY FS_RemoveElement
<1>2. T \subseteq S \ {x}
  OBVIOUS
<1>3. Cardinality(T) <= Cardinality(S \ {x}) /\ IsFiniteSet(T)
  BY <1>1, <1>2, FS_Subset
<1>4. Cardinality(T) \in Nat /\ Cardinality(S) \in Nat
  BY <1>3, FS_CardinalityType
<1> QED BY <1>1, <1>3, <1>4

LEMMA OwedFinite ==
    ASSUME NEW E, NEW T, NEW P, NEW i
    PROVE  /\ IsFiniteSet(NamesIn(E, i)) /\ Cardinality(NamesIn(E, i)) \in Nat
           /\ IsFiniteSet(PendIn(P, i)) /\ Cardinality(PendIn(P, i)) \in Nat
           /\ IsFiniteSet(SubsIn(E, T, i)) /\ Cardinality(SubsIn(E, T, i)) \in Nat
           /\ RootLink(i) \in Nat
<1>1. IsFiniteSet(Inums) /\ IsFiniteSet(Names) /\ IsFiniteSet(Procs)
  <2>1. 1 \in Int /\ NInodes \in Int
    BY FsAssumption
  <2>2. IsFiniteSet(1 .. NInodes)
    BY <2>1, UpTo
  <2> QED BY <2>2, FsAssumption DEF Inums
<1>2. IsFiniteSet(Inums \X Names)
  BY <1>1, FS_Product
<1>3. NamesIn(E, i) \subseteq Inums \X Names /\ PendIn(P, i) \subseteq Procs /\ SubsIn(E, T, i) \subseteq Names
  BY DEF NamesIn, PendIn, SubsIn
<1>4. IsFiniteSet(NamesIn(E, i)) /\ IsFiniteSet(PendIn(P, i)) /\ IsFiniteSet(SubsIn(E, T, i))
  BY <1>1, <1>2, <1>3, FS_Subset
<1> QED BY <1>4, FS_CardinalityType DEF RootLink

\* Inode i keeps its type and its links grow, or what is owed to it shrinks, in
\* step: x, y and z are the changes of the three counts.
LEMMA OwedStep ==
    ASSUME NEW E, NEW T, NEW P, NEW E2, NEW T2, NEW P2, NEW i, NEW n \in Int, NEW n2 \in Int,
           NEW x \in Int, NEW y \in Int, NEW z \in Int,
           Cardinality(NamesIn(E2, i)) <= Cardinality(NamesIn(E, i)) + x,
           Cardinality(PendIn(P2, i)) <= Cardinality(PendIn(P, i)) + y,
           Cardinality(SubsIn(E2, T2, i)) <= Cardinality(SubsIn(E, T, i)) + z,
           Owed(E, T, P, i) <= n, n + x + y + z <= n2
    PROVE  Owed(E2, T2, P2, i) <= n2
<1>1. /\ Cardinality(NamesIn(E, i)) \in Nat /\ Cardinality(PendIn(P, i)) \in Nat
      /\ Cardinality(SubsIn(E, T, i)) \in Nat /\ RootLink(i) \in Nat
  BY OwedFinite
<1>2. /\ Cardinality(NamesIn(E2, i)) \in Nat /\ Cardinality(PendIn(P2, i)) \in Nat
      /\ Cardinality(SubsIn(E2, T2, i)) \in Nat
  BY OwedFinite
<1> QED BY <1>1, <1>2 DEF Owed

\* Nothing is owed to an inode without links.
LEMMA OwedNone ==
    ASSUME NEW E, NEW T, NEW P, NEW i, Owed(E, T, P, i) <= 0
    PROVE  NamesIn(E, i) = {} /\ PendIn(P, i) = {} /\ SubsIn(E, T, i) = {} /\ i # ROOTINO
<1>1. /\ IsFiniteSet(NamesIn(E, i)) /\ Cardinality(NamesIn(E, i)) \in Nat
      /\ IsFiniteSet(PendIn(P, i)) /\ Cardinality(PendIn(P, i)) \in Nat
      /\ IsFiniteSet(SubsIn(E, T, i)) /\ Cardinality(SubsIn(E, T, i)) \in Nat
      /\ RootLink(i) \in Nat
  BY OwedFinite
<1>2. /\ Cardinality(NamesIn(E, i)) = 0 /\ Cardinality(PendIn(P, i)) = 0
      /\ Cardinality(SubsIn(E, T, i)) = 0 /\ RootLink(i) = 0
  BY <1>1 DEF Owed
<1>3. NamesIn(E, i) = {} /\ PendIn(P, i) = {} /\ SubsIn(E, T, i) = {}
  BY <1>1, <1>2, FS_EmptySet
<1> QED BY <1>2, <1>3 DEF RootLink

\* Entries that lead to inodes, if at all, and the changes of a function on
\* inodes or on processes.
EntsIn(E) == \A j \in Inums, m \in Names : E[j][m] # 0 => E[j][m] \in Inums
Bare(E, i) == \A m \in Names : E[i][m] = 0
Erased(E, E2, i) == \A j \in Inums, m \in Names : E2[j][m] = IF j = i THEN 0 ELSE E[j][m]
Becomes(f, g, i, v) == \A j \in Inums : g[j] = IF j = i THEN v ELSE f[j]
InitCounts(N, N2, i, d, dir) ==
    N2[i] = 1 /\ \A j \in Inums : j # i => N2[j] = IF j = d /\ dir THEN N[j] + 1 ELSE N[j]
Pending(P, P2, p, v) == \A q \in Procs : P2[q] = IF q = p THEN v ELSE P[q]

\* An inode is freed ...
LEMMA LinksFree ==
    ASSUME NEW E, NEW T, NEW P, NEW N \in [Inums -> Int], LinkOK(E, T, P, N), NEW i \in Inums,
           T[i] # "none", N[i] = 0, EntsIn(E),
           NEW E2, Erased(E, E2, i), NEW T2, Becomes(T, T2, i, "none"),
           NEW N2 \in [Inums -> Int], Becomes(N, N2, i, 0)
    PROVE  LinkOK(E2, T2, P, N2)
<1>0. /\ \A j \in Inums, m \in Names : E2[j][m] = IF j = i THEN 0 ELSE E[j][m]
      /\ \A j \in Inums : T2[j] = IF j = i THEN "none" ELSE T[j]
      /\ \A j \in Inums, m \in Names : E[j][m] # 0 => E[j][m] \in Inums
      /\ \A j \in Inums : j # i => N2[j] = N[j]
  BY DEF Erased, Becomes, EntsIn
<1>1. Owed(E, T, P, i) <= 0
  BY DEF LinkOK
<1>2. NamesIn(E, i) = {} /\ i # ROOTINO
  BY <1>1, OwedNone
<1>3. ASSUME NEW j \in Inums PROVE NamesIn(E2, j) \subseteq NamesIn(E, j)
  <2>1. j # 0
    BY DEF Inums
  <2> QED BY <1>0, <2>1 DEF NamesIn
<1>4. ASSUME NEW j \in Inums, T2[j] # "none" PROVE Owed(E2, T2, P, j) <= N2[j]
  <2>1. j # i /\ T[j] # "none" /\ N2[j] = N[j]
    BY <1>0, <1>4
  <2>2. Owed(E, T, P, j) <= N[j]
    BY <2>1 DEF LinkOK
  <2>3. SubsIn(E2, T2, j) \subseteq SubsIn(E, T, j)
    BY <1>0, <2>1 DEF SubsIn
  <2>4. /\ IsFiniteSet(NamesIn(E, j)) /\ IsFiniteSet(SubsIn(E, T, j))
        /\ Cardinality(NamesIn(E, j)) \in Nat /\ Cardinality(PendIn(P, j)) \in Nat
        /\ Cardinality(SubsIn(E, T, j)) \in Nat
    BY OwedFinite
  <2>5. Cardinality(NamesIn(E2, j)) <= Cardinality(NamesIn(E, j)) + 0
    BY <1>3, <2>4, CardLess
  <2>6. Cardinality(SubsIn(E2, T2, j)) <= Cardinality(SubsIn(E, T, j)) + 0
    BY <2>3, <2>4, CardLess
  <2>7. Cardinality(PendIn(P, j)) <= Cardinality(PendIn(P, j)) + 0 /\ N[j] \in Int /\ N[j] + 0 + 0 + 0 <= N[j]
    BY <2>4
  <2>8. Owed(E2, T2, P, j) <= N[j]
    BY <2>2, <2>5, <2>6, <2>7, OwedStep
  <2> QED BY <2>1, <2>8
<1>5. ASSUME NEW j \in Inums, T2[j] = "none" PROVE j # ROOTINO /\ NamesIn(E2, j) = {}
  <2>1. CASE j = i
    BY <1>2, <1>3, <2>1
  <2>2. CASE j # i
    <3>1. T[j] = "none"
      BY <1>0, <1>5, <2>2
    <3>2. j # ROOTINO /\ NamesIn(E, j) = {}
      BY <3>1 DEF LinkOK
    <3> QED BY <1>3, <3>2
  <2> QED BY <2>1, <2>2
<1> QED BY <1>4, <1>5 DEF LinkOK

\* ... or allocated.
LEMMA LinksAlloc ==
    ASSUME NEW E, NEW T, NEW P, NEW N \in [Inums -> Int], LinkOK(E, T, P, N), NEW i \in Inums,
           T[i] = "none", PendIn(P, i) = {}, Bare(E, i), EntsIn(E),
           NEW t, t # "none", NEW T2, Becomes(T, T2, i, t),
           NEW N2 \in [Inums -> Int], Becomes(N, N2, i, 0)
    PROVE  LinkOK(E, T2, P, N2)
<1> USE DEF Becomes, EntsIn, Bare
<1>1. NamesIn(E, i) = {} /\ i # ROOTINO
  BY DEF LinkOK
<1>2. PendIn(P, i) = {}
  OBVIOUS
<1>3. ASSUME NEW j \in Inums, T2[j] # "none" PROVE Owed(E, T2, P, j) <= N2[j]
  <2>1. CASE j = i
    <3>1. SubsIn(E, T2, i) = {}
      BY DEF SubsIn
    <3>2. Cardinality(NamesIn(E, i)) = 0 /\ Cardinality(PendIn(P, i)) = 0 /\ Cardinality(SubsIn(E, T2, i)) = 0
      BY <1>1, <1>2, <3>1, FS_EmptySet
    <3>3. RootLink(i) = 0 /\ N2[i] = 0
      BY <1>1 DEF RootLink
    <3> QED BY <2>1, <3>2, <3>3 DEF Owed
  <2>2. CASE j # i
    <3>1. T[j] # "none" /\ N2[j] = N[j]
      BY <1>3, <2>2
    <3>2. SubsIn(E, T2, j) = SubsIn(E, T, j)
      <4>1. ASSUME NEW m \in Names, E[j][m] # 0 PROVE T2[E[j][m]] = T[E[j][m]]
        <5>1. E[j][m] # i
          <6>1. PICK x : x = <<j, m>>
            OBVIOUS
          <6>2. x \in Inums \X Names /\ x[1] = j /\ x[2] = m
            BY <6>1
          <6>3. x \notin NamesIn(E, i)
            BY <1>1
          <6> QED BY <6>2, <6>3 DEF NamesIn
        <5> QED BY <4>1, <5>1
      <4> QED BY <4>1 DEF SubsIn
    <3>3. Owed(E, T2, P, j) = Owed(E, T, P, j)
      BY <3>2 DEF Owed
    <3> QED BY <3>1, <3>3 DEF LinkOK
  <2> QED BY <2>1, <2>2
<1>4. ASSUME NEW j \in Inums, T2[j] = "none" PROVE j # ROOTINO /\ NamesIn(E, j) = {}
  <2>1. T[j] = "none"
    BY <1>4
  <2> QED BY <2>1 DEF LinkOK
<1> QED BY <1>3, <1>4 DEF LinkOK

\* What holds of an inode whose names, subdirectories and pending calls are as before.
LEMMA OwedSame ==
    ASSUME NEW E, NEW T, NEW P, NEW E2, NEW P2, NEW j,
           NamesIn(E2, j) \subseteq NamesIn(E, j), SubsIn(E2, T, j) \subseteq SubsIn(E, T, j),
           PendIn(P2, j) \subseteq PendIn(P, j)
    PROVE  /\ Cardinality(NamesIn(E2, j)) <= Cardinality(NamesIn(E, j)) + 0
           /\ Cardinality(PendIn(P2, j)) <= Cardinality(PendIn(P, j)) + 0
           /\ Cardinality(SubsIn(E2, T, j)) <= Cardinality(SubsIn(E, T, j)) + 0
<1>1. IsFiniteSet(NamesIn(E, j)) /\ IsFiniteSet(PendIn(P, j)) /\ IsFiniteSet(SubsIn(E, T, j))
  BY OwedFinite
<1> QED BY <1>1, CardLess

\* link has counted the name it is about to enter ...
LEMMA LinksLink ==
    ASSUME NEW E, NEW T, NEW P, NEW N \in [Inums -> Int], LinkOK(E, T, P, N), NEW i \in Inums, T[i] # "none",
           NEW p \in Procs, NEW P2, Pending(P, P2, p, i),
           NEW N2 \in [Inums -> Int], Becomes(N, N2, i, N[i] + 1)
    PROVE  LinkOK(E, T, P2, N2)
<1> USE DEF Pending, Becomes
<1>1. ASSUME NEW j \in Inums, T[j] # "none" PROVE Owed(E, T, P2, j) <= N2[j]
  <2>0. Owed(E, T, P, j) <= N[j] /\ N[j] \in Int /\ N2[j] \in Int
    BY <1>1 DEF LinkOK
  <2>1. /\ IsFiniteSet(PendIn(P, j)) /\ Cardinality(NamesIn(E, j)) \in Nat
        /\ Cardinality(PendIn(P, j)) \in Nat /\ Cardinality(SubsIn(E, T, j)) \in Nat
    BY OwedFinite
  <2>2. /\ Cardinality(NamesIn(E, j)) <= Cardinality(NamesIn(E, j)) + 0
        /\ Cardinality(SubsIn(E, T, j)) <= Cardinality(SubsIn(E, T, j)) + 0
    BY <2>1
  <2>3. CASE j = i
    <3>1. \A q \in PendIn(P2, j) : q \in PendIn(P, j) \/ q = p
      BY DEF PendIn
    <3>2. Cardinality(PendIn(P2, j)) <= Cardinality(PendIn(P, j)) + 1
      BY <2>1, <3>1, CardMore
    <3>3. N[j] + 0 + 1 + 0 <= N2[j]
      BY <2>0, <2>3
    <3> QED BY <2>0, <2>2, <3>2, <3>3, OwedStep
  <2>4. CASE j # i
    <3>1. PendIn(P2, j) \subseteq PendIn(P, j)
      BY <2>4 DEF PendIn
    <3>2. Cardinality(PendIn(P2, j)) <= Cardinality(PendIn(P, j)) + 0
      BY <2>1, <3>1, CardLess
    <3>3. N[j] + 0 + 0 + 0 <= N2[j]
      BY <2>0, <2>4
    <3> QED BY <2>0, <2>2, <3>2, <3>3, OwedStep
  <2> QED BY <2>3, <2>4
<1> QED BY <1>1 DEF LinkOK

\* ... and the link is taken away when it was not entered, or erased.
LEMMA LinksUnlink ==
    ASSUME NEW E, NEW T, NEW P, NEW N \in [Inums -> Int], LinkOK(E, T, P, N), NEW i \in Inums,
           NEW p \in Procs, P[p] = i, NEW P2, Pending(P, P2, p, 0),
           NEW N2 \in [Inums -> Int], Becomes(N, N2, i, N[i] - 1)
    PROVE  LinkOK(E, T, P2, N2)
<1> USE DEF Pending, Becomes
<1>1. ASSUME NEW j \in Inums, T[j] # "none" PROVE Owed(E, T, P2, j) <= N2[j]
  <2>0. Owed(E, T, P, j) <= N[j] /\ N[j] \in Int /\ N2[j] \in Int /\ j # 0 /\ -1 \in Int
    BY <1>1 DEF LinkOK, Inums
  <2>1. /\ IsFiniteSet(PendIn(P, j)) /\ Cardinality(NamesIn(E, j)) \in Nat
        /\ Cardinality(PendIn(P, j)) \in Nat /\ Cardinality(SubsIn(E, T, j)) \in Nat
    BY OwedFinite
  <2>2. /\ Cardinality(NamesIn(E, j)) <= Cardinality(NamesIn(E, j)) + 0
        /\ Cardinality(SubsIn(E, T, j)) <= Cardinality(SubsIn(E, T, j)) + 0
    BY <2>1
  <2>3. CASE j = i
    <3>1. p \in PendIn(P, j) /\ \A q \in PendIn(P2, j) : q \in PendIn(P, j) /\ q # p
      BY <2>0, <2>3 DEF PendIn
    <3>2. Cardinality(PendIn(P2, j)) + 1 <= Cardinality(PendIn(P, j)) /\ Cardinality(PendIn(P2, j)) \in Nat
      BY <2>1, <3>1, CardFewer
    <3>3. Cardinality(PendIn(P2, j)) <= Cardinality(PendIn(P, j)) + (-1) /\ N[j] + 0 + (-1) + 0 <= N2[j]
      BY <2>0, <2>1, <2>3, <3>2
    <3> QED BY <2>0, <2>2, <3>3, OwedStep
  <2>4. CASE j # i
    <3>1. PendIn(P2, j) \subseteq PendIn(P, j)
      BY <2>0, <2>4 DEF PendIn
    <3>2. Cardinality(PendIn(P2, j)) <= Cardinality(PendIn(P, j)) + 0
      BY <2>1, <3>1, CardLess
    <3>3. N[j] + 0 + 0 + 0 <= N2[j]
      BY <2>0, <2>4
    <3> QED BY <2>0, <2>2, <3>2, <3>3, OwedStep
  <2> QED BY <2>3, <2>4
<1> QED BY <1>1 DEF LinkOK

\* The entry of the name n in directory d becomes v.
Changes(E, E2, d, n, v) ==
    \A j \in Inums, m \in Names : E2[j][m] = IF j = d /\ m = n THEN v ELSE E[j][m]

\* It was 0 and is now i.
LEMMA EntryAdded ==
    ASSUME NEW E, NEW T, NEW i \in Inums, NEW d \in Inums, NEW n \in Names, E[d][n] = 0,
           NEW E2, Changes(E, E2, d, n, i),
           NEW j \in Inums
    PROVE  /\ j # i => NamesIn(E2, j) \subseteq NamesIn(E, j)
           /\ Cardinality(NamesIn(E2, j)) <= Cardinality(NamesIn(E, j)) + (IF j = i THEN 1 ELSE 0)
           /\ Cardinality(SubsIn(E2, T, j)) <= Cardinality(SubsIn(E, T, j)) + (IF j = d /\ T[i] = "dir" THEN 1 ELSE 0)
<1>0. IsFiniteSet(NamesIn(E, j)) /\ IsFiniteSet(SubsIn(E, T, j))
  BY OwedFinite
<1>1. PICK x : x = <<d, n>>
  OBVIOUS
<1>2. \A y \in NamesIn(E2, j) : y \in NamesIn(E, j) \/ (y = x /\ j = i)
  <2>1. SUFFICES ASSUME NEW y \in NamesIn(E2, j) PROVE y \in NamesIn(E, j) \/ (y = x /\ j = i)
    OBVIOUS
  <2>2. PICK a \in Inums, m \in Names : y = <<a, m>> /\ E2[a][m] = j
    BY DEF NamesIn
  <2>3. CASE a = d /\ m = n
    BY <1>1, <2>2, <2>3 DEF Changes
  <2>4. CASE ~(a = d /\ m = n)
    BY <2>2, <2>4 DEF NamesIn, Changes
  <2> QED BY <2>3, <2>4
<1>3. \A m \in SubsIn(E2, T, j) : m \in SubsIn(E, T, j) \/ (m = n /\ j = d /\ T[i] = "dir")
  BY DEF SubsIn, Changes
<1>4. j # i => NamesIn(E2, j) \subseteq NamesIn(E, j)
  BY <1>2
<1>5. Cardinality(NamesIn(E2, j)) <= Cardinality(NamesIn(E, j)) + (IF j = i THEN 1 ELSE 0)
  <2>1. CASE j = i
    <3>1. \A y \in NamesIn(E2, j) : y \in NamesIn(E, j) \/ y = x
      BY <1>2
    <3>2. Cardinality(NamesIn(E2, j)) <= Cardinality(NamesIn(E, j)) + 1
      BY <1>0, <3>1, CardMore
    <3> QED BY <2>1, <3>2
  <2>2. CASE j # i
    <3>1. /\ Cardinality(NamesIn(E2, j)) <= Cardinality(NamesIn(E, j))
          /\ Cardinality(NamesIn(E, j)) \in Nat
      BY <1>0, <1>4, <2>2, CardLess
    <3> QED BY <2>2, <3>1
  <2> QED BY <2>1, <2>2
<1>6. Cardinality(SubsIn(E2, T, j)) <= Cardinality(SubsIn(E, T, j)) + (IF j = d /\ T[i] = "dir" THEN 1 ELSE 0)
  <2>1. CASE j = d /\ T[i] = "dir"
    <3>1. \A m \in SubsIn(E2, T, j) : m \in SubsIn(E, T, j) \/ m = n
      BY <1>3
    <3>2. Cardinality(SubsIn(E2, T, j)) <= Cardinality(SubsIn(E, T, j)) + 1
      BY <1>0, <3>1, CardMore
    <3> QED BY <2>1, <3>2
  <2>2. CASE ~(j = d /\ T[i] = "dir")
    <3>1. SubsIn(E2, T, j) \subseteq SubsIn(E, T, j)
      BY <1>3, <2>2
    <3>2. /\ Cardinality(SubsIn(E2, T, j)) <= Cardinality(SubsIn(E, T, j))
          /\ Cardinality(SubsIn(E, T, j)) \in Nat
      BY <1>0, <3>1, CardLess
    <3> QED BY <2>2, <3>2
  <2> QED BY <2>1, <2>2
<1> QED BY <1>4, <1>5, <1>6

\* It was i and is now 0.
LEMMA EntryErased ==
    ASSUME NEW E, NEW T, NEW i \in Inums, NEW d \in Inums, NEW n \in Names, E[d][n] = i,
           NEW E2, Changes(E, E2, d, n, 0),
           NEW j \in Inums
    PROVE  /\ NamesIn(E2, j) \subseteq NamesIn(E, j)
           /\ Cardinality(NamesIn(E2, j)) + (IF j = i THEN 1 ELSE 0) <= Cardinality(NamesIn(E, j))
           /\ Cardinality(SubsIn(E2, T, j)) + (IF j = d /\ T[i] = "dir" THEN 1 ELSE 0) <= Cardinality(SubsIn(E, T, j))
<1>0. IsFiniteSet(NamesIn(E, j)) /\ IsFiniteSet(SubsIn(E, T, j)) /\ j # 0 /\ i # 0
  BY OwedFinite DEF Inums
<1>1. PICK x : x = <<d, n>>
  OBVIOUS
<1>2. \A y \in NamesIn(E2, j) : y \in NamesIn(E, j) /\ y # x
  <2>1. SUFFICES ASSUME NEW y \in NamesIn(E2, j) PROVE y \in NamesIn(E, j) /\ y # x
    OBVIOUS
  <2>2. PICK a \in Inums, m \in Names : y = <<a, m>> /\ E2[a][m] = j
    BY DEF NamesIn
  <2>3. ~(a = d /\ m = n)
    BY <1>0, <2>2 DEF Changes
  <2>4. y # x
    BY <1>1, <2>2, <2>3
  <2>5. y \in NamesIn(E, j)
    BY <2>2, <2>3 DEF NamesIn, Changes
  <2> QED BY <2>4, <2>5
<1>3. \A m \in SubsIn(E2, T, j) : m \in SubsIn(E, T, j) /\ ~(m = n /\ j = d)
  BY DEF SubsIn, Changes
<1>4. NamesIn(E2, j) \subseteq NamesIn(E, j)
  BY <1>2
<1>5. Cardinality(NamesIn(E2, j)) + (IF j = i THEN 1 ELSE 0) <= Cardinality(NamesIn(E, j))
  <2>1. CASE j = i
    <3>1. x \in NamesIn(E, j)
      BY <1>1, <2>1 DEF NamesIn
    <3>2. Cardinality(NamesIn(E2, j)) + 1 <= Cardinality(NamesIn(E, j))
      BY <1>0, <1>2, <3>1, CardFewer
    <3> QED BY <2>1, <3>2
  <2>2. CASE j # i
    <3>1. /\ Cardinality(NamesIn(E2, j)) <= Cardinality(NamesIn(E, j))
          /\ Cardinality(NamesIn(E, j)) \in Nat /\ Cardinality(NamesIn(E2, j)) \in Nat
      BY <1>0, <1>4, CardLess
    <3> QED BY <2>2, <3>1
  <2> QED BY <2>1, <2>2
<1>6. Cardinality(SubsIn(E2, T, j)) + (IF j = d /\ T[i] = "dir" THEN 1 ELSE 0) <= Cardinality(SubsIn(E, T, j))
  <2>1. CASE j = d /\ T[i] = "dir"
    <3>1. n \in SubsIn(E, T, j) /\ \A m \in SubsIn(E2, T, j) : m \in SubsIn(E, T, j) /\ m # n
      BY <1>0, <1>3, <2>1 DEF SubsIn, Changes
    <3>2. Cardinality(SubsIn(E2, T, j)) + 1 <= Cardinality(SubsIn(E, T, j))
      BY <1>0, <3>1, CardFewer
    <3> QED BY <2>1, <3>2
  <2>2. CASE ~(j = d /\ T[i] = "dir")
    <3>1. SubsIn(E2, T, j) \subseteq SubsIn(E, T, j)
      BY <1>3
    <3>2. /\ Cardinality(SubsIn(E2, T, j)) <= Cardinality(SubsIn(E, T, j))
          /\ Cardinality(SubsIn(E, T, j)) \in Nat /\ Cardinality(SubsIn(E2, T, j)) \in Nat
      BY <1>0, <3>1, CardLess
    <3> QED BY <2>2, <3>2
  <2> QED BY <2>1, <2>2
<1> QED BY <1>4, <1>5, <1>6

LEMMA PendLess ==
    ASSUME NEW P, NEW i, NEW p \in Procs, P[p] = i,
           NEW P2, Pending(P, P2, p, 0), NEW j \in Inums
    PROVE  Cardinality(PendIn(P2, j)) + (IF j = i THEN 1 ELSE 0) <= Cardinality(PendIn(P, j))
<1>0. IsFiniteSet(PendIn(P, j)) /\ j # 0
  BY OwedFinite DEF Inums
<1> USE DEF Pending
<1>1. \A q \in PendIn(P2, j) : q \in PendIn(P, j) /\ q # p
  BY <1>0 DEF PendIn
<1>2. CASE j = i
  <2>1. p \in PendIn(P, j)
    BY <1>2 DEF PendIn
  <2>2. Cardinality(PendIn(P2, j)) + 1 <= Cardinality(PendIn(P, j))
    BY <1>0, <1>1, <2>1, CardFewer
  <2> QED BY <1>2, <2>2
<1>3. CASE j # i
  <2>1. PendIn(P2, j) \subseteq PendIn(P, j)
    BY <1>1
  <2>2. /\ Cardinality(PendIn(P2, j)) <= Cardinality(PendIn(P, j))
        /\ Cardinality(PendIn(P, j)) \in Nat /\ Cardinality(PendIn(P2, j)) \in Nat
    BY <1>0, <2>1, CardLess
  <2> QED BY <1>3, <2>2
<1> QED BY <1>2, <1>3

LEMMA PendMore ==
    ASSUME NEW P, NEW i, NEW p \in Procs,
           NEW P2, Pending(P, P2, p, i), NEW j \in Inums
    PROVE  Cardinality(PendIn(P2, j)) <= Cardinality(PendIn(P, j)) + (IF j = i THEN 1 ELSE 0)
<1>0. IsFiniteSet(PendIn(P, j))
  BY OwedFinite
<1> USE DEF Pending
<1>1. CASE j = i
  <2>1. \A q \in PendIn(P2, j) : q \in PendIn(P, j) \/ q = p
    BY DEF PendIn
  <2>2. Cardinality(PendIn(P2, j)) <= Cardinality(PendIn(P, j)) + 1
    BY <1>0, <2>1, CardMore
  <2> QED BY <1>1, <2>2
<1>2. CASE j # i
  <2>1. PendIn(P2, j) \subseteq PendIn(P, j)
    BY <1>2 DEF PendIn
  <2>2. /\ Cardinality(PendIn(P2, j)) <= Cardinality(PendIn(P, j))
        /\ Cardinality(PendIn(P, j)) \in Nat
    BY <1>0, <2>1, CardLess
  <2> QED BY <1>2, <2>2
<1> QED BY <1>1, <1>2

\* link enters the name it has counted.
LEMMA LinksEnter ==
    ASSUME NEW E, NEW T, NEW P, NEW N \in [Inums -> Int], LinkOK(E, T, P, N), NEW i \in Inums,
           T[i] # "none", T[i] # "dir",
           NEW p \in Procs, P[p] = i, NEW P2, Pending(P, P2, p, 0),
           NEW d \in Inums, NEW n \in Names, E[d][n] = 0,
           NEW E2, Changes(E, E2, d, n, i)
    PROVE  LinkOK(E2, T, P2, N)
<1> USE DEF Pending
<1>1. ASSUME NEW j \in Inums
      PROVE  /\ j # i => NamesIn(E2, j) \subseteq NamesIn(E, j)
             /\ Cardinality(NamesIn(E2, j)) <= Cardinality(NamesIn(E, j)) + (IF j = i THEN 1 ELSE 0)
             /\ Cardinality(SubsIn(E2, T, j)) <= Cardinality(SubsIn(E, T, j)) + (IF j = d /\ T[i] = "dir" THEN 1 ELSE 0)
  BY EntryAdded
<1>2. ASSUME NEW j \in Inums, T[j] # "none" PROVE Owed(E2, T, P2, j) <= N[j]
  <2>1. Owed(E, T, P, j) <= N[j] /\ N[j] \in Int
    BY <1>2 DEF LinkOK
  <2>2. Cardinality(PendIn(P2, j)) + (IF j = i THEN 1 ELSE 0) <= Cardinality(PendIn(P, j))
    BY PendLess
  <2>3. PICK x, y : x = (IF j = i THEN 1 ELSE 0) /\ y = 0 - x
    OBVIOUS
  <2>4. x \in Int /\ y \in Int /\ (IF j = d /\ T[i] = "dir" THEN 1 ELSE 0) = 0
    BY <2>3
  <2>5. Cardinality(PendIn(P, j)) \in Nat /\ Cardinality(PendIn(P2, j)) \in Nat
    BY OwedFinite
  <2>6. Cardinality(PendIn(P2, j)) <= Cardinality(PendIn(P, j)) + y /\ N[j] + x + y + 0 <= N[j]
    BY <2>1, <2>2, <2>3, <2>4, <2>5
  <2>7. /\ Cardinality(NamesIn(E2, j)) <= Cardinality(NamesIn(E, j)) + x
        /\ Cardinality(SubsIn(E2, T, j)) <= Cardinality(SubsIn(E, T, j)) + 0
    BY <1>1, <2>3, <2>4
  <2> QED BY <2>1, <2>4, <2>6, <2>7, OwedStep
<1>3. ASSUME NEW j \in Inums, T[j] = "none" PROVE j # ROOTINO /\ NamesIn(E2, j) = {}
  <2>1. j # i
    BY <1>3
  <2> QED BY <1>1, <1>3, <2>1 DEF LinkOK
<1> QED BY <1>2, <1>3 DEF LinkOK

\* unlink erases a name, with the link of a subdirectory to its parent.
LEMMA LinksErase ==
    ASSUME NEW E, NEW T, NEW P, NEW N \in [Inums -> Int], LinkOK(E, T, P, N), NEW i \in Inums,
           NEW p \in Procs, NEW P2, Pending(P, P2, p, i),
           NEW d \in Inums, NEW n \in Names, E[d][n] = i,
           NEW E2, Changes(E, E2, d, n, 0),
           NEW N2 \in [Inums -> Int],
           Becomes(N, N2, d, IF T[i] = "dir" THEN N[d] - 1 ELSE N[d])
    PROVE  LinkOK(E2, T, P2, N2)
<1> USE DEF Pending, Becomes
<1>1. ASSUME NEW j \in Inums
      PROVE  /\ NamesIn(E2, j) \subseteq NamesIn(E, j)
             /\ Cardinality(NamesIn(E2, j)) + (IF j = i THEN 1 ELSE 0) <= Cardinality(NamesIn(E, j))
             /\ Cardinality(SubsIn(E2, T, j)) + (IF j = d /\ T[i] = "dir" THEN 1 ELSE 0) <= Cardinality(SubsIn(E, T, j))
  BY EntryErased, ZenonT(40)
<1>2. ASSUME NEW j \in Inums, T[j] # "none" PROVE Owed(E2, T, P2, j) <= N2[j]
  <2>1. Owed(E, T, P, j) <= N[j] /\ N[j] \in Int /\ N2[j] \in Int
    BY <1>2 DEF LinkOK
  <2>2. PICK x, y, u, z : x = (IF j = i THEN 1 ELSE 0) /\ y = 0 - x /\ u = (IF j = d /\ T[i] = "dir" THEN 1 ELSE 0) /\ z = 0 - u
    OBVIOUS
  <2>3. Cardinality(PendIn(P2, j)) <= Cardinality(PendIn(P, j)) + x
    BY <2>2, PendMore, ZenonT(40)
  <2>4. x \in Int /\ y \in Int /\ u \in Int /\ z \in Int
    BY <2>2
  <2>5. /\ Cardinality(NamesIn(E, j)) \in Nat /\ Cardinality(NamesIn(E2, j)) \in Nat
        /\ Cardinality(SubsIn(E, T, j)) \in Nat /\ Cardinality(SubsIn(E2, T, j)) \in Nat
    BY OwedFinite
  <2>6. Cardinality(NamesIn(E2, j)) + x <= Cardinality(NamesIn(E, j))
    BY <1>1, <2>2
  <2>7. Cardinality(SubsIn(E2, T, j)) + u <= Cardinality(SubsIn(E, T, j))
    BY <1>1, <2>2
  <2>8. N2[j] = N[j] - u
    BY <2>1, <2>2
  <2>9. /\ Cardinality(NamesIn(E2, j)) <= Cardinality(NamesIn(E, j)) + y
        /\ Cardinality(SubsIn(E2, T, j)) <= Cardinality(SubsIn(E, T, j)) + z
        /\ N[j] + y + x + z <= N2[j]
    BY <2>1, <2>2, <2>4, <2>5, <2>6, <2>7, <2>8
  <2> QED BY <2>1, <2>3, <2>4, <2>9, OwedStep
<1>3. ASSUME NEW j \in Inums, T[j] = "none" PROVE j # ROOTINO /\ NamesIn(E2, j) = {}
  BY <1>1, <1>3 DEF LinkOK
<1> QED BY <1>2, <1>3 DEF LinkOK

\* create enters the new inode, with the link of a subdirectory to its parent.
LEMMA LinksInit ==
    ASSUME NEW E, NEW T, NEW P, NEW N \in [Inums -> Int], LinkOK(E, T, P, N), NEW i \in Inums,
           T[i] # "none", N[i] = 0,
           NEW d \in Inums, d # i, NEW n \in Names, E[d][n] = 0,
           NEW E2, Changes(E, E2, d, n, i),
           NEW N2 \in [Inums -> Int], InitCounts(N, N2, i, d, T[i] = "dir")
    PROVE  LinkOK(E2, T, P, N2)
<1> USE DEF InitCounts
<1>1. ASSUME NEW j \in Inums
      PROVE  /\ j # i => NamesIn(E2, j) \subseteq NamesIn(E, j)
             /\ Cardinality(NamesIn(E2, j)) <= Cardinality(NamesIn(E, j)) + (IF j = i THEN 1 ELSE 0)
             /\ Cardinality(SubsIn(E2, T, j)) <= Cardinality(SubsIn(E, T, j)) + (IF j = d /\ T[i] = "dir" THEN 1 ELSE 0)
  BY EntryAdded
<1>2. ASSUME NEW j \in Inums, T[j] # "none" PROVE Owed(E2, T, P, j) <= N2[j]
  <2>1. Owed(E, T, P, j) <= N[j] /\ N[j] \in Int /\ N2[j] \in Int
    BY <1>2 DEF LinkOK
  <2>2. PICK x, z : x = (IF j = i THEN 1 ELSE 0) /\ z = (IF j = d /\ T[i] = "dir" THEN 1 ELSE 0)
    OBVIOUS
  <2>3. x \in Int /\ z \in Int
    BY <2>2
  <2>4. /\ Cardinality(NamesIn(E2, j)) <= Cardinality(NamesIn(E, j)) + x
        /\ Cardinality(SubsIn(E2, T, j)) <= Cardinality(SubsIn(E, T, j)) + z
    BY <1>1, <2>2
  <2>5. Cardinality(PendIn(P, j)) \in Nat
    BY OwedFinite
  <2>6. Cardinality(PendIn(P, j)) <= Cardinality(PendIn(P, j)) + 0
    BY <2>5
  <2>7. N[j] + x + 0 + z <= N2[j]
    <3>1. CASE j = i
      BY <2>1, <2>2, <3>1
    <3>2. CASE j # i
      BY <2>1, <2>2, <3>2
    <3> QED BY <3>1, <3>2
  <2> QED BY <2>1, <2>3, <2>4, <2>6, <2>7, OwedStep
<1>3. ASSUME NEW j \in Inums, T[j] = "none" PROVE j # ROOTINO /\ NamesIn(E2, j) = {}
  <2>1. j # i
    BY <1>3
  <2> QED BY <1>1, <1>3, <2>1 DEF LinkOK
<1> QED BY <1>2, <1>3 DEF LinkOK

----------------------------------------------------------------------------
(* The blocks of inodes *)

\* The blocks of inode d, with the indirect blocks of P.
BlocksIn(P, d) ==
    {x \in Nat : /\ x # 0
                 /\ \/ \E k \in 0 .. NDIRECT : x = d.addrs[k]
                    \/ d.addrs[NDIRECT] # 0 /\ \E k \in 0 .. NINDIRECT - 1 : x = P[d.addrs[NDIRECT]][k]}

Ptrs == [Blocks -> [0 .. NINDIRECT - 1 -> 0 .. NBlocks]]

LEMMA AddrsIn ==
    ASSUME NEW d \in DInode, NEW k \in 0 .. NDIRECT
    PROVE  d.addrs[k] \in 0 .. NBlocks /\ (d.addrs[k] # 0 => d.addrs[k] \in Blocks)
<1>1. d.addrs[k] \in 0 .. NBlocks
  BY DEF DInode
<1> QED BY <1>1, FsAssumption DEF Blocks

LEMMA DirectIn ==
    NDIRECT \in 0 .. NDIRECT /\ 0 \in 0 .. NDIRECT /\ NDIRECT \in Nat \ {0}
BY FsAssumption

\* BlocksOf, with the indirect blocks of P.
BlocksAt(P, d) ==
    LET b == d.addrs[NDIRECT]
    IN  ({d.addrs[k] : k \in 0 .. NDIRECT}
         \cup (IF b = 0 THEN {} ELSE {P[b][k] : k \in DOMAIN NoPtrs})) \ {0}

LEMMA BlocksAtIs ==
    ASSUME NEW P \in Ptrs, NEW d \in DInode
    PROVE  BlocksAt(P, d) = BlocksIn(P, d) /\ BlocksAt(P, d) \subseteq Blocks
<1>1. PICK b : b = d.addrs[NDIRECT]
  OBVIOUS
<1>2. b # 0 => b \in Blocks
  BY <1>1, AddrsIn, DirectIn
<1>3. \A k \in 0 .. NDIRECT : d.addrs[k] \in 0 .. NBlocks
  BY AddrsIn
<1>4. b # 0 => \A k \in 0 .. NINDIRECT - 1 : P[b][k] \in 0 .. NBlocks
  BY <1>2 DEF Ptrs
<1>5. DOMAIN NoPtrs = 0 .. NINDIRECT - 1
  BY DEF NoPtrs
<1>6. ASSUME NEW x
      PROVE  x \in BlocksAt(P, d) <=>
               /\ x # 0
               /\ \/ \E k \in 0 .. NDIRECT : x = d.addrs[k]
                  \/ b # 0 /\ \E k \in 0 .. NINDIRECT - 1 : x = P[b][k]
  BY <1>1, <1>5 DEF BlocksAt
<1>7. ASSUME NEW x \in BlocksAt(P, d) PROVE x \in Blocks
  BY <1>3, <1>4, <1>6, FsAssumption DEF Blocks
<1>8. \A x : x \in BlocksAt(P, d) <=> x \in BlocksIn(P, d)
  BY <1>1, <1>6, <1>7 DEF BlocksIn, Blocks
<1> QED BY <1>7, <1>8

LEMMA BlocksOfIs ==
    ASSUME DiskOK, NEW d \in DInode
    PROVE  BlocksOf(d) = BlocksIn(ptr, d) /\ BlocksOf(d) \subseteq Blocks
<1>1. BlocksOf(d) = BlocksAt(ptr, d)
  BY DEF BlocksOf, BlocksAt
<1>2. ptr \in Ptrs
  BY DEF DiskOK, Ptrs
<1> QED BY <1>1, <1>2, BlocksAtIs

\* The blocks of the inodes D are those in U, and none has two owners.
OwnedIn(U, P, D) ==
    /\ \A x : x \in U <=> \E i \in Inums : x \in BlocksIn(P, D[i])
    /\ \A i, j \in Inums : \A x : i # j => ~(x \in BlocksIn(P, D[i]) /\ x \in BlocksIn(P, D[j]))

OwnedAt(U, P, D) ==
    /\ U = UNION {BlocksAt(P, D[i]) : i \in Inums}
    /\ \A i, j \in Inums : i # j => BlocksAt(P, D[i]) \cap BlocksAt(P, D[j]) = {}

LEMMA OwnedAtIs ==
    ASSUME NEW U, NEW P \in Ptrs, NEW D \in [Inums -> DInode]
    PROVE  OwnedAt(U, P, D) <=> OwnedIn(U, P, D)
<1>1. \A i \in Inums : BlocksAt(P, D[i]) = BlocksIn(P, D[i])
  BY BlocksAtIs
<1>2. OwnedAt(U, P, D) <=> /\ U = UNION {BlocksIn(P, D[i]) : i \in Inums}
                           /\ \A i, j \in Inums : i # j => BlocksIn(P, D[i]) \cap BlocksIn(P, D[j]) = {}
  BY <1>1 DEF OwnedAt
<1>3. U = UNION {BlocksIn(P, D[i]) : i \in Inums}
        <=> \A x : x \in U <=> \E i \in Inums : x \in BlocksIn(P, D[i])
  OBVIOUS
<1> QED BY <1>2, <1>3 DEF OwnedIn

LEMMA OwnedIs ==
    ASSUME DiskOK
    PROVE  OneOwner <=> OwnedIn(used, ptr, dinode)
<1>1. OneOwner <=> OwnedAt(used, ptr, dinode)
  BY DEF OneOwner, OwnedAt, BlocksOf, BlocksAt
<1>2. ptr \in Ptrs /\ dinode \in [Inums -> DInode]
  BY DEF DiskOK, Ptrs
<1> QED BY <1>1, <1>2, OwnedAtIs

LEMMA OwnedNext ==
    ASSUME DiskOK'
    PROVE  OneOwner' <=> OwnedIn(used', ptr', dinode')
<1>1. OneOwner' <=> OwnedAt(used', ptr', dinode')
  BY DEF OneOwner, OwnedAt, BlocksOf, BlocksAt
<1>2. ptr' \in Ptrs /\ dinode' \in [Inums -> DInode]
  BY DEF DiskOK, Ptrs
<1> QED BY <1>1, <1>2, OwnedAtIs

\* The blocks of an inode are freed, ...
LEMMA OwnedShrink ==
    ASSUME NEW U, NEW P, NEW D, OwnedIn(U, P, D), NEW D2, NEW i \in Inums,
           \A x : x \notin BlocksIn(P, D2[i]),
           \A j \in Inums : j # i => D2[j] = D[j],
           NEW U2, \A x : x \in U2 <=> x \in U /\ x \notin BlocksIn(P, D[i])
    PROVE  OwnedIn(U2, P, D2)
<1>1. \A x, j : j \in Inums => (x \in BlocksIn(P, D2[j]) <=> x \in BlocksIn(P, D[j]) /\ j # i)
  OBVIOUS
<1>2. \A x : x \in U2 <=> \E j \in Inums : x \in BlocksIn(P, D2[j])
  BY <1>1 DEF OwnedIn
<1>3. \A j, k \in Inums : \A x : j # k => ~(x \in BlocksIn(P, D2[j]) /\ x \in BlocksIn(P, D2[k]))
  BY <1>1 DEF OwnedIn
<1> QED BY <1>2, <1>3 DEF OwnedIn

\* ... or no inode gets or loses any.
LEMMA OwnedKeep ==
    ASSUME NEW U, NEW P, NEW D, OwnedIn(U, P, D), NEW D2,
           \A j \in Inums : BlocksIn(P, D2[j]) = BlocksIn(P, D[j])
    PROVE  OwnedIn(U, P, D2)
BY DEF OwnedIn

LEMMA BlocksSame ==
    ASSUME NEW P, NEW P2, NEW d, NEW e, e.addrs = d.addrs,
           d.addrs[NDIRECT] # 0 => P2[d.addrs[NDIRECT]] = P[d.addrs[NDIRECT]]
    PROVE  /\ BlocksIn(P2, e) = BlocksIn(P, d)
           /\ \A n : Filled(P, d, n) => Filled(P2, e, n)
BY DEF BlocksIn, Filled

\* An inode without blocks.
LEMMA NoBlocks ==
    ASSUME NEW P, NEW d, d.addrs = NoAddrs
    PROVE  (\A x : x \notin BlocksIn(P, d)) /\ Filled(P, d, 0)
<1>1. \A k \in 0 .. NDIRECT : d.addrs[k] = 0
  BY DEF NoAddrs
<1> QED BY <1>1, DirectIn DEF BlocksIn, Filled

LEMMA UpToLess ==
    ASSUME NEW m \in Nat, NEW n \in Nat, NEW A, A = {k \in 0 .. m - 1 : k < n}
    PROVE  Cardinality(A) = IF n < m THEN n ELSE m
<1>1. CASE n < m
  <2>1. A = 0 .. n - 1
    BY <1>1
  <2>2. 0 \in Int /\ n - 1 \in Int
    OBVIOUS
  <2>3. Cardinality(A) = IF 0 > n - 1 THEN 0 ELSE (n - 1) - 0 + 1
    BY <2>1, <2>2, UpTo
  <2> QED BY <1>1, <2>3
<1>2. CASE ~(n < m)
  <2>1. A = 0 .. m - 1
    BY <1>2
  <2>2. 0 \in Int /\ m - 1 \in Int
    OBVIOUS
  <2>3. Cardinality(A) = IF 0 > m - 1 THEN 0 ELSE (m - 1) - 0 + 1
    BY <2>1, <2>2, UpTo
  <2> QED BY <1>2, <2>3
<1> QED BY <1>1, <1>2

\* Size counts the blocks that an inode has.
LEMMA SizeIs ==
    ASSUME NEW d, NEW n \in 0 .. NDIRECT + NINDIRECT, Filled(ptr, d, n)
    PROVE  Size(d) = n
<1>1. NDIRECT \in Nat /\ NINDIRECT \in Nat /\ n \in Nat /\ n <= NDIRECT + NINDIRECT
  BY FsAssumption
<1>2. PICK A, B : /\ A = {k \in 0 .. NDIRECT - 1 : d.addrs[k] # 0}
                  /\ B = {k \in DOMAIN NoPtrs : ptr[d.addrs[NDIRECT]][k] # 0}
  OBVIOUS
<1>3. Size(d) = Cardinality(A) + IF d.addrs[NDIRECT] = 0 THEN 0 ELSE Cardinality(B)
  BY <1>2 DEF Size
<1>4. A = {k \in 0 .. NDIRECT - 1 : k < n}
  BY <1>2 DEF Filled
<1>5. Cardinality(A) = IF n < NDIRECT THEN n ELSE NDIRECT
  BY <1>1, <1>4, UpToLess
<1>6. CASE d.addrs[NDIRECT] = 0
  <2>1. ~(NDIRECT < n)
    BY <1>6 DEF Filled
  <2> QED BY <1>1, <1>3, <1>5, <1>6, <2>1
<1>7. CASE d.addrs[NDIRECT] # 0
  <2>1. NDIRECT < n
    BY <1>7 DEF Filled
  <2>2. PICK m : m = n - NDIRECT
    OBVIOUS
  <2>3. DOMAIN NoPtrs = 0 .. NINDIRECT - 1
    BY DEF NoPtrs
  <2>4. B = {k \in 0 .. NINDIRECT - 1 : k < m}
    BY <1>2, <1>7, <2>2, <2>3 DEF Filled
  <2>5. m \in Nat /\ m <= NINDIRECT
    BY <1>1, <2>1, <2>2
  <2>6. Cardinality(B) = IF m < NINDIRECT THEN m ELSE NINDIRECT
    BY <1>1, <2>4, <2>5, UpToLess
  <2> QED BY <1>1, <1>3, <1>5, <1>7, <2>1, <2>2, <2>5, <2>6
<1> QED BY <1>6, <1>7

\* What write adds to an inode of n blocks.
LEMMA GrownDirect ==
    ASSUME NEW d \in DInode, NEW n \in Nat, n < NDIRECT, NEW P, NEW P2, Filled(P, d, n), NEW b \in Blocks,
           NEW e, e.addrs = [d.addrs EXCEPT ![n] = b]
    PROVE  /\ \A x : x \in BlocksIn(P2, e) <=> x \in BlocksIn(P, d) \/ x = b
           /\ Filled(P2, e, n + 1)
<1>1. NDIRECT \in Nat /\ n \in 0 .. NDIRECT - 1 /\ n \in 0 .. NDIRECT /\ NDIRECT # n
  BY FsAssumption
<1>2. DOMAIN d.addrs = 0 .. NDIRECT
  BY DEF DInode
<1>3. d.addrs[NDIRECT] = 0 /\ d.addrs[n] = 0
  BY <1>1 DEF Filled
<1>4. \A k \in 0 .. NDIRECT : e.addrs[k] = IF k = n THEN b ELSE d.addrs[k]
  BY <1>2
<1>5. e.addrs[NDIRECT] = 0 /\ b # 0 /\ b \in Nat
  BY <1>1, <1>3, <1>4 DEF Blocks
<1>6. ASSUME NEW x PROVE x \in BlocksIn(P2, e) <=> x \in BlocksIn(P, d) \/ x = b
  <2>1. x \in BlocksIn(P2, e) <=> x \in Nat /\ x # 0 /\ \E k \in 0 .. NDIRECT : x = e.addrs[k]
    BY <1>5 DEF BlocksIn
  <2>2. x \in BlocksIn(P, d) <=> x \in Nat /\ x # 0 /\ \E k \in 0 .. NDIRECT : x = d.addrs[k]
    BY <1>3 DEF BlocksIn
  <2> QED BY <1>1, <1>3, <1>4, <1>5, <2>1, <2>2
<1>7. \A k \in 0 .. NDIRECT - 1 : e.addrs[k] # 0 <=> k < n + 1
  <2>1. SUFFICES ASSUME NEW k \in 0 .. NDIRECT - 1 PROVE e.addrs[k] # 0 <=> k < n + 1
    OBVIOUS
  <2>2. k \in 0 .. NDIRECT /\ (d.addrs[k] # 0 <=> k < n)
    BY <1>1 DEF Filled
  <2> QED BY <1>1, <1>4, <1>5, <2>2
<1> QED BY <1>1, <1>5, <1>6, <1>7 DEF Filled

LEMMA GrownFirst ==
    ASSUME NEW d \in DInode, NEW P, NEW P2, Filled(P, d, NDIRECT), NEW b \in Blocks, NEW c \in Blocks,
           NINDIRECT > 0, NEW e, e.addrs = [d.addrs EXCEPT ![NDIRECT] = b], P2[b] = [NoPtrs EXCEPT ![0] = c]
    PROVE  /\ \A x : x \in BlocksIn(P2, e) <=> x \in BlocksIn(P, d) \/ x = b \/ x = c
           /\ Filled(P2, e, NDIRECT + 1)
<1>1. NDIRECT \in Nat /\ NINDIRECT \in Nat /\ 0 \in 0 .. NINDIRECT - 1
  BY FsAssumption
<1>2. DOMAIN d.addrs = 0 .. NDIRECT
  BY DEF DInode
<1>3. d.addrs[NDIRECT] = 0
  BY <1>1 DEF Filled
<1>4. \A k \in 0 .. NDIRECT : e.addrs[k] = IF k = NDIRECT THEN b ELSE d.addrs[k]
  BY <1>2
<1>5. e.addrs[NDIRECT] = b /\ b # 0 /\ b \in Nat /\ c # 0 /\ c \in Nat
  BY <1>1, <1>4 DEF Blocks
<1>6. \A k \in 0 .. NINDIRECT - 1 : P2[b][k] = IF k = 0 THEN c ELSE 0
  BY <1>1 DEF NoPtrs
<1>7. ASSUME NEW x PROVE x \in BlocksIn(P2, e) <=> x \in BlocksIn(P, d) \/ x = b \/ x = c
  <2>1. x \in BlocksIn(P2, e) <=> /\ x \in Nat /\ x # 0
                                  /\ \/ \E k \in 0 .. NDIRECT : x = e.addrs[k]
                                     \/ \E k \in 0 .. NINDIRECT - 1 : x = P2[b][k]
    BY <1>5 DEF BlocksIn
  <2>2. x \in BlocksIn(P, d) <=> x \in Nat /\ x # 0 /\ \E k \in 0 .. NDIRECT : x = d.addrs[k]
    BY <1>3 DEF BlocksIn
  <2>3. x # 0 => ((\E k \in 0 .. NINDIRECT - 1 : x = P2[b][k]) <=> x = c)
    BY <1>1, <1>6
  <2>4. x # 0 => ((\E k \in 0 .. NDIRECT : x = e.addrs[k]) <=> (\E k \in 0 .. NDIRECT : x = d.addrs[k]) \/ x = b)
    BY <1>1, <1>3, <1>4
  <2> QED BY <1>5, <2>1, <2>2, <2>3, <2>4
<1>8. \A k \in 0 .. NDIRECT - 1 : e.addrs[k] # 0 <=> k < NDIRECT + 1
  <2>1. SUFFICES ASSUME NEW k \in 0 .. NDIRECT - 1 PROVE e.addrs[k] # 0 <=> k < NDIRECT + 1
    OBVIOUS
  <2>2. k \in 0 .. NDIRECT /\ k # NDIRECT /\ d.addrs[k] # 0 /\ k < NDIRECT + 1
    BY <1>1 DEF Filled
  <2> QED BY <1>4, <2>2
<1>9. \A k \in 0 .. NINDIRECT - 1 : P2[b][k] # 0 <=> k < (NDIRECT + 1) - NDIRECT
  BY <1>1, <1>5, <1>6
<1>10. e.addrs[NDIRECT] # 0 /\ NDIRECT < NDIRECT + 1
  BY <1>1, <1>5
<1> QED BY <1>5, <1>7, <1>8, <1>9, <1>10 DEF Filled

LEMMA GrownIndirect ==
    ASSUME NEW d \in DInode, NEW n \in Nat, NDIRECT < n, n < NDIRECT + NINDIRECT,
           NEW P, NEW P2, Filled(P, d, n), NEW b \in Blocks, NEW a, a = d.addrs[NDIRECT],
           DOMAIN P[a] = 0 .. NINDIRECT - 1, P2[a] = [P[a] EXCEPT ![n - NDIRECT] = b]
    PROVE  /\ \A x : x \in BlocksIn(P2, d) <=> x \in BlocksIn(P, d) \/ x = b
           /\ Filled(P2, d, n + 1)
<1>1. NDIRECT \in Nat /\ NINDIRECT \in Nat
  BY FsAssumption
<1>2. PICK m : m = n - NDIRECT
  OBVIOUS
<1>3. m \in Nat /\ m \in 0 .. NINDIRECT - 1
  BY <1>1, <1>2
<1>4. a # 0 /\ \A k \in 0 .. NINDIRECT - 1 : P[a][k] # 0 <=> k < m
  BY <1>2 DEF Filled
<1>5. \A k \in 0 .. NINDIRECT - 1 : P2[a][k] = IF k = m THEN b ELSE P[a][k]
  BY <1>2
<1>6. b # 0 /\ b \in Nat
  BY DEF Blocks
<1>7. P[a][m] = 0
  BY <1>3, <1>4
<1>8. ASSUME NEW x PROVE x \in BlocksIn(P2, d) <=> x \in BlocksIn(P, d) \/ x = b
  <2>1. x \in BlocksIn(P2, d) <=> /\ x \in Nat /\ x # 0
                                  /\ \/ \E k \in 0 .. NDIRECT : x = d.addrs[k]
                                     \/ \E k \in 0 .. NINDIRECT - 1 : x = P2[a][k]
    BY <1>4 DEF BlocksIn
  <2>3. x \in BlocksIn(P, d) <=> /\ x \in Nat /\ x # 0
                                 /\ \/ \E k \in 0 .. NDIRECT : x = d.addrs[k]
                                    \/ \E k \in 0 .. NINDIRECT - 1 : x = P[a][k]
    BY <1>4 DEF BlocksIn
  <2>2. x # 0 => ((\E k \in 0 .. NINDIRECT - 1 : x = P2[a][k]) <=> (\E k \in 0 .. NINDIRECT - 1 : x = P[a][k]) \/ x = b)
    BY <1>3, <1>5, <1>7
  <2> QED BY <1>6, <2>1, <2>2, <2>3
<1>9. \A k \in 0 .. NINDIRECT - 1 : P2[a][k] # 0 <=> k < (n + 1) - NDIRECT
  <2>1. SUFFICES ASSUME NEW k \in 0 .. NINDIRECT - 1 PROVE P2[a][k] # 0 <=> k < (n + 1) - NDIRECT
    OBVIOUS
  <2>2. (n + 1) - NDIRECT = m + 1 /\ k \in Nat
    BY <1>1, <1>2
  <2> QED BY <1>3, <1>4, <1>5, <1>6, <2>2
<1>10. \A k \in 0 .. NDIRECT - 1 : d.addrs[k] # 0 <=> k < n + 1
  <2>1. SUFFICES ASSUME NEW k \in 0 .. NDIRECT - 1 PROVE d.addrs[k] # 0 /\ k < n + 1
    OBVIOUS
  <2> QED BY <1>1 DEF Filled
<1>11. NDIRECT < n + 1
  BY <1>1
<1> QED BY <1>4, <1>8, <1>9, <1>10, <1>11 DEF Filled

LEMMA GrownPtrIs ==
    ASSUME DiskOK, NEW d, NEW n \in Nat, NEW b \in Blocks, NEW c, NEW a, a = d.addrs[NDIRECT],
           NEW P2, P2 = GrownPtr(d, n, b, c)
    PROVE  /\ n < NDIRECT => \A x \in Blocks : x # b => P2[x] = ptr[x]
           /\ n = NDIRECT /\ c # b => /\ P2[b] = [NoPtrs EXCEPT ![0] = c]
                                      /\ \A x \in Blocks : x # b /\ x # c => P2[x] = ptr[x]
           /\ NDIRECT < n /\ a # b /\ a \in Blocks => /\ P2[a] = [ptr[a] EXCEPT ![n - NDIRECT] = b]
                                                      /\ \A x \in Blocks : x # b /\ x # a => P2[x] = ptr[x]
<1>1. DOMAIN ptr = Blocks /\ NDIRECT \in Nat
  BY FsAssumption DEF DiskOK
<1>2. CASE n < NDIRECT
  BY <1>1, <1>2 DEF GrownPtr
<1>3. CASE n = NDIRECT
  <2>1. PICK z : z = [NoPtrs EXCEPT ![0] = c]
    OBVIOUS
  <2>2. P2 = [ptr EXCEPT ![b] = z, ![c] = NoPtrs]
    BY <1>1, <1>3, <2>1 DEF GrownPtr
  <2>3. c # b => P2[b] = z
    BY <1>1, <2>2
  <2>4. \A x \in Blocks : x # b /\ x # c => P2[x] = ptr[x]
    BY <1>1, <2>2
  <2> QED BY <1>1, <1>3, <2>1, <2>3, <2>4
<1>4. CASE NDIRECT < n
  <2>1. PICK k : k = n - NDIRECT
    OBVIOUS
  <2>2. P2 = [ptr EXCEPT ![a][k] = b, ![b] = NoPtrs]
    BY <1>1, <1>4, <2>1 DEF GrownPtr
  <2>3. a # b /\ a \in Blocks => P2[a] = [ptr[a] EXCEPT ![k] = b]
    BY <1>1, <2>2
  <2>4. \A x \in Blocks : x # b /\ x # a => P2[x] = ptr[x]
    BY <1>1, <2>2
  <2> QED BY <1>1, <1>4, <2>1, <2>3, <2>4
<1> QED BY <1>1, <1>2, <1>3, <1>4

LEMMA WriteBlocks ==
    ASSUME DiskOK, OwnedIn(used, ptr, dinode), FilledInv, NEW i \in Inums, NEW d, d = dinode[i],
           NEW n, n = Size(d), n < NDIRECT + NINDIRECT, NEW b, NEW c, b = FreeBlock, c = SecondBlock,
           Cardinality(Blocks \ used) >= Needs(d), NEW e, e = Grown(d, n, b),
           NEW D2, D2[i] = e, \A j \in Inums : j # i => D2[j] = dinode[j],
           NEW P2, P2 = GrownPtr(d, n, b, c), NEW U2, U2 = used \cup Taken(d, b, c)
    PROVE  /\ OwnedIn(U2, P2, D2)
           /\ \A j \in Inums : \E m \in 0 .. NDIRECT + NINDIRECT : Filled(P2, D2[j], m)
<1>1. d \in DInode /\ NDIRECT \in Nat /\ NINDIRECT \in Nat
  BY FsAssumption DEF DiskOK
<1>2. n \in 0 .. NDIRECT + NINDIRECT /\ Filled(ptr, d, n) /\ n \in Nat
  <2>1. PICK m \in 0 .. NDIRECT + NINDIRECT : Filled(ptr, d, m)
    BY DEF FilledInv
  <2>2. n = m
    BY <2>1, SizeIs
  <2> QED BY <2>1, <2>2
<1>3. (Needs(d) = 2 <=> n = NDIRECT)
  BY SizeNat
<1>4. b \in Blocks /\ b \notin used /\ (n = NDIRECT => c \in Blocks /\ c \notin used /\ c # b)
  <2>1. used \subseteq Blocks
    BY DEF DiskOK
  <2> QED BY <1>3, <2>1, TakenIn
<1>5. ASSUME NEW j \in Inums, dinode[j].addrs[NDIRECT] # 0
      PROVE  /\ dinode[j].addrs[NDIRECT] \in Blocks /\ dinode[j].addrs[NDIRECT] \in used
             /\ dinode[j].addrs[NDIRECT] \in BlocksIn(ptr, dinode[j])
  <2>1. dinode[j] \in DInode
    BY DEF DiskOK
  <2>2. dinode[j].addrs[NDIRECT] \in Blocks
    BY <1>5, <2>1, AddrsIn, DirectIn
  <2>3. dinode[j].addrs[NDIRECT] \in BlocksIn(ptr, dinode[j])
    BY <1>5, <2>2, DirectIn DEF BlocksIn, Blocks
  <2> QED BY <2>2, <2>3 DEF OwnedIn
<1>6. PICK a : a = d.addrs[NDIRECT]
  OBVIOUS
<1>7. NDIRECT < n => a \in Blocks /\ a # b
  BY <1>2, <1>4, <1>5, <1>6 DEF Filled
<1>8. /\ n < NDIRECT => \A x \in Blocks : x # b => P2[x] = ptr[x]
      /\ n = NDIRECT => /\ P2[b] = [NoPtrs EXCEPT ![0] = c]
                        /\ \A x \in Blocks : x # b /\ x # c => P2[x] = ptr[x]
      /\ NDIRECT < n => /\ P2[a] = [ptr[a] EXCEPT ![n - NDIRECT] = b]
                        /\ \A x \in Blocks : x # b /\ x # a => P2[x] = ptr[x]
  BY <1>2, <1>4, <1>6, <1>7, GrownPtrIs
<1>9. ASSUME NEW j \in Inums, j # i
      PROVE  /\ BlocksIn(P2, D2[j]) = BlocksIn(ptr, dinode[j])
             /\ \E m \in 0 .. NDIRECT + NINDIRECT : Filled(P2, D2[j], m)
  <2>1. PICK y, z : y = dinode[j] /\ z = dinode[j].addrs[NDIRECT]
    OBVIOUS
  <2>2. z # 0 => z \in Blocks /\ z # b /\ (n = NDIRECT => z # c)
    BY <1>4, <1>5, <2>1
  <2>3. z # 0 /\ NDIRECT < n => z # a
    <3>1. SUFFICES ASSUME z # 0, NDIRECT < n, z = a PROVE FALSE
      OBVIOUS
    <3>2. z \in BlocksIn(ptr, dinode[j]) /\ z \in BlocksIn(ptr, dinode[i])
      BY <1>5, <1>6, <2>1, <3>1
    <3> QED BY <1>9, <3>2 DEF OwnedIn
  <2>4. z # 0 => P2[z] = ptr[z]
    BY <1>1, <1>2, <1>8, <2>2, <2>3
  <2>5. BlocksIn(P2, y) = BlocksIn(ptr, y) /\ \A m : Filled(ptr, y, m) => Filled(P2, y, m)
    BY <2>1, <2>4, BlocksSame
  <2>6. D2[j] = y
    BY <1>9, <2>1
  <2> QED BY <2>1, <2>5, <2>6 DEF FilledInv
<1>10. PICK X : X = Taken(d, b, c)
  OBVIOUS
<1>11. /\ \A x : x \in BlocksIn(P2, D2[i]) <=> x \in BlocksIn(ptr, dinode[i]) \/ x \in X
       /\ Filled(P2, D2[i], n + 1)
  <2>1. CASE n < NDIRECT
    <3>1. n \in 0 .. NDIRECT - 1
      BY <1>1, <1>2, <2>1
    <3>2. e.addrs = [d.addrs EXCEPT ![n] = b] /\ n # NDIRECT
      BY <1>1, <1>2, <2>1 DEF Grown, DInode
    <3>3. /\ \A x : x \in BlocksIn(P2, e) <=> x \in BlocksIn(ptr, d) \/ x = b
          /\ Filled(P2, e, n + 1)
      <4>1. d \in DInode /\ Filled(ptr, d, n) /\ b \in Blocks
        BY <1>1, <1>2, <1>4
      <4>2. e.addrs = [d.addrs EXCEPT ![n] = b]
        BY <3>2
      <4> QED BY <1>2, <2>1, <4>1, <4>2, GrownDirect
    <3>4. \A x : x \in X <=> x = b
      BY <1>3, <1>10, <3>2 DEF Taken
    <3> QED BY <3>3, <3>4
  <2>2. CASE n = NDIRECT
    <3>1. NINDIRECT > 0 /\ Filled(ptr, d, NDIRECT)
      BY <1>1, <1>2, <2>2
    <3>2. e.addrs = [d.addrs EXCEPT ![NDIRECT] = b]
      BY <1>1, <2>2 DEF Grown, DInode
    <3>3. P2[b] = [NoPtrs EXCEPT ![0] = c] /\ c \in Blocks
      BY <1>4, <1>8, <2>2
    <3>4. /\ \A x : x \in BlocksIn(P2, e) <=> x \in BlocksIn(ptr, d) \/ x = b \/ x = c
          /\ Filled(P2, e, NDIRECT + 1)
      BY <1>1, <1>4, <3>1, <3>2, <3>3, GrownFirst
    <3>5. \A x : x \in X <=> x = b \/ x = c
      BY <1>3, <1>10, <2>2 DEF Taken
    <3> QED BY <2>2, <3>4, <3>5
  <2>3. CASE NDIRECT < n
    <3>1. e = d /\ n # NDIRECT
      BY <1>1, <1>2, <2>3 DEF Grown
    <3>2. DOMAIN ptr[a] = 0 .. NINDIRECT - 1 /\ P2[a] = [ptr[a] EXCEPT ![n - NDIRECT] = b]
      BY <1>7, <1>8, <2>3 DEF DiskOK
    <3>3. /\ \A x : x \in BlocksIn(P2, d) <=> x \in BlocksIn(ptr, d) \/ x = b
          /\ Filled(P2, d, n + 1)
      BY <1>1, <1>2, <1>4, <1>6, <2>3, <3>2, GrownIndirect, SMTT(30)
    <3>4. \A x : x \in X <=> x = b
      BY <1>3, <1>10, <3>1 DEF Taken
    <3> QED BY <3>1, <3>3, <3>4
  <2> QED BY <1>1, <1>2, <2>1, <2>2, <2>3
<1>12. \A x \in X : x \notin used
  BY <1>3, <1>4, <1>10 DEF Taken
<1>13. \A x : x \in U2 <=> x \in used \/ x \in X
  BY <1>10
<1>14. OwnedIn(U2, P2, D2)
  <2>1. \A j \in Inums : j # i => BlocksIn(P2, D2[j]) = BlocksIn(ptr, dinode[j])
    BY <1>9
  <2>2. \A x : x \in BlocksIn(P2, D2[i]) <=> x \in BlocksIn(ptr, dinode[i]) \/ x \in X
    BY <1>11
  <2>3. \A x, j : j \in Inums => (x \in BlocksIn(P2, D2[j]) <=> x \in BlocksIn(ptr, dinode[j]) \/ (j = i /\ x \in X))
    BY <2>1, <2>2
  <2>4. \A x : x \in U2 <=> \E j \in Inums : x \in BlocksIn(P2, D2[j])
    BY <1>13, <2>3 DEF OwnedIn
  <2>5. \A j, k \in Inums : \A x : j # k => ~(x \in BlocksIn(P2, D2[j]) /\ x \in BlocksIn(P2, D2[k]))
    BY <1>12, <2>3 DEF OwnedIn
  <2> QED BY <2>4, <2>5 DEF OwnedIn
<1>15. n + 1 \in 0 .. NDIRECT + NINDIRECT
  BY <1>1, <1>2
<1> QED BY <1>9, <1>11, <1>14, <1>15

----------------------------------------------------------------------------
(* Pointers and inodes *)

Points(p, s) == Own(cwd[p], ofile[p], loc[p], s) # 0

LEMMA PointsIs ==
    ASSUME NEW p, NEW s
    PROVE  Points(p, s) <=> \/ cwd[p] = s \/ ofile[p] = s \/ loc[p].ip = s \/ loc[p].dp = s
                            \/ Len(loc[p].puts) >= 1 /\ loc[p].puts[1] = s
                            \/ Len(loc[p].puts) >= 2 /\ loc[p].puts[2] = s
BY DEF Points, Own, One

LEMMA PointsRef ==
    ASSUME CacheInv, NEW p \in Procs, NEW s \in Slots, Points(p, s)
    PROVE  inode[s].ref > 0 /\ inode[s].inum \in Inums
<1>1. inode[s].ref > 0
  BY PtrRef DEF Points
<1> QED BY <1>1, Unpack DEF CacheOK

\* An inode with one pointer is led to by one process.
LEMMA TwoPoint ==
    ASSUME CacheInv, NEW p \in Procs, NEW q \in Procs, p # q, NEW s \in Slots, Points(p, s), Points(q, s)
    PROVE  inode[s].ref # 1
<1>1. loc \in [Procs -> Shaped]
  BY Unpack DEF ProcsOK, Shapes, Shaped
<1>2. PointersTo(s) = PtrsTo(cwd, ofile, loc, Procs, s) /\ IsFiniteSet(PointersTo(s))
  BY PointersSplit, Unpack DEF ProcsOK
<1>3. inode[s].ref = Cardinality(PointersTo(s))
  BY Unpack DEF Counted
<1>4. ASSUME NEW r \in Procs, Points(r, s) PROVE \E k \in 1 .. 6 : <<r, k>> \in PointersTo(s)
  <2>1. PICK f : f = PtrSeq(cwd[r], ofile[r], loc[r])
    OBVIOUS
  <2>2. Len(f) \in 4 .. 6 /\ Ones(f, s) = Own(cwd[r], ofile[r], loc[r], s)
    <3>1. Len(PtrSeq(cwd[r], ofile[r], loc[r])) \in 4 .. 6
      BY <1>1, PtrSeqs
    <3>2. Ones(PtrSeq(cwd[r], ofile[r], loc[r]), s) = Own(cwd[r], ofile[r], loc[r], s)
      BY <1>1, PtrSeqs, SMTT(30)
    <3> QED BY <2>1, <3>1, <3>2
  <2>3. Ones(f, s) # 0
    BY <1>4, <2>2 DEF Points
  <2>4. \E k \in 1 .. 6 : k <= Len(f) /\ f[k] = s
    BY <2>2, <2>3 DEF Ones, One
  <2>5. PICK F : F = [x \in Procs |-> PtrSeq(cwd[x], ofile[x], loc[x])]
    OBVIOUS
  <2>6. F[r] = f
    BY <2>1, <2>5
  <2>7. PtrsTo(cwd, ofile, loc, Procs, s) = To(F, Procs, s)
    BY <2>5 DEF PtrsTo
  <2>8. PICK k \in 1 .. 6 : k <= Len(f) /\ f[k] = s
    BY <2>4
  <2>9. <<r, k>> \in To(F, Procs, s)
    BY <2>6, <2>8 DEF To
  <2> QED BY <1>2, <2>7, <2>8, <2>9
<1>5. PICK j \in 1 .. 6, k \in 1 .. 6 : <<p, j>> \in PointersTo(s) /\ <<q, k>> \in PointersTo(s)
  BY <1>4
<1>6. SUFFICES ASSUME Cardinality(PointersTo(s)) = 1 PROVE FALSE
  BY <1>3
<1>7. PICK x : PointersTo(s) = {x}
  BY <1>2, <1>6, FS_Singleton
<1>8. <<p, j>> = <<q, k>>
  BY <1>5, <1>7
<1> QED BY <1>8

LEMMA LeadsPoints ==
    ASSUME NEW p, NEW s
    PROVE  /\ Leads(p, s) => Points(p, s)
           /\ Points(p, s) /\ loc[p].put # "drop" /\ loc[p].pc # "new" => Leads(p, s)
BY PointsIs DEF Leads

LEMMA FreeingIs ==
    ASSUME CacheInv, NEW p \in Procs, loc[p].put = "free"
    PROVE  /\ Head(loc[p].puts) \in Slots /\ Len(loc[p].puts) >= 1 /\ Head(loc[p].puts) = loc[p].puts[1]
           /\ Points(p, Head(loc[p].puts)) /\ Freeing(loc[p], Head(loc[p].puts))
           /\ Leads(p, Head(loc[p].puts))
           /\ lock[Head(loc[p].puts)] = p /\ inode[Head(loc[p].puts)].valid
<1>1. loc[p].puts # <<>> /\ loc[p].puts \in Seq(Slots)
  BY Unpack, LocType DEF Shape
<1>2. Len(loc[p].puts) \in Nat /\ Len(loc[p].puts) >= 1 /\ Head(loc[p].puts) = loc[p].puts[1]
      /\ Head(loc[p].puts) \in Slots
  BY <1>1
<1>3. PICK s : s = Head(loc[p].puts)
  OBVIOUS
<1>4. Leads(p, s)
  BY <1>2, <1>3 DEF Leads
<1>5. Points(p, s)
  BY <1>4, LeadsPoints
<1>6. lock[s] = p /\ inode[s].valid
  BY <1>2, <1>3, Unpack DEF Locked, Holds
<1> QED BY <1>2, <1>3, <1>4, <1>5, <1>6 DEF Freeing

LEMMA NewIs ==
    ASSUME CacheInv, NEW p \in Procs, loc[p].pc = "new"
    PROVE  /\ loc[p].ip \in Slots /\ Points(p, loc[p].ip) /\ New(loc[p], loc[p].ip)
           /\ loc[p].dp \in Slots /\ Leads(p, loc[p].dp) /\ loc[p].dp # 0
<1>1. loc[p].ip # 0 /\ loc[p].dp # 0
  BY Unpack, LocType DEF Shape, HasIp, HasDp
<1>2. loc[p].ip \in Slots /\ loc[p].dp \in Slots
  BY <1>1, Unpack, LocType
<1> QED BY <1>1, <1>2, PointsIs DEF New, Leads

\* No call but one of p is about to initialise inode j or to free it, or no
\* call at all, and the inode is allocated.
Clear(p, j) ==
    \A q \in Procs, s \in Slots : q # p /\ (New(loc[q], s) \/ Freeing(loc[q], s)) => inode[s].inum # j
Sound(j) ==
    /\ dinode[j].type # "none"
    /\ \A q \in Procs, s \in Slots : New(loc[q], s) \/ Freeing(loc[q], s) => inode[s].inum # j

LEMMA SameSlot ==
    ASSUME CacheInv, NEW s \in Slots, NEW t \in Slots, inode[s].ref > 0, inode[t].ref > 0,
           inode[s].inum = inode[t].inum
    PROVE  s = t
BY Unpack DEF CacheOK

\* What a pointer that will be used leads to.
LEMMA LeadsSound ==
    ASSUME CacheInv, ProcsInv, NEW p \in Procs, loc[p].put # "free", NEW s \in Slots, Leads(p, s)
    PROVE  Sound(inode[s].inum) /\ Solid(s) /\ inode[s].ref > 0 /\ inode[s].inum \in Inums
<1>1. Points(p, s) /\ inode[s].ref > 0 /\ inode[s].inum \in Inums
  BY LeadsPoints, PointsRef
<1>2. Solid(s)
  BY DEF ProcsInv, ProcInv
<1>3. ASSUME NEW q \in Procs, NEW t \in Slots, New(loc[q], t), inode[t].inum = inode[s].inum PROVE FALSE
  <2>1. loc[q].pc = "new" /\ loc[q].ip = t
    BY <1>3 DEF New
  <2>2. inode[t].ref > 0
    BY <2>1, NewIs, PointsRef
  <2>3. t = s
    BY <1>1, <1>3, <2>2, SameSlot
  <2> QED BY <1>2, <1>3, <2>3 DEF Solid
<1>4. ASSUME NEW q \in Procs, NEW t \in Slots, Freeing(loc[q], t), inode[t].inum = inode[s].inum PROVE FALSE
  <2>1. loc[q].put = "free" /\ t = Head(loc[q].puts)
    BY <1>4 DEF Freeing
  <2>2. Points(q, t) /\ inode[t].ref > 0
    BY <2>1, FreeingIs, PointsRef
  <2>3. t = s
    BY <1>1, <1>4, <2>2, SameSlot
  <2>4. inode[t].ref = 1
    BY <2>1 DEF ProcsInv, ProcInv
  <2>5. p # q
    BY <2>1
  <2> QED BY <1>1, <2>2, <2>3, <2>4, <2>5, TwoPoint
<1> QED BY <1>1, <1>2, <1>3, <1>4 DEF Sound, Solid, Ino

LEMMA SoundClear ==
    ASSUME NEW p, NEW j, Sound(j)
    PROVE  Clear(p, j)
BY DEF Sound, Clear

----------------------------------------------------------------------------
(* What a step of p leaves to the other processes *)

\* Only the pointers of p change, and a slot in use keeps its inode.
Steady(p) == \A q \in Procs : q # p => cwd'[q] = cwd[q] /\ ofile'[q] = ofile[q] /\ loc'[q] = loc[q]
Keeps == \A s \in Slots : inode[s].ref > 0 /\ inode'[s].ref > 0 => inode'[s].inum = inode[s].inum

LEMMA EntsIs ==
    ASSUME NEW j \in Inums, NEW n \in Names
    PROVE  /\ Ents[j][n] = IF dinode[j].type = "dir" THEN Lookup(dinode[j], n) ELSE 0
           /\ Ents'[j][n] = IF dinode'[j].type = "dir" THEN Lookup(dinode[j], n)' ELSE 0
BY DEF Ents

LEMMA PtrRefNext ==
    ASSUME CacheInv', NEW q \in Procs, NEW s \in Slots, Own(cwd'[q], ofile'[q], loc'[q], s) # 0
    PROVE  inode'[s].ref > 0
<1>1. loc' \in [Procs -> Shaped]
  BY DEF CacheInv, ProcsOK, Shapes, Shape, Shaped
<1>2. PointersTo(s)' = UNION {{<<r, k>> : k \in {j \in DOMAIN PtrSeq(cwd'[r], ofile'[r], loc'[r]) :
                                 PtrSeq(cwd'[r], ofile'[r], loc'[r])[j] = s}} : r \in Procs}
  BY DEF PointersTo, Pointers, PtrSeq
<1>3. PointersTo(s)' = PtrsTo(cwd', ofile', loc', Procs, s)
  BY <1>1, <1>2, PtrsUnion, Zenon
<1>4. IsFiniteSet(PtrsTo(cwd', ofile', loc', Procs \ {q}, s))
  BY <1>1, PtrsSplit
<1>5. Cardinality(PtrsTo(cwd', ofile', loc', Procs, s))
         = Cardinality(PtrsTo(cwd', ofile', loc', Procs \ {q}, s)) + Own(cwd'[q], ofile'[q], loc'[q], s)
  BY <1>1, PtrsSplit
<1>6. Cardinality(PtrsTo(cwd', ofile', loc', Procs \ {q}, s)) \in Nat
  BY <1>4, FS_CardinalityType
<1>7. Own(cwd'[q], ofile'[q], loc'[q], s) \in Nat
  BY OwnNat
<1>8. inode'[s].ref = Cardinality(PointersTo(s)')
  BY DEF CacheInv, Counted
<1>9. inode'[s].ref = Cardinality(PtrsTo(cwd', ofile', loc', Procs, s))
  BY <1>3, <1>8
<1> QED BY <1>5, <1>6, <1>7, <1>9

\* What another process leads to stays in use and keeps its inode.
LEMMA OtherSlot ==
    ASSUME CacheInv, CacheInv', NEW p \in Procs, Steady(p), Keeps, NEW q \in Procs, q # p,
           NEW s \in Slots, Points(q, s)
    PROVE  inode[s].ref > 0 /\ inode'[s].ref > 0 /\ inode'[s].inum = inode[s].inum /\ inode[s].inum \in Inums
<1>1. inode[s].ref > 0 /\ inode[s].inum \in Inums
  BY PointsRef
<1>2. cwd'[q] = cwd[q] /\ ofile'[q] = ofile[q] /\ loc'[q] = loc[q]
  BY DEF Steady
<1>3. Own(cwd'[q], ofile'[q], loc'[q], s) # 0
  BY <1>2 DEF Points
<1>4. inode'[s].ref > 0
  BY <1>3, PtrRefNext
<1> QED BY <1>1, <1>4 DEF Keeps

LEMMA OthersStep ==
    ASSUME CacheInv, CacheInv', ProcsInv, NEW p \in Procs, Steady(p), Keeps, NEW q \in Procs, q # p,
           \A j \in Inums : dinode'[j] # dinode[j] => Clear(p, j),
           \A s \in Slots : Leads(q, s) => dinode'[inode[s].inum].type = Ino(s).type,
           \A s \in Slots : New(loc'[p], s) => ~Leads(q, s) /\ ~New(loc[q], s),
           \A s \in Slots : inode'[s].ref > inode[s].ref => Clear(p, inode'[s].inum),
           loc[q].pc \in {"new", "remove"} =>
              Ents'[inode[loc[q].dp].inum][Head(loc[q].path)] = Ents[inode[loc[q].dp].inum][Head(loc[q].path)]
    PROVE  ProcInv(q)'
<1>1. cwd'[q] = cwd[q] /\ ofile'[q] = ofile[q] /\ loc'[q] = loc[q]
  BY DEF Steady
<1>2. ProcInv(q)
  BY DEF ProcsInv
<1>3. ASSUME NEW s \in Slots, Leads(q, s)
      PROVE  Solid(s)' /\ inode'[s].inum = inode[s].inum /\ dinode'[inode'[s].inum].type = Ino(s).type
  <2>1. Points(q, s)
    BY <1>3, LeadsPoints
  <2>2. inode'[s].inum = inode[s].inum
    BY <2>1, OtherSlot
  <2>3. Solid(s)
    BY <1>2, <1>3 DEF ProcInv
  <2>4. dinode'[inode'[s].inum].type = Ino(s).type /\ Ino(s).type # "none"
    BY <1>3, <2>2, <2>3 DEF Solid
  <2>5. ASSUME NEW r \in Procs PROVE ~New(loc'[r], s)
    <3>1. CASE r = p
      BY <1>3, <3>1
    <3>2. CASE r # p
      BY <2>3, <3>2 DEF Steady, Solid
    <3> QED BY <3>1, <3>2
  <2> QED BY <2>2, <2>4, <2>5 DEF Solid, Ino, New
<1>4. \A s \in Slots : Leads(q, s)' => Solid(s)'
  <2>1. \A s \in Slots : Leads(q, s)' <=> Leads(q, s)
    BY <1>1 DEF Leads
  <2> QED BY <1>3, <2>1
<1>5. loc'[q].pc = "new" => /\ Ino(loc[q].ip)' = Fresh(loc[q].call)
                            /\ \A r \in Procs : r # q => ~New(loc'[r], loc[q].ip)
  <2>1. SUFFICES ASSUME loc[q].pc = "new"
                 PROVE  /\ Ino(loc[q].ip)' = Fresh(loc[q].call)
                        /\ \A r \in Procs : r # q => ~New(loc'[r], loc[q].ip)
    BY <1>1
  <2>2. PICK s : s = loc[q].ip
    OBVIOUS
  <2>3. s \in Slots /\ Points(q, s) /\ New(loc[q], s)
    BY <2>1, <2>2, NewIs
  <2>4. inode'[s].inum = inode[s].inum /\ inode[s].inum \in Inums
    BY <2>3, OtherSlot
  <2>5. ~Clear(p, inode[s].inum)
    BY <2>3 DEF Clear
  <2>6. dinode'[inode[s].inum] = dinode[inode[s].inum]
    BY <2>4, <2>5
  <2>7. Ino(s) = Fresh(loc[q].call) /\ \A r \in Procs : r # q => ~New(loc[r], s)
    BY <1>2, <2>1, <2>2 DEF ProcInv
  <2>8. Ino(s)' = Fresh(loc[q].call)
    BY <2>4, <2>6, <2>7 DEF Ino
  <2>9. ASSUME NEW r \in Procs, r # q PROVE ~New(loc'[r], s)
    <3>1. CASE r = p
      BY <2>3, <3>1
    <3>2. CASE r # p
      BY <2>7, <2>9, <3>2 DEF Steady
    <3> QED BY <3>1, <3>2
  <2> QED BY <1>1, <2>2, <2>8, <2>9 DEF Ino
<1>6. loc'[q].put = "free" => /\ inode'[Head(loc[q].puts)].ref = 1
                              /\ Ino(Head(loc[q].puts))'.nlink = 0
  <2>1. SUFFICES ASSUME loc[q].put = "free"
                 PROVE  inode'[Head(loc[q].puts)].ref = 1 /\ Ino(Head(loc[q].puts))'.nlink = 0
    BY <1>1
  <2>2. PICK s : s = Head(loc[q].puts)
    OBVIOUS
  <2>3. s \in Slots /\ Points(q, s) /\ Freeing(loc[q], s)
    BY <2>1, <2>2, FreeingIs
  <2>4. inode'[s].inum = inode[s].inum /\ inode[s].inum \in Inums /\ inode'[s].ref > 0
    BY <2>3, OtherSlot
  <2>5. ~Clear(p, inode[s].inum)
    BY <2>3 DEF Clear
  <2>6. dinode'[inode[s].inum] = dinode[inode[s].inum]
    BY <2>4, <2>5
  <2>7. inode[s].ref = 1 /\ Ino(s).nlink = 0
    BY <1>2, <2>1, <2>2 DEF ProcInv
  <2>8. Ino(s)'.nlink = 0
    BY <2>4, <2>6, <2>7 DEF Ino
  <2>9. ~(inode'[s].ref > inode[s].ref)
    BY <2>3, <2>4, <2>5
  <2>10. inode'[s].ref \in Nat
    BY <2>3 DEF CacheInv, CacheOK, Slot
  <2>11. inode'[s].ref = 1
    BY <2>4, <2>7, <2>9, <2>10
  <2> QED BY <1>1, <2>2, <2>8, <2>11 DEF Ino
<1>7. loc[q].pc \in HasDp => loc[q].dp \in Slots /\ Leads(q, loc[q].dp)
  <2>1. loc[q].pc \in HasDp => loc[q].dp # 0
    BY Unpack, LocType DEF Shape
  <2> QED BY <2>1, Unpack, LocType DEF Leads
<1>8. loc[q].pc \in HasDp \ {"walk"} => Ino(loc[q].dp)'.type = "dir"
  BY <1>1, <1>2, <1>3, <1>7 DEF ProcInv, Ino
<1>9. loc[q].pc \in {"remove"} \/ loc[q].call = "linkto" => loc[q].ip \in Slots /\ Leads(q, loc[q].ip)
  <2>1. loc[q].pc \in {"remove"} \/ loc[q].call = "linkto" => loc[q].ip # 0 /\ loc[q].pc # "new"
    BY Unpack, LocType DEF Shape, HasIp, LinkPcs
  <2> QED BY <2>1, Unpack, LocType DEF Leads
<1>10. loc[q].call = "linkto" => Ino(loc[q].ip)'.type # "dir"
  BY <1>1, <1>2, <1>3, <1>9 DEF ProcInv, Ino
<1>11. loc[q].pc \in {"new", "remove"} => inode'[loc[q].dp].inum = inode[loc[q].dp].inum
  BY <1>3, <1>7 DEF HasDp
<1>12. loc[q].pc = "remove" => inode'[loc[q].ip].inum = inode[loc[q].ip].inum
  BY <1>3, <1>9
<1>13. loc[q].pc = "new" => Ents'[inode'[loc[q].dp].inum][Head(loc[q].path)] = 0
  BY <1>2, <1>11 DEF ProcInv
<1>14. loc[q].pc = "remove" => Ents'[inode'[loc[q].dp].inum][Head(loc[q].path)] = inode'[loc[q].ip].inum
  BY <1>2, <1>11, <1>12 DEF ProcInv
<1>15. loc[q].pc \in {"new", "remove"} => loc[q].puts = <<>> /\ Head(loc[q].path) \in Names
  BY <1>2 DEF ProcInv
<1> HIDE DEF Ents
<1> QED BY <1>1, <1>4, <1>5, <1>6, <1>8, <1>10, <1>13, <1>14, <1>15 DEF ProcInv, New

----------------------------------------------------------------------------
(* What the links of an inode say of it *)

LEMMA LinkedSound ==
    ASSUME CacheInv, ProcsInv, NEW i \in Inums, dinode[i].type # "none", dinode[i].nlink # 0
    PROVE  Sound(i)
<1>1. ASSUME NEW q \in Procs, NEW s \in Slots, New(loc[q], s) PROVE inode[s].inum # i
  <2>1. loc[q].pc = "new" /\ loc[q].ip = s
    BY <1>1 DEF New
  <2>2. Ino(s) = Fresh(loc[q].call)
    BY <2>1 DEF ProcsInv, ProcInv
  <2>3. Ino(s).nlink = 0
    BY <2>2, FreshIn
  <2> QED BY <2>3 DEF Ino
<1>2. ASSUME NEW q \in Procs, NEW s \in Slots, Freeing(loc[q], s) PROVE inode[s].inum # i
  <2>1. Ino(s).nlink = 0
    BY <1>2 DEF Freeing, ProcsInv, ProcInv
  <2> QED BY <2>1 DEF Ino
<1> QED BY <1>1, <1>2 DEF Sound

LEMMA LinkOwed ==
    ASSUME LinksInv, NEW i \in Inums
    PROVE  /\ dinode[i].type # "none" => Owed(Ents, Types, Pends, i) <= dinode[i].nlink
           /\ dinode[i].type = "none" => i # ROOTINO /\ NamesIn(Ents, i) = {}
<1>1. Types[i] = dinode[i].type /\ Nlinks[i] = dinode[i].nlink
  BY DEF Types, Nlinks
<1>2. PICK E, T, P, N : E = Ents /\ T = Types /\ P = Pends /\ N = Nlinks
  OBVIOUS
<1>3. LinkOK(E, T, P, N)
  BY <1>2 DEF LinksInv
<1> QED BY <1>1, <1>2, <1>3 DEF LinkOK

LEMMA RootSound ==
    ASSUME CacheInv, DiskInv
    PROVE  Sound(ROOTINO) /\ ROOTINO \in Inums
<1>1. ROOTINO \in Inums
  BY RootIn
<1>2. dinode[ROOTINO].type # "none" /\ Owed(Ents, Types, Pends, ROOTINO) <= dinode[ROOTINO].nlink
  BY <1>1, LinkOwed DEF DiskInv
<1>3. /\ Cardinality(NamesIn(Ents, ROOTINO)) \in Nat /\ Cardinality(PendIn(Pends, ROOTINO)) \in Nat
      /\ Cardinality(SubsIn(Ents, Types, ROOTINO)) \in Nat /\ RootLink(ROOTINO) = 1
  BY OwedFinite DEF RootLink
<1>4. dinode[ROOTINO].nlink \in Int
  BY <1>1, Unpack DEF DiskOK, DInode
<1>5. dinode[ROOTINO].nlink # 0
  BY <1>2, <1>3, <1>4 DEF Owed
<1> QED BY <1>1, <1>2, <1>5, LinkedSound DEF DiskInv

\* An inode that a name leads to is allocated and linked.
LEMMA NamedLinked ==
    ASSUME CacheInv, DiskInv, NEW j \in Inums, NEW n \in Names, NEW i \in Inums, Ents[j][n] = i
    PROVE  dinode[i].type # "none" /\ dinode[i].nlink >= 1 /\ dinode[i].nlink \in Int
<1>1. PICK x : x = <<j, n>>
  OBVIOUS
<1>2. x \in NamesIn(Ents, i)
  BY <1>1 DEF NamesIn
<1>3. dinode[i].type # "none" /\ Owed(Ents, Types, Pends, i) <= dinode[i].nlink
  BY <1>2, LinkOwed DEF DiskInv
<1>4. /\ IsFiniteSet(NamesIn(Ents, i)) /\ Cardinality(NamesIn(Ents, i)) \in Nat
      /\ Cardinality(PendIn(Pends, i)) \in Nat
      /\ Cardinality(SubsIn(Ents, Types, i)) \in Nat /\ RootLink(i) \in Nat
  BY OwedFinite
<1>5. Cardinality(NamesIn(Ents, i)) # 0
  BY <1>2, <1>4, FS_EmptySet
<1>6. dinode[i].nlink \in Int
  BY Unpack DEF DiskOK, DInode
<1> QED BY <1>3, <1>4, <1>5, <1>6 DEF Owed

\* A directory that has been initialised has its block, with "." in it.
LEMMA SoundDir ==
    ASSUME CacheInv, DiskInv, NEW j \in Inums, Sound(j), dinode[j].type = "dir"
    PROVE  dinode[j].addrs[0] # 0 /\ dirent[dinode[j].addrs[0]]["."] = j
<1>1. SUFFICES ASSUME dinode[j].addrs[0] = 0 PROVE FALSE
  BY DEF DiskInv, DirInv
<1>2. PICK p \in Procs : loc[p].pc = "new" /\ inode[loc[p].ip].inum = j
  BY <1>1 DEF DiskInv, DirInv
<1>3. loc[p].ip \in Slots /\ New(loc[p], loc[p].ip)
  BY <1>2, NewIs
<1> QED BY <1>2, <1>3 DEF Sound

\* The names of an inode are the entries that lead to it.
LEMMA NamesAre ==
    ASSUME NEW i \in Inums
    PROVE  NamesOf(i) = NamesIn(Ents, i)
<1>1. i # 0
  BY DEF Inums
<1>2. ASSUME NEW j \in Inums, NEW n \in Names
      PROVE  Ents[j][n] = i <=> j \in DirsOnDisk /\ dirent[dinode[j].addrs[0]][n] = i
  BY <1>1, EntsIs DEF DirsOnDisk, Lookup
<1>3. ASSUME NEW x PROVE x \in NamesOf(i) <=> x \in NamesIn(Ents, i)
  <2>1. DirsOnDisk \subseteq Inums
    BY DEF DirsOnDisk
  <2>2. ASSUME x \in NamesOf(i) PROVE x \in NamesIn(Ents, i)
    <3>1. PICK j \in DirsOnDisk, n \in Names : x = <<j, n>> /\ dirent[dinode[j].addrs[0]][n] = i
      BY <2>2 DEF NamesOf
    <3>2. j \in Inums /\ Ents[j][n] = i
      BY <1>2, <2>1, <3>1
    <3> QED BY <3>1, <3>2 DEF NamesIn
  <2>3. ASSUME x \in NamesIn(Ents, i) PROVE x \in NamesOf(i)
    <3>1. PICK j \in Inums, n \in Names : x = <<j, n>> /\ Ents[j][n] = i
      BY <2>3 DEF NamesIn
    <3>2. j \in DirsOnDisk /\ dirent[dinode[j].addrs[0]][n] = i
      BY <1>2, <3>1
    <3> QED BY <3>1, <3>2 DEF NamesOf
  <2> QED BY <2>2, <2>3
<1> QED BY <1>3

\* The directory that has the name of another one is linked.
LEMMA ParentLinked ==
    ASSUME CacheInv, DiskInv, NEW k \in Inums, NEW n \in Names, NEW j \in Inums, Ents[k][n] = j,
           dinode[j].type = "dir"
    PROVE  Up(j) = k /\ dinode[k].type # "none" /\ dinode[k].nlink # 0
<1>1. j # 0
  BY DEF Inums
<1>2. Up(j) = k
  BY <1>1 DEF DiskInv, UpInv
<1>3. dinode[k].type = "dir"
  BY <1>1, EntsIs
<1>4. Owed(Ents, Types, Pends, k) <= dinode[k].nlink
  BY <1>3, LinkOwed DEF DiskInv
<1>5. Types[j] = "dir"
  BY DEF Types
<1>6. n \in SubsIn(Ents, Types, k)
  BY <1>1, <1>5 DEF SubsIn
<1>7. /\ Cardinality(NamesIn(Ents, k)) \in Nat /\ Cardinality(PendIn(Pends, k)) \in Nat
      /\ IsFiniteSet(SubsIn(Ents, Types, k)) /\ Cardinality(SubsIn(Ents, Types, k)) \in Nat /\ RootLink(k) \in Nat
  BY OwedFinite
<1>8. Cardinality(SubsIn(Ents, Types, k)) # 0
  BY <1>6, <1>7, FS_EmptySet
<1>9. dinode[k].nlink \in Int
  BY Unpack DEF DiskOK, DInode
<1>10. dinode[k].nlink # 0
  BY <1>4, <1>7, <1>8, <1>9 DEF Owed
<1> QED BY <1>2, <1>3, <1>10

\* ".." leads to a linked inode, unless the directory and its parent have both
\* been removed.
LEMMA UpSound ==
    ASSUME CacheInv, DiskInv, NEW j \in Inums, dinode[j].type = "dir", NEW i \in Inums, i = Lookup(dinode[j], ".."),
           ~(NamesOf(j) = {} /\ dinode[i].nlink = 0)
    PROVE  Sound(i)
<1>1. CASE dinode[i].nlink # 0
  <2>1. dinode[i].type # "none"
    BY <1>1, NullIn DEF DiskInv, NullInv
  <2> QED BY <1>1, <2>1, LinkedSound DEF DiskInv
<1>2. CASE NamesOf(j) # {}
  <2>1. PICK k \in Inums, n \in Names : Ents[k][n] = j
    BY <1>2, NamesAre DEF NamesIn
  <2>2. Up(j) = k /\ dinode[k].type # "none" /\ dinode[k].nlink # 0
    BY <2>1, ParentLinked
  <2>3. Lookup(dinode[j], "..") = Up(j)
    <3>1. dinode[j].addrs[0] # 0
      BY DEF Lookup, Inums
    <3> QED BY <3>1 DEF Lookup, Up
  <2> QED BY <2>2, <2>3, LinkedSound DEF DiskInv
<1> QED BY <1>1, <1>2

\* What a lookup finds is allocated, and neither new nor about to be freed.
LEMMA FoundSound ==
    ASSUME CacheInv, DiskInv, NEW j \in Inums, Sound(j), dinode[j].type = "dir", NEW n \in Elems,
           NEW i, i = Lookup(dinode[j], n), i # 0,
           n = ".." => ~(NamesOf(j) = {} /\ dinode[i].nlink = 0)
    PROVE  Sound(i) /\ i \in Inums
<1>1. i \in Inums
  BY Unpack, LookupIn DEF DiskOK
<1>2. CASE n = "."
  <2>1. i = j
    BY <1>2, SoundDir DEF Lookup
  <2> QED BY <1>1, <2>1
<1>4. CASE n = ".."
  BY <1>1, <1>4, UpSound
<1>3. CASE n # "." /\ n # ".."
  <2>1. n \in Names
    BY <1>3 DEF Elems, Dots
  <2>2. Ents[j][n] = i
    BY <2>1, EntsIs
  <2>3. dinode[i].type # "none" /\ dinode[i].nlink # 0
    BY <1>1, <2>1, <2>2, NamedLinked
  <2> QED BY <1>1, <2>3, LinkedSound DEF DiskInv
<1> QED BY <1>2, <1>3, <1>4

\* A name that is not found is one that can be entered.
LEMMA MissingName ==
    ASSUME CacheInv, DiskInv, NEW j \in Inums, Sound(j), dinode[j].type = "dir", NEW n \in Elems,
           Lookup(dinode[j], n) = 0
    PROVE  n \in Names /\ Ents[j][n] = 0 /\ dinode[j].addrs[0] # 0
<1>1. dinode[j].addrs[0] # 0 /\ dirent[dinode[j].addrs[0]]["."] = j /\ j # 0
  BY SoundDir DEF Inums
<1>2. n # "." /\ n # ".."
  BY <1>1 DEF Lookup, DiskInv, UpInv, Up
<1>3. n \in Names
  BY <1>2 DEF Elems, Dots
<1> QED BY <1>1, <1>3, EntsIs

----------------------------------------------------------------------------
(* What a step of p leaves to p *)

\* The locals of p after a step that allocates no inode.
Fits(p) ==
    /\ loc'[p].pc # "new"
    /\ loc'[p].put = "free" => /\ inode'[Head(loc'[p].puts)].ref = 1
                               /\ dinode'[inode'[Head(loc'[p].puts)].inum].nlink = 0
    /\ loc'[p].pc \in HasDp \ {"walk"} => dinode'[inode'[loc'[p].dp].inum].type = "dir"
    /\ loc'[p].call = "linkto" => dinode'[inode'[loc'[p].ip].inum].type # "dir"
    /\ loc'[p].pc = "remove" =>
          /\ loc'[p].puts = <<>> /\ Head(loc'[p].path) \in Names
          /\ Ents'[inode'[loc'[p].dp].inum][Head(loc'[p].path)] = inode'[loc'[p].ip].inum

\* The entries that other processes are about to change.
NamesKept(p) ==
    \A q \in Procs : q # p /\ loc[q].pc \in {"new", "remove"} =>
        Ents'[inode[loc[q].dp].inum][Head(loc[q].path)] = Ents[inode[loc[q].dp].inum][Head(loc[q].path)]

\* What the step adds a pointer to.
Gains(p) == \A s \in Slots : inode'[s].ref > inode[s].ref => Sound(inode'[s].inum)

LEMMA SelfLeads ==
    ASSUME CacheInv, CacheInv', ProcsInv, NEW p \in Procs, Steady(p), Keeps, Gains(p),
           loc[p].put = "test", loc[p].pc # "new", loc'[p].pc # "new",
           \A j \in Inums : dinode'[j].type = dinode[j].type,
           NEW s \in Slots, Leads(p, s)'
    PROVE  Solid(s)'
<1>1. Own(cwd'[p], ofile'[p], loc'[p], s) # 0
  BY DEF Leads, Own, One
<1>2. inode'[s].ref > 0
  BY <1>1, PtrRefNext
<1>3. inode'[s].ref = inode[s].ref - Own(cwd[p], ofile[p], loc[p], s) + Own(cwd'[p], ofile'[p], loc'[p], s)
  <2>1. \A q \in Procs \ {p} : cwd'[q] = cwd[q] /\ ofile'[q] = ofile[q] /\ loc'[q] = loc[q]
    BY DEF Steady
  <2>2. loc \in [Procs -> Locals] /\ Shapes /\ loc' \in [Procs -> Locals] /\ Shapes'
    BY DEF CacheInv, ProcsOK
  <2>3. inode'[s].ref = Cardinality(PointersTo(s)') /\ inode[s].ref = Cardinality(PointersTo(s))
    BY DEF CacheInv, Counted
  <2>4. Cardinality(PointersTo(s)') = Cardinality(PointersTo(s))
                  - Own(cwd[p], ofile[p], loc[p], s) + Own(cwd'[p], ofile'[p], loc'[p], s)
    BY <2>1, <2>2, RefsMove
  <2> QED BY <2>3, <2>4
<1>4. inode[s].ref \in Nat /\ Own(cwd[p], ofile[p], loc[p], s) \in Nat /\ Own(cwd'[p], ofile'[p], loc'[p], s) \in Nat
  BY Unpack, OwnNat
<1>5. CASE inode'[s].ref > inode[s].ref
  <2>1. Sound(inode'[s].inum) /\ inode'[s].inum \in Inums
    BY <1>2, <1>5 DEF Gains, CacheInv, CacheOK
  <2>2. dinode'[inode'[s].inum].type # "none"
    BY <2>1 DEF Sound
  <2>3. ASSUME NEW q \in Procs, New(loc'[q], s) PROVE FALSE
    <3>1. q # p
      BY <2>3 DEF New
    <3>2. New(loc[q], s)
      BY <2>3, <3>1 DEF Steady
    <3>3. Points(q, s)
      BY <3>2, NewIs DEF New
    <3>4. inode'[s].inum = inode[s].inum
      BY <3>1, <3>3, OtherSlot
    <3> QED BY <2>1, <3>2, <3>4 DEF Sound
  <2> QED BY <2>2, <2>3 DEF Solid, Ino, New
<1>6. CASE ~(inode'[s].ref > inode[s].ref)
  <2>1. Points(p, s)
    BY <1>1, <1>3, <1>4, <1>6 DEF Points
  <2>2. Leads(p, s)
    BY <2>1, LeadsPoints
  <2>3. Solid(s) /\ inode[s].ref > 0 /\ inode[s].inum \in Inums
    BY <2>1, <2>2, PointsRef DEF ProcsInv, ProcInv
  <2>4. inode'[s].inum = inode[s].inum
    BY <1>2, <2>3 DEF Keeps
  <2>5. dinode'[inode'[s].inum].type # "none"
    BY <2>3, <2>4 DEF Solid, Ino
  <2>6. ASSUME NEW q \in Procs, New(loc'[q], s) PROVE FALSE
    <3>1. q # p
      BY <2>6 DEF New
    <3> QED BY <2>3, <2>6, <3>1 DEF Steady, Solid
  <2> QED BY <2>5, <2>6 DEF Solid, Ino, New
<1> QED BY <1>5, <1>6

LEMMA SelfFits ==
    ASSUME NEW p \in Procs, Fits(p), \A s \in Slots : Leads(p, s)' => Solid(s)'
    PROVE  ProcInv(p)'
<1> HIDE DEF Ents
<1> QED BY DEF Fits, ProcInv, Ino

LEMMA SoundGains ==
    ASSUME NEW p \in Procs, Gains(p), NEW s \in Slots, inode'[s].ref > inode[s].ref
    PROVE  Clear(p, inode'[s].inum)
<1>1. PICK j : j = inode'[s].inum
  OBVIOUS
<1>2. Sound(j)
  BY <1>1 DEF Gains
<1> QED BY <1>1, <1>2, SoundClear

\* A step that changes no type.
LEMMA ProcsStep ==
    ASSUME CacheInv, CacheInv', ProcsInv, NEW p \in Procs, Steady(p), Keeps, Gains(p), Fits(p), NamesKept(p),
           loc[p].put = "test", loc[p].pc # "new",
           \A j \in Inums : dinode'[j].type = dinode[j].type,
           \A j \in Inums : dinode'[j] # dinode[j] => Clear(p, j)
    PROVE  ProcsInv'
<1>1. loc'[p].pc # "new"
  BY DEF Fits
<1>2. ProcInv(p)'
  <2>1. \A s \in Slots : Leads(p, s)' => Solid(s)'
    BY <1>1, SelfLeads
  <2> QED BY <2>1, SelfFits
<1>3. ASSUME NEW q \in Procs, q # p PROVE ProcInv(q)'
  <2>1. \A s \in Slots : inode'[s].ref > inode[s].ref => Clear(p, inode'[s].inum)
    BY SoundGains
  <2>2. ASSUME NEW s \in Slots, Leads(q, s) PROVE dinode'[inode[s].inum].type = Ino(s).type
    <3>1. inode[s].inum \in Inums
      BY <2>2, LeadsPoints, PointsRef
    <3> QED BY <3>1 DEF Ino
  <2>3. \A s \in Slots : New(loc'[p], s) => ~Leads(q, s) /\ ~New(loc[q], s)
    BY <1>1 DEF New
  <2>4. loc[q].pc \in {"new", "remove"} =>
              Ents'[inode[loc[q].dp].inum][Head(loc[q].path)] = Ents[inode[loc[q].dp].inum][Head(loc[q].path)]
    BY <1>3 DEF NamesKept
  <2> QED BY <1>3, <2>1, <2>2, <2>3, <2>4, OthersStep
<1> QED BY <1>2, <1>3 DEF ProcsInv

\* The names that p changes are in a directory that no other process has locked.
LEMMA NamesLocked ==
    ASSUME CacheInv, ProcsInv, NEW p \in Procs, NEW t \in Slots, inode[t].ref > 0, lock[t] \in {p, NoProc},
           NEW d, d = inode[t].inum, NEW n, NEW v, Changes(Ents, Ents', d, n, v)
    PROVE  NamesKept(p)
<1>1. SUFFICES ASSUME NEW q \in Procs, q # p, loc[q].pc \in {"new", "remove"}
               PROVE  Ents'[inode[loc[q].dp].inum][Head(loc[q].path)] = Ents[inode[loc[q].dp].inum][Head(loc[q].path)]
  BY DEF NamesKept
<1>2. loc[q].dp \in Slots /\ lock[loc[q].dp] = q /\ inode[loc[q].dp].ref > 0
  BY <1>1, HeldFacts DEF HeldDp
<1>3. Head(loc[q].path) \in Names
  BY <1>1 DEF ProcsInv, ProcInv
<1>4. inode[loc[q].dp].inum \in Inums
  BY <1>2, Unpack DEF CacheOK
<1>5. loc[q].dp # t
  BY <1>1, <1>2, FsAssumption
<1>6. inode[loc[q].dp].inum # d
  BY <1>2, <1>5, SameSlot
<1> QED BY <1>3, <1>4, <1>6 DEF Changes

LEMMA NamesSame ==
    ASSUME NEW p, Ents' = Ents
    PROVE  NamesKept(p)
BY DEF NamesKept

LEMMA PendsOthers ==
    ASSUME CacheInv, CacheInv', NEW p \in Procs, Steady(p), Keeps, NEW q \in Procs, q # p
    PROVE  Pends'[q] = Pends[q]
<1>1. loc'[q] = loc[q]
  BY DEF Steady
<1>2. CASE loc[q].call = "linkto" \/ loc[q].pc = "erased"
  <2>1. loc[q].ip # 0
    BY <1>2, Unpack, LocType DEF Shape, HasIp
  <2>2. loc[q].ip \in Slots /\ Points(q, loc[q].ip)
    BY <2>1, Unpack, LocType, PointsIs
  <2>3. inode'[loc[q].ip].inum = inode[loc[q].ip].inum
    BY <2>2, OtherSlot
  <2> QED BY <1>1, <2>3 DEF Pends
<1>3. CASE ~(loc[q].call = "linkto" \/ loc[q].pc = "erased")
  BY <1>1, <1>3 DEF Pends
<1> QED BY <1>2, <1>3

\* A new directory of another process stays one.
LEMMA NewKept ==
    ASSUME CacheInv, CacheInv', NEW p \in Procs, Steady(p), Keeps, NEW q \in Procs, q # p, loc[q].pc = "new"
    PROVE  loc'[q].pc = "new" /\ inode'[loc'[q].ip].inum = inode[loc[q].ip].inum
<1>1. loc'[q] = loc[q] /\ loc[q].ip \in Slots /\ Points(q, loc[q].ip)
  BY NewIs DEF Steady
<1> QED BY <1>1, OtherSlot

LEMMA UpSame ==
    ASSUME UpInv, Ents' = Ents, dinode' = dinode, dirent' = dirent
    PROVE  UpInv'
<1>1. PICK E : E = Ents
  OBVIOUS
<1>2. \A k \in Inums, n \in Names : E[k][n] # 0 /\ dinode[E[k][n]].type = "dir" => Up(E[k][n]) = k
  BY <1>1 DEF UpInv
<1>3. \A i : Up(i)' = Up(i)
  BY DEF Up
<1>4. \A k \in Inums, n \in Names : E[k][n] # 0 /\ dinode'[E[k][n]].type = "dir" => Up(E[k][n])' = k
  BY <1>2, <1>3
<1>5. \A i \in Inums : dinode'[i].type = "dir" /\ dinode'[i].addrs[0] # 0 => Up(i)' # 0
  BY <1>3 DEF UpInv
<1> QED BY <1>1, <1>4, <1>5 DEF UpInv, Up

\* A step that leaves the disk alone.
LEMMA QuietDisk ==
    ASSUME CacheInv, CacheInv', DiskInv, ProcsInv', NEW p \in Procs, Steady(p), Keeps, UNCHANGED disk, panic' = panic,
           loc[p].pc # "new",
           loc'[p].call = "linkto" <=> loc[p].call = "linkto", loc'[p].pc = "erased" <=> loc[p].pc = "erased",
           loc[p].call = "linkto" \/ loc[p].pc = "erased" => loc'[p].ip = loc[p].ip
    PROVE  DiskInv'
<1>0. dinode' = dinode /\ used' = used /\ dirent' = dirent /\ ptr' = ptr
  BY DEF disk
<1>1. NullInv' /\ FilledInv' /\ OneOwner'
  <2>1. NullInv' /\ FilledInv'
    BY <1>0 DEF DiskInv, NullInv, FilledInv
  <2>2. OwnedIn(used', ptr', dinode')
    BY <1>0, Unpack, OwnedIs DEF DiskInv
  <2>3. OneOwner'
    BY <2>2, OwnedNext DEF CacheInv
  <2> QED BY <2>1, <2>3
<1>2. DirInv'
  <2>1. SUFFICES ASSUME NEW i \in Inums, dinode[i].type = "dir", dinode[i].addrs[0] = 0
                 PROVE  \E q \in Procs : loc'[q].pc = "new" /\ inode'[loc'[q].ip].inum = i
    BY <1>0 DEF DiskInv, DirInv
  <2>2. PICK q \in Procs : loc[q].pc = "new" /\ inode[loc[q].ip].inum = i
    BY <2>1 DEF DiskInv, DirInv
  <2>3. q # p
    BY <2>2
  <2> QED BY <2>2, <2>3, NewKept
<1>3. Pends' = Pends
  <2>1. ASSUME NEW q \in Procs PROVE Pends'[q] = Pends[q]
    <3>1. CASE q # p
      BY <3>1, PendsOthers
    <3>2. CASE q = p
      <4>1. CASE loc[p].call = "linkto" \/ loc[p].pc = "erased"
        <5>1. loc[p].ip # 0
          BY <4>1, Unpack, LocType DEF Shape, HasIp
        <5>2. loc[p].ip \in Slots /\ inode[loc[p].ip].ref > 0
          BY <5>1, Unpack, LocType, PtrRefs
        <5>3. Own(cwd'[p], ofile'[p], loc'[p], loc[p].ip) # 0
          BY <4>1 DEF Own, One
        <5>4. inode'[loc[p].ip].ref > 0
          BY <5>2, <5>3, PtrRefNext
        <5>5. inode'[loc[p].ip].inum = inode[loc[p].ip].inum
          BY <5>2, <5>4 DEF Keeps
        <5> QED BY <3>2, <4>1, <5>5 DEF Pends
      <4>2. CASE ~(loc[p].call = "linkto" \/ loc[p].pc = "erased")
        BY <3>2, <4>2 DEF Pends
      <4> QED BY <4>1, <4>2
    <3> QED BY <3>1, <3>2
  <2> QED BY <2>1 DEF Pends
<1>4. Ents' = Ents /\ Types' = Types /\ Nlinks' = Nlinks
  BY <1>0 DEF Ents, Types, Nlinks, Lookup
<1>5. LinksInv'
  BY <1>3, <1>4 DEF DiskInv, LinksInv
<1>6. OnlyWhenFull'
  BY DEF DiskInv, OnlyWhenFull
<1>7. UpInv'
  BY <1>0, <1>4, UpSame DEF DiskInv
<1> QED BY <1>1, <1>2, <1>5, <1>6, <1>7 DEF DiskInv

LEMMA QuietNames ==
    ASSUME NEW p, UNCHANGED disk
    PROVE  NamesKept(p)
<1>1. Ents' = Ents
  BY DEF Ents, Lookup, disk
<1> QED BY <1>1, NamesSame

LEMMA QuietMove ==
    ASSUME CacheInv, CacheInv', DiskInv, NEW p \in Procs, Steady(p), Keeps, Gains(p), Fits(p), UNCHANGED disk,
           panic' = panic, loc[p].put = "test", loc[p].pc # "new",
           loc'[p].call = "linkto" <=> loc[p].call = "linkto", loc'[p].pc = "erased" <=> loc[p].pc = "erased",
           loc[p].call = "linkto" \/ loc[p].pc = "erased" => loc'[p].ip = loc[p].ip
    PROVE  DiskInv'
<1>1. dinode' = dinode
  BY DEF disk
<1>2. NamesKept(p)
  BY QuietNames
<1>3. \A j \in Inums : dinode'[j] # dinode[j] => Clear(p, j)
  BY <1>1
<1>4. \A j \in Inums : dinode'[j].type = dinode[j].type
  BY <1>1
<1>5. ProcsInv /\ ProcsInv'
  <2>1. ProcsInv
    BY DEF DiskInv
  <2> QED BY <1>2, <1>3, <1>4, <2>1, ProcsStep
<1> QED BY <1>5, QuietDisk

----------------------------------------------------------------------------
(* The steps that leave the disk alone *)

LEMMA SteadyStep ==
    ASSUME CacheInv, NEW p \in Procs, cwd' = [cwd EXCEPT ![p] = cwd'[p]], ofile' = [ofile EXCEPT ![p] = ofile'[p]],
           loc' = [loc EXCEPT ![p] = loc'[p]]
    PROVE  Steady(p)
BY Unpack DEF ProcsOK, Steady

LEMMA SteadyLoc ==
    ASSUME CacheInv, NEW p \in Procs, cwd' = cwd, ofile' = ofile, NEW m, loc' = [loc EXCEPT ![p] = m]
    PROVE  Steady(p) /\ loc'[p] = m
BY Unpack DEF ProcsOK, Steady

LEMMA SameKeeps ==
    ASSUME CacheInv, SameRefs(inode'), NEW p
    PROVE  Keeps /\ Gains(p)
<1>1. \A s \in Slots : inode[s].ref \in Nat
  BY Unpack
<1> QED BY <1>1 DEF SameRefs, Keeps, Gains

LEMMA GetKeeps ==
    ASSUME CacheInv, NEW D, NEW c, SameRefs(c), CacheOK(D, c), NEW i \in Inums, CanGet(i), Sound(i),
           inode' = Iget(c, i), NEW p
    PROVE  /\ Keeps /\ Gains(p) /\ inode'[IgetSlot(i)].inum = i
           /\ \A s \in Slots : inode[s].ref > 0 => inode'[s].inum = inode[s].inum
<1>1. /\ IgetSlot(i) \in Slots
      /\ inode'[IgetSlot(i)].inum = i
      /\ \A s \in Slots : inode'[s].ref = inode[s].ref + One(IgetSlot(i) = s)
      /\ \A s \in Slots : inode[s].ref > 0 => inode'[s].inum = c[s].inum
  BY GetOK
<1>2. \A s \in Slots : c[s].inum = inode[s].inum /\ inode[s].ref \in Nat
  BY Unpack DEF SameRefs
<1>3. \A s \in Slots : inode[s].ref > 0 => inode'[s].inum = inode[s].inum
  BY <1>1, <1>2
<1>4. ASSUME NEW s \in Slots, inode'[s].ref > inode[s].ref PROVE IgetSlot(i) = s
  BY <1>1, <1>2, <1>4 DEF One
<1> QED BY <1>1, <1>3, <1>4 DEF Keeps, Gains

LEMMA QuietEnd ==
    ASSUME CacheInv, CacheInv', DiskInv, NEW p \in Procs, Steady(p), Keeps, Gains(p), UNCHANGED disk,
           panic' = panic, loc[p].put = "test", loc[p].pc \notin {"new", "erased"}, loc[p].call # "linkto",
           loc'[p].pc = "idle", loc'[p].call = "none", loc'[p].put = "test", loc'[p].path = <<>>
    PROVE  DiskInv'
<1>2. Fits(p)
  BY DEF Fits, HasDp, Parent
<1> QED BY <1>2, QuietMove

\* What holds of a process that is about to lock a slot, and of the slot.
LEMMA AtSound ==
    ASSUME CacheInv, DiskInv, NEW p \in Procs, loc[p].puts = <<>>
    PROVE  /\ loc[p].put = "test"
           /\ Sound(inode[cwd[p]].inum)
           /\ loc[p].dp # 0 => Sound(inode[loc[p].dp].inum)
           /\ loc[p].ip # 0 /\ loc[p].pc # "new" => Sound(inode[loc[p].ip].inum)
<1>1. loc[p].put = "test"
  BY AtFacts
<1>2. \A s \in Slots : Leads(p, s) => Sound(inode[s].inum)
  BY <1>1, LeadsSound DEF DiskInv
<1>3. cwd[p] \in Slots /\ (loc[p].dp # 0 => loc[p].dp \in Slots) /\ (loc[p].ip # 0 => loc[p].ip \in Slots)
  BY Unpack, LocType
<1> QED BY <1>1, <1>2, <1>3 DEF Leads

LEMMA OpenDisk ==
    ASSUME CacheInv, CacheInv', DiskInv, NEW p \in Procs, Open(p)
    PROVE  DiskInv'
<1>1. PICK s : s = loc[p].ip
  OBVIOUS
<1>2. /\ loc[p].puts = <<>> /\ loc[p].pc \in {"open", "openr", "existing"} /\ Locks(s) /\ inode' = Load(s)
      /\ UNCHANGED disk /\ cwd' = cwd /\ panic' = panic
  BY <1>1 DEF Open, At
<1>3. \/ Opens(p, s)
      \/ ofile' = ofile /\ loc' = [loc EXCEPT ![p] = [Idle EXCEPT !.puts = <<s>>]]
  BY <1>1 DEF Open
<1>4. Shape(loc[p]) /\ s \in Slots /\ inode[s].ref > 0 /\ loc[p].put = "test"
  BY <1>1, <1>2, AtFacts, AtPtrs DEF HasIp
<1>5. /\ loc' = [loc EXCEPT ![p] = loc'[p]] /\ loc'[p].put = "test" /\ loc'[p].pc = "idle"
      /\ loc'[p].call = "none" /\ loc'[p].path = <<>> /\ ofile' = [ofile EXCEPT ![p] = ofile'[p]]
  BY <1>2, <1>3, <1>4, OpensOK
<1>6. Steady(p)
  BY <1>2, <1>5, Unpack, StillProcs, SteadyStep
<1>7. Keeps /\ Gains(p)
  BY <1>2, <1>4, LocksOK, SameKeeps
<1>8. loc[p].call # "linkto" /\ loc[p].pc \notin {"new", "erased"}
  BY <1>2, <1>4 DEF Shape, LinkPcs
<1> QED BY <1>2, <1>4, <1>5, <1>6, <1>7, <1>8, QuietEnd

LEMMA CreatedDisk ==
    ASSUME CacheInv, CacheInv', DiskInv, NEW p \in Procs, Created(p)
    PROVE  DiskInv'
<1>1. PICK s : s = loc[p].ip
  OBVIOUS
<1>2. /\ loc[p].puts = <<>> /\ loc[p].pc = "created" /\ inode' = inode
      /\ UNCHANGED disk /\ cwd' = cwd /\ panic' = panic
  BY <1>1 DEF Created, At
<1>3. \/ Opens(p, s)
      \/ ofile' = ofile /\ loc' = [loc EXCEPT ![p] = [Idle EXCEPT !.puts = <<s>>]]
  BY <1>1 DEF Created
<1>4. Shape(loc[p]) /\ s \in Slots /\ inode[s].ref > 0 /\ loc[p].put = "test"
  BY <1>1, <1>2, AtFacts, AtPtrs DEF HasIp
<1>5. /\ loc' = [loc EXCEPT ![p] = loc'[p]] /\ loc'[p].put = "test" /\ loc'[p].pc = "idle"
      /\ loc'[p].call = "none" /\ loc'[p].path = <<>> /\ ofile' = [ofile EXCEPT ![p] = ofile'[p]]
  BY <1>2, <1>3, <1>4, OpensOK
<1>6. Steady(p)
  BY <1>2, <1>5, Unpack, StillProcs, SteadyStep
<1>7. Keeps /\ Gains(p)
  BY <1>2, SameRefsSelf, SameKeeps
<1>8. loc[p].call # "linkto" /\ loc[p].pc \notin {"new", "erased"}
  BY <1>2, <1>4 DEF Shape, LinkPcs
<1> QED BY <1>2, <1>4, <1>5, <1>6, <1>7, <1>8, QuietEnd

LEMMA ChdirDisk ==
    ASSUME CacheInv, CacheInv', DiskInv, NEW p \in Procs, Chdir(p)
    PROVE  DiskInv'
<1>1. PICK s : s = loc[p].ip
  OBVIOUS
<1>2. /\ loc[p].puts = <<>> /\ loc[p].pc = "chdir" /\ Locks(s) /\ inode' = Load(s)
      /\ UNCHANGED disk /\ ofile' = ofile /\ panic' = panic
  BY <1>1 DEF Chdir, At
<1>3. PICK u, c : /\ c = IF Content(s).type = "dir" THEN s ELSE cwd[p]
                  /\ u = IF Content(s).type = "dir" THEN cwd[p] ELSE s
  OBVIOUS
<1>4. cwd' = [cwd EXCEPT ![p] = c] /\ loc' = [loc EXCEPT ![p] = [Idle EXCEPT !.puts = <<u>>]]
  BY <1>1, <1>3, Unpack DEF Chdir, ProcsOK
<1>5. Shape(loc[p]) /\ s \in Slots /\ inode[s].ref > 0 /\ loc[p].put = "test"
  BY <1>1, <1>2, AtFacts, AtPtrs DEF HasIp
<1>6. ProcsOK /\ u \in Slots
  BY <1>3, <1>5, Unpack, LocType
<1>7. PICK m : m = Gives(u)
  OBVIOUS
<1>8. m.put = "test" /\ m.pc = "idle" /\ m.call = "none" /\ m.path = <<>>
  BY <1>6, <1>7, GivesBack
<1>9. loc' = [loc EXCEPT ![p] = loc'[p]] /\ loc'[p] = m /\ cwd' = [cwd EXCEPT ![p] = cwd'[p]]
  BY <1>4, <1>6, <1>7 DEF ProcsOK, Gives
<1>10. Steady(p)
  BY <1>2, <1>6, <1>9, StillProcs, SteadyStep
<1>11. Keeps /\ Gains(p)
  BY <1>2, <1>5, LocksOK, SameKeeps
<1>12. loc[p].call # "linkto" /\ loc[p].pc \notin {"new", "erased"}
  BY <1>2, <1>5 DEF Shape, LinkPcs
<1> QED BY <1>2, <1>5, <1>8, <1>9, <1>10, <1>11, <1>12, QuietEnd

LEMMA CloseDisk ==
    ASSUME CacheInv, CacheInv', DiskInv, NEW p \in Procs, Close(p)
    PROVE  DiskInv'
<1>1. PICK s : s = ofile[p]
  OBVIOUS
<1>2. /\ loc[p] = Idle /\ s # 0 /\ ofile' = [ofile EXCEPT ![p] = 0] /\ loc' = [loc EXCEPT ![p].puts = <<s>>]
      /\ UNCHANGED disk /\ inode' = inode /\ cwd' = cwd /\ panic' = panic
  BY <1>1 DEF Close, Begins
<1>3. ProcsOK /\ s \in Slots
  BY <1>1, <1>2, Unpack, LocType
<1>4. PICK m : m = Gives(s)
  OBVIOUS
<1>5. m.put = "test" /\ m.pc = "idle" /\ m.call = "none" /\ m.path = <<>>
  BY <1>3, <1>4, GivesBack
<1>6. /\ loc' = [loc EXCEPT ![p] = loc'[p]] /\ loc'[p] = m
      /\ ofile' = [ofile EXCEPT ![p] = ofile'[p]]
  BY <1>2, <1>3, <1>4 DEF ProcsOK, Gives
<1>7. Steady(p)
  BY <1>2, <1>3, <1>6, StillProcs, SteadyStep
<1>8. Keeps /\ Gains(p)
  BY <1>2, SameRefsSelf, SameKeeps
<1>9. loc[p].call # "linkto" /\ loc[p].pc \notin {"new", "erased"} /\ loc[p].put = "test"
  BY <1>2, IdleFacts
<1> QED BY <1>2, <1>5, <1>6, <1>7, <1>8, <1>9, QuietEnd

LEMMA UnlinkBadDisk ==
    ASSUME CacheInv, CacheInv', DiskInv, NEW p \in Procs, UnlinkBad(p)
    PROVE  DiskInv'
<1>1. PICK s : s = loc[p].dp
  OBVIOUS
<1>2. /\ loc[p].puts = <<>> /\ loc[p].pc = "unlinkbad" /\ inode' = inode
      /\ UNCHANGED disk /\ cwd' = cwd /\ ofile' = ofile /\ panic' = panic
      /\ loc' = [loc EXCEPT ![p] = Gives(s)]
  BY <1>1 DEF UnlinkBad, At, Gives
<1>3. Shape(loc[p]) /\ s \in Slots /\ inode[s].ref > 0 /\ loc[p].put = "test"
  BY <1>1, <1>2, AtFacts, AtPtrs DEF HasDp
<1>4. PICK m : m = Gives(s)
  OBVIOUS
<1>5. m.put = "test" /\ m.pc = "idle" /\ m.call = "none" /\ m.path = <<>>
  BY <1>3, <1>4, GivesBack
<1>6. Steady(p) /\ loc'[p] = m
  BY <1>2, <1>4, SteadyLoc
<1>7. Keeps /\ Gains(p)
  BY <1>2, SameRefsSelf, SameKeeps
<1>8. loc[p].call # "linkto" /\ loc[p].pc \notin {"new", "erased"}
  BY <1>2, <1>3 DEF Shape, LinkPcs
<1> QED BY <1>2, <1>3, <1>5, <1>6, <1>7, <1>8, QuietEnd

LEMMA StartKeeps ==
    ASSUME CacheInv, DiskInv, NEW D, NEW c, SameRefs(c), CacheOK(D, c), NEW p \in Procs, loc[p].puts = <<>>,
           NEW q, q.abs \in BOOLEAN, q.abs => CanGet(ROOTINO), inode' = StartGet(p, c, q)
    PROVE  /\ Keeps /\ Gains(p)
           /\ \A s \in Slots : inode[s].ref > 0 => inode'[s].inum = inode[s].inum
<1>1. CASE q.abs
  <2>1. inode' = Iget(c, ROOTINO)
    BY <1>1 DEF StartGet
  <2>2. ROOTINO \in Inums /\ Sound(ROOTINO)
    BY RootSound
  <2> QED BY <1>1, <2>1, <2>2, GetKeeps
<1>2. CASE ~q.abs
  <2>1. cwd[p] \in Slots /\ inode[cwd[p]].ref > 0
    BY Unpack, LocType, PtrRefs
  <2>2. \A s \in Slots : c[s].inum = inode[s].inum /\ c[s].ref = inode[s].ref /\ inode[s].ref \in Nat
    BY Unpack DEF SameRefs
  <2>3. PICK s : s = cwd[p]
    OBVIOUS
  <2>4. inode' = Dupped(c, s)
    BY <1>2, <2>3 DEF StartGet, Dupped
  <2>5. \A t \in Slots : inode'[t].ref = c[t].ref + (IF t = s THEN 1 ELSE 0) /\ inode'[t].inum = c[t].inum
    <3>1. s \in Slots /\ c[s].ref > 0
      BY <2>1, <2>2, <2>3
    <3> QED BY <2>4, <3>1, DupOK
  <2>6. \A t \in Slots : inode[t].ref > 0 => inode'[t].inum = inode[t].inum
    BY <2>2, <2>5
  <2>7. ASSUME NEW t \in Slots, inode'[t].ref > inode[t].ref PROVE Sound(inode'[t].inum)
    <3>1. t = s
      BY <2>2, <2>5, <2>7
    <3>2. Sound(inode[cwd[p]].inum)
      BY AtSound
    <3> QED BY <2>1, <2>3, <2>6, <3>1, <3>2
  <2> QED BY <2>6, <2>7 DEF Keeps, Gains
<1> QED BY <1>1, <1>2

LEMMA ArriveFits ==
    ASSUME NEW l \in Locals, l.ip # 0 <=> l.call = "linkto", l.call # "none",
           l.put = "test", l.puts = <<>>,
           NEW s \in Slots, NEW q \in Seq(Elems), NEW m, m = Arrive(l, s, q)
    PROVE  /\ m.put = "test" /\ m.pc \notin {"new", "remove", "erased"}
           /\ m.pc \notin HasDp \ {"walk"}
           /\ m.call = "linkto" <=> l.call = "linkto"
           /\ l.call = "linkto" => m.ip = l.ip
<1>1. /\ m.put = "test"
      /\ \/ q = <<>> /\ l.call \in Parent /\ m = Failed(l, s)
         \/ /\ q = <<>> /\ l.call \notin Parent
            /\ m.ip = s /\ m.dp = 0 /\ m.puts = <<>> /\ m.pc = l.call /\ m.call = l.call
            /\ l.ip = 0 /\ m.path = <<>>
         \/ /\ q # <<>>
            /\ m.ip = l.ip /\ m.dp = s /\ m.puts = <<>> /\ m.pc = "walk" /\ m.call = l.call
            /\ m.path = q
  BY ArriveOK
<1>2. CASE m = Failed(l, s)
  <2>1. /\ m.ip = l.ip /\ m.path = <<>> /\ (m.call = "linkto" <=> l.call = "linkto")
        /\ m.pc \in {"idle", "unlinked"}
    BY <1>2, FailedOK
  <2> QED BY <1>1, <2>1 DEF HasDp, Parent
<1>3. CASE l.call \notin Parent /\ m.pc = l.call /\ m.call = l.call /\ l.ip = 0 /\ m.path = <<>>
  <2>1. l.call \in PathCalls \cup {"linkto"}
    BY DEF Locals
  <2> QED BY <1>1, <1>3, <2>1 DEF HasDp, Parent, PathCalls
<1>4. CASE m.ip = l.ip /\ m.pc = "walk" /\ m.call = l.call /\ m.path = q
  BY <1>1, <1>4
<1> QED BY <1>1, <1>2, <1>3, <1>4

LEMMA CallDisk ==
    ASSUME CacheInv, CacheInv', DiskInv, NEW p \in Procs, Call(p)
    PROVE  DiskInv'
<1>1. PICK r \in Requests :
          /\ r.path.abs => CanGet(ROOTINO)
          /\ inode' = StartGet(p, inode, r.path)
          /\ loc' = [loc EXCEPT ![p] = Arrive([Idle EXCEPT !.call = r.call, !.new = r.new],
                                              StartSlot(p, r.path), r.path.elems)]
  BY DEF Call
<1>2. loc[p] = Idle /\ UNCHANGED disk /\ cwd' = cwd /\ ofile' = ofile /\ panic' = panic
  BY DEF Call, Begins
<1>3. r.call \in PathCalls /\ r.path.abs \in BOOLEAN /\ r.path.elems \in Seq(Elems)
  BY FsAssumption DEF Elems
<1>4. PICK l, q, s : /\ l = [Idle EXCEPT !.call = r.call, !.new = r.new] /\ q = r.path.elems
                     /\ s = StartSlot(p, r.path)
  OBVIOUS
<1>17. PICK e, n : e = <<>> /\ n = r.new
  OBVIOUS
<1>5. l = [pc |-> "idle", call |-> r.call, path |-> e, new |-> n,
           ip |-> 0, dp |-> 0, puts |-> e, put |-> "test"]
  BY <1>4, <1>17 DEF Idle
<1>6. l.call = r.call /\ l.ip = 0 /\ l.dp = 0 /\ l.puts = <<>> /\ l.put = "test" /\ l.new = n
  BY <1>5, <1>17
<1>7. l \in Locals
  <2>1. e \in Seq(Elems) /\ e \in Seq(Slots) /\ n \in News /\ 0 \in 0 .. NINODE /\ "idle" \in Pcs
    BY <1>17, FsAssumption DEF News, Pcs
  <2> QED BY <1>3, <1>5, <2>1 DEF Locals
<1>8. l.call # "none" /\ l.call # "linkto" /\ (l.ip # 0 <=> l.call = "linkto")
  BY <1>3, <1>6 DEF PathCalls
<1>9. q \in Seq(Elems)
  BY <1>3, <1>4
<1>10. SameRefs(inode) /\ CacheOK(dinode, inode)
  BY SameRefsSelf
<1>11. /\ loc[p].puts = <<>> /\ loc[p].put = "test" /\ loc[p].call = "none" /\ loc[p].pc = "idle"
  BY <1>2, IdleFacts
<1>12. Keeps /\ Gains(p)
  BY <1>1, <1>3, <1>10, <1>11, StartKeeps
<1>13. s \in Slots
  BY <1>1, <1>3, <1>4, <1>10, StartOK
<1>14. PICK m : m = Arrive(l, s, q)
  OBVIOUS
<1>15. loc' = [loc EXCEPT ![p] = m]
  BY <1>1, <1>4, <1>14
<1>16. Steady(p) /\ loc'[p] = m
  BY <1>2, <1>15, SteadyLoc
<1>18. /\ m.put = "test" /\ m.pc \notin {"new", "remove", "erased"}
       /\ m.pc \notin HasDp \ {"walk"} /\ m.call # "linkto"
  BY <1>6, <1>7, <1>8, <1>9, <1>13, <1>14, ArriveFits
<1>19. Fits(p)
  BY <1>16, <1>18 DEF Fits
<1> QED BY <1>2, <1>11, <1>12, <1>16, <1>18, <1>19, QuietMove

LEMMA TailIn ==
    ASSUME NEW x \in Seq(Elems), x # <<>>
    PROVE  Head(x) \in Elems /\ Tail(x) \in Seq(Elems)
<1>1. Len(x) \in Nat /\ Len(x) >= 1 /\ Head(x) = x[1] /\ DOMAIN x = 1 .. Len(x)
  BY EmptySeq
<1> QED BY <1>1

\* What p finds under ".." when the lookup does not set orphan.
LEMMA NotStray ==
    ASSUME NEW p, ~Strays(p), panic = "none", loc[p].puts = <<>>, loc[p].pc \in {"walk", "linkto"} \cup Creates,
           loc[p].pc = "walk" => ~LastElem(p), NEW s, s = loc[p].dp, Locks(s), Content(s).type = "dir",
           NEW n, n = Head(loc[p].path), NEW i, i = Lookup(Content(s), n), i # 0
    PROVE  n = ".." => ~(NamesOf(inode[s].inum) = {} /\ dinode[i].nlink = 0)
BY DEF Strays, At

LEMMA WalkDisk ==
    ASSUME CacheInv, CacheInv', DiskInv, NEW p \in Procs, Walk(p), ~Strays(p)
    PROVE  DiskInv'
<1>1. PICK l, s : l = loc[p] /\ s = loc[p].dp
  OBVIOUS
<1>2. PICK i : i = Lookup(Content(s), Head(l.path))
  OBVIOUS
<1>3. /\ l.puts = <<>> /\ l.pc = "walk" /\ Locks(s) /\ panic = "none"
      /\ UNCHANGED disk /\ cwd' = cwd /\ ofile' = ofile /\ panic' = panic
  BY <1>1 DEF Walk, At
<1>4. \/ /\ LastElem(p) /\ Content(s).type = "dir"
         /\ inode' = Load(s)
         /\ loc' = [loc EXCEPT ![p].pc = loc[p].call]
      \/ /\ inode' = Load(s)
         /\ loc' = [loc EXCEPT ![p] = Failed(l, s)]
      \/ /\ Content(s).type = "dir" /\ ~LastElem(p) /\ i # 0 /\ CanGet(i)
         /\ inode' = Iget(Load(s), i)
         /\ loc' = [loc EXCEPT ![p] = [Arrive(l, IgetSlot(i), Tail(l.path)) EXCEPT !.puts = <<s>>]]
  BY <1>1, <1>2 DEF Walk
<1>5. /\ l \in Locals /\ Shape(l) /\ l.put = "test" /\ s \in Slots /\ inode[s].ref > 0 /\ s # 0 /\ l.dp = s
  BY <1>1, <1>3, AtFacts, AtPtrs DEF HasDp
<1>6. l.path # <<>> /\ l.call # "none" /\ (l.ip # 0 <=> l.call = "linkto") /\ l.path \in Seq(Elems)
  BY <1>3, <1>5 DEF Shape, HasIp, Locals
<1>7. loc \in [Procs -> Locals]
  BY Unpack DEF ProcsOK
<1>8. Sound(inode[s].inum)
  BY <1>1, <1>3, <1>5, AtSound
<1>9. Content(s) = dinode[inode[s].inum] /\ inode[s].inum \in Inums
      /\ CacheOK(dinode, Load(s)) /\ SameRefs(Load(s))
  BY <1>3, <1>5, LocksOK
<1>10. l.call = "linkto" => l.ip \in Slots /\ inode[l.ip].ref > 0 /\ Ino(l.ip).type # "dir"
  BY <1>1, <1>3, <1>6, AtFacts DEF DiskInv, ProcsInv, ProcInv
<1>11. CASE LastElem(p) /\ Content(s).type = "dir" /\ inode' = Load(s) /\ loc' = [loc EXCEPT ![p].pc = loc[p].call]
  <2>1. PICK m : m = [l EXCEPT !.pc = l.call]
    OBVIOUS
  <2>2. loc' = [loc EXCEPT ![p] = m]
    BY <1>1, <1>7, <1>11, <2>1
  <2>3. l.call \in Parent
    BY <1>1, <1>11 DEF LastElem
  <2>4. /\ m.pc = l.call /\ m.call = l.call /\ m.put = "test" /\ m.ip = l.ip /\ m.dp = s /\ m.path = l.path
    BY <1>3, <1>5, <2>1 DEF Locals
  <2>5. Steady(p) /\ loc'[p] = m
    BY <1>3, <2>2, SteadyLoc
  <2>6. Keeps /\ Gains(p)
    BY <1>9, <1>11, SameKeeps
  <2>7. dinode'[inode'[s].inum].type = "dir" /\ (l.call = "linkto" => dinode'[inode'[l.ip].inum].type # "dir")
    BY <1>3, <1>5, <1>9, <1>10, <1>11 DEF SameRefs, disk, Ino
  <2>8. m.pc \notin {"new", "remove", "erased"}
    BY <2>3, <2>4 DEF Parent
  <2>9. Fits(p)
    BY <1>8, <2>4, <2>5, <2>7, <2>8 DEF Fits
  <2> QED BY <1>1, <1>3, <1>5, <2>4, <2>5, <2>6, <2>8, <2>9, QuietMove
<1>12. CASE inode' = Load(s) /\ loc' = [loc EXCEPT ![p] = Failed(l, s)]
  <2>1. PICK m : m = Failed(l, s)
    OBVIOUS
  <2>2. /\ m.put = "test" /\ m.ip = l.ip /\ m.path = <<>> /\ (m.call = "linkto" <=> l.call = "linkto")
        /\ m.pc \in {"idle", "unlinked"}
    BY <1>5, <1>6, <2>1, FailedOK
  <2>3. Steady(p) /\ loc'[p] = m
    BY <1>3, <1>12, <2>1, SteadyLoc
  <2>4. Keeps /\ Gains(p)
    BY <1>9, <1>12, SameKeeps
  <2>5. l.call = "linkto" => dinode'[inode'[l.ip].inum].type # "dir"
    BY <1>3, <1>9, <1>10, <1>12 DEF SameRefs, disk, Ino
  <2>6. Fits(p)
    BY <2>2, <2>3, <2>5 DEF Fits, HasDp, Parent
  <2> QED BY <1>1, <1>3, <1>5, <2>2, <2>3, <2>4, <2>6, QuietMove
<1>13. CASE /\ Content(s).type = "dir" /\ ~LastElem(p) /\ i # 0 /\ CanGet(i)
            /\ inode' = Iget(Load(s), i)
            /\ loc' = [loc EXCEPT ![p] = [Arrive(l, IgetSlot(i), Tail(l.path)) EXCEPT !.puts = <<s>>]]
  <2>1. PICK u, q, x : u = IgetSlot(i) /\ q = Tail(l.path) /\ x = <<s>>
    OBVIOUS
  <2>2. PICK a : a = Arrive(l, u, q)
    OBVIOUS
  <2>3. PICK m : m = [a EXCEPT !.puts = x]
    OBVIOUS
  <2>4. loc' = [loc EXCEPT ![p] = m]
    BY <1>13, <2>1, <2>2, <2>3
  <2>5. PICK n : n = Head(l.path)
    OBVIOUS
  <2>6. n \in Elems /\ q \in Seq(Elems)
    BY <1>6, <2>1, <2>5, TailIn
  <2>7. Sound(i) /\ i \in Inums
    <3>1. PICK j : j = inode[s].inum
      OBVIOUS
    <3>2. j \in Inums /\ Sound(j) /\ dinode[j].type = "dir" /\ i = Lookup(dinode[j], n)
      BY <1>2, <1>8, <1>9, <1>13, <2>5, <3>1
    <3>3. n = ".." => ~(NamesOf(j) = {} /\ dinode[i].nlink = 0)
      BY <1>1, <1>2, <1>3, <1>13, <2>5, <3>1, NotStray
    <3> QED BY <1>13, <2>6, <3>2, <3>3, FoundSound
  <2>8. u \in Slots
    BY <1>13, <2>1, <2>7, IgetSlotIs, Unpack
  <2>9. a \in Locals /\ Shape(a) /\ a.put = "test"
    BY <1>3, <1>5, <1>6, <2>2, <2>6, <2>8, ArriveOK
  <2>10. /\ a.pc \notin {"new", "remove", "erased"}
         /\ a.pc \notin HasDp \ {"walk"}
         /\ a.call = "linkto" <=> l.call = "linkto"
         /\ l.call = "linkto" => a.ip = l.ip
    BY <1>3, <1>5, <1>6, <2>2, <2>6, <2>8, ArriveFits
  <2>11. x \in Seq(Slots) /\ Len(x) <= 2
    BY <1>5, <2>1
  <2>12. /\ m.put = "test" /\ m.puts = x
         /\ m.pc = a.pc /\ m.call = a.call /\ m.path = a.path /\ m.ip = a.ip /\ m.dp = a.dp
    BY <2>3, <2>9, <2>11, WithPuts
  <2>13. Steady(p) /\ loc'[p] = m
    BY <1>3, <2>4, SteadyLoc
  <2>14. /\ Keeps /\ Gains(p)
         /\ \A t \in Slots : inode[t].ref > 0 => inode'[t].inum = inode[t].inum
    BY <1>9, <1>13, <2>7, GetKeeps
  <2>15. l.call = "linkto" => dinode'[inode'[l.ip].inum].type # "dir"
    BY <1>3, <1>10, <2>14 DEF disk, Ino
  <2>16. Fits(p)
    BY <2>10, <2>12, <2>13, <2>15 DEF Fits
  <2> QED BY <1>1, <1>3, <1>5, <2>10, <2>12, <2>13, <2>14, <2>16, QuietMove
<1> QED BY <1>4, <1>11, <1>12, <1>13

\* The directory that a call is about to lock, and the name it looks for there.
LEMMA DirSound ==
    ASSUME CacheInv, DiskInv, NEW p \in Procs, loc[p].puts = <<>>, loc[p].pc \in Parent, Locks(loc[p].dp),
           NEW j, j = inode[loc[p].dp].inum, NEW n, n = Head(loc[p].path),
           NEW i, i = Lookup(Content(loc[p].dp), n)
    PROVE  /\ loc[p].dp \in Slots /\ inode[loc[p].dp].ref > 0 /\ loc[p].call = loc[p].pc
           /\ j \in Inums /\ Sound(j) /\ dinode[j].type = "dir" /\ Content(loc[p].dp) = dinode[j]
           /\ n \in Elems /\ i = Lookup(dinode[j], n)
           /\ i # 0 /\ ~(n = ".." /\ NamesOf(j) = {} /\ dinode[i].nlink = 0) => Sound(i) /\ i \in Inums
           /\ i = 0 => n \in Names /\ Ents[j][n] = 0 /\ dinode[j].addrs[0] # 0
<1>1. /\ loc[p].dp \in Slots /\ inode[loc[p].dp].ref > 0 /\ loc[p].dp # 0
      /\ loc[p].call = loc[p].pc /\ Len(loc[p].path) = 1 /\ n \in Elems
      /\ loc[p].path \in Seq(Elems)
  BY DirLookup
<1>2. Content(loc[p].dp) = dinode[j] /\ j \in Inums
  BY <1>1, LocksOK
<1>3. Sound(j)
  BY <1>1, AtSound
<1>4. dinode[j].type = "dir"
  <2>1. loc[p].pc \in HasDp \ {"walk"}
    BY DEF HasDp, Parent
  <2> QED BY <2>1 DEF DiskInv, ProcsInv, ProcInv, Ino
<1>6. i = Lookup(dinode[j], n)
  BY <1>2
<1>7. i # 0 /\ ~(n = ".." /\ NamesOf(j) = {} /\ dinode[i].nlink = 0) => Sound(i) /\ i \in Inums
  BY <1>1, <1>2, <1>3, <1>4, <1>6, FoundSound, SMTT(30)
<1>8. i = 0 => n \in Names /\ Ents[j][n] = 0 /\ dinode[j].addrs[0] # 0
  BY <1>1, <1>2, <1>3, <1>4, <1>6, MissingName
<1> QED BY <1>1, <1>2, <1>3, <1>4, <1>6, <1>7, <1>8, Zenon

LEMMA CreateFoundDisk ==
    ASSUME CacheInv, CacheInv', DiskInv, NEW p \in Procs, CreateFound(p), ~Strays(p)
    PROVE  DiskInv'
<1>1. PICK l, s : l = loc[p] /\ s = loc[p].dp
  OBVIOUS
<1>2. PICK n, i, j : n = Head(l.path) /\ i = Lookup(Content(s), n) /\ j = inode[s].inum
  OBVIOUS
<1>3. /\ l.puts = <<>> /\ l.pc \in Creates /\ Locks(s) /\ i # 0 /\ CanGet(i) /\ panic = "none"
      /\ inode' = Iget(Load(s), i) /\ UNCHANGED disk /\ cwd' = cwd /\ ofile' = ofile /\ panic' = panic
  BY <1>1, <1>2 DEF CreateFound, At
<1>4. loc' = [loc EXCEPT ![p].pc = "existing", ![p].ip = IgetSlot(i), ![p].dp = 0, ![p].puts = <<s>>]
  BY <1>1, <1>2 DEF CreateFound
<1>5. s \in Slots /\ inode[s].ref > 0 /\ l.call = l.pc /\ Sound(i) /\ i \in Inums
  <2>1. l.pc \in Parent /\ l.pc # "walk"
    BY <1>3 DEF Creates, Parent
  <2>2. Content(s).type = "dir"
    BY <1>1, <1>2, <1>3, <2>1, DirSound
  <2>3. n = ".." => ~(NamesOf(j) = {} /\ dinode[i].nlink = 0)
    BY <1>1, <1>2, <1>3, <2>1, <2>2, NotStray
  <2> QED BY <1>1, <1>2, <1>3, <2>1, <2>3, DirSound
<1>6. l \in Locals /\ l.put = "test"
  BY <1>1, <1>3, AtFacts, AtSound
<1>7. PICK u, x : u = IgetSlot(i) /\ x = <<s>>
  OBVIOUS
<1>8. PICK m : m = [l EXCEPT !.pc = "existing", !.ip = u, !.dp = 0, !.puts = x]
  OBVIOUS
<1>9. loc' = [loc EXCEPT ![p] = m]
  BY <1>1, <1>4, <1>7, <1>8, Unpack DEF ProcsOK
<1>10. m.pc = "existing" /\ m.call = l.call /\ m.put = "test" /\ m.path = l.path
  BY <1>6, <1>8 DEF Locals
<1>11. Steady(p) /\ loc'[p] = m
  BY <1>3, <1>9, SteadyLoc
<1>12. Keeps /\ Gains(p)
  <2>1. CacheOK(dinode, Load(s)) /\ SameRefs(Load(s))
    BY <1>3, <1>5, LocksOK
  <2> QED BY <1>3, <1>5, <2>1, GetKeeps
<1>13. l.call # "linkto" /\ l.pc \notin {"new", "erased"}
  BY <1>3, <1>5 DEF Creates
<1>14. Fits(p)
  BY <1>6, <1>10, <1>11, <1>13 DEF Fits, HasDp, Parent
<1> QED BY <1>1, <1>3, <1>6, <1>10, <1>11, <1>12, <1>13, <1>14, QuietMove

LEMMA LinkExistsDisk ==
    ASSUME CacheInv, CacheInv', DiskInv, NEW p \in Procs, LinkExists(p), ~Strays(p)
    PROVE  DiskInv'
<1>1. PICK l, s : l = loc[p] /\ s = loc[p].dp
  OBVIOUS
<1>2. PICK n, i, j : n = Head(l.path) /\ i = Lookup(Content(s), n) /\ j = inode[s].inum
  OBVIOUS
<1>3. /\ l.puts = <<>> /\ l.pc = "linkto" /\ Locks(s) /\ i # 0 /\ CanGet(i) /\ panic = "none"
      /\ inode' = Iget(Load(s), i) /\ UNCHANGED disk /\ cwd' = cwd /\ ofile' = ofile /\ panic' = panic
  BY <1>1, <1>2 DEF LinkExists, At
<1>4. PICK u, x : u = IgetSlot(i) /\ x = <<u>>
  OBVIOUS
<1>5. loc' = [loc EXCEPT ![p].pc = "linkbad", ![p].puts = x]
  BY <1>1, <1>2, <1>4 DEF LinkExists
<1>6. /\ s \in Slots /\ inode[s].ref > 0 /\ l.call = l.pc /\ Sound(i) /\ i \in Inums
      /\ dinode[inode[s].inum].type = "dir"
  <2>1. l.pc \in Parent
    BY <1>3 DEF Parent
  <2>2. Content(s).type = "dir"
    BY <1>1, <1>2, <1>3, <2>1, DirSound
  <2>3. n = ".." => ~(NamesOf(j) = {} /\ dinode[i].nlink = 0)
    BY <1>1, <1>2, <1>3, <2>2, NotStray
  <2> QED BY <1>1, <1>2, <1>3, <2>1, <2>3, DirSound
<1>7. l \in Locals /\ Shape(l) /\ l.put = "test"
  BY <1>1, <1>3, AtFacts, AtSound
<1>8. PICK m : m = [l EXCEPT !.pc = "linkbad", !.puts = x]
  OBVIOUS
<1>9. loc' = [loc EXCEPT ![p] = m]
  BY <1>1, <1>5, <1>8, Unpack DEF ProcsOK
<1>10. m.pc = "linkbad" /\ m.call = l.call /\ m.put = "test" /\ m.path = l.path /\ m.ip = l.ip /\ m.dp = s
  BY <1>1, <1>7, <1>8 DEF Locals
<1>11. Steady(p) /\ loc'[p] = m
  BY <1>3, <1>9, SteadyLoc
<1>12. /\ Keeps /\ Gains(p)
       /\ \A t \in Slots : inode[t].ref > 0 => inode'[t].inum = inode[t].inum
  <2>1. CacheOK(dinode, Load(s)) /\ SameRefs(Load(s))
    BY <1>3, <1>6, LocksOK
  <2> QED BY <1>3, <1>6, <2>1, GetKeeps
<1>13. l.ip \in Slots /\ inode[l.ip].ref > 0 /\ dinode[inode[l.ip].inum].type # "dir"
  <2>1. l.ip # 0
    BY <1>3, <1>6, <1>7 DEF Shape
  <2>2. Ino(l.ip).type # "dir"
    BY <1>1, <1>3, <1>6 DEF DiskInv, ProcsInv, ProcInv
  <2> QED BY <1>1, <1>3, <2>1, <2>2, AtFacts DEF Ino
<1>14. dinode'[inode'[s].inum].type = "dir" /\ dinode'[inode'[l.ip].inum].type # "dir"
  BY <1>3, <1>6, <1>12, <1>13 DEF disk
<1>15. Fits(p)
  BY <1>7, <1>10, <1>11, <1>14 DEF Fits
<1> QED BY <1>1, <1>3, <1>7, <1>10, <1>11, <1>12, <1>15, QuietMove

LEMMA LinkBadDisk ==
    ASSUME CacheInv, CacheInv', DiskInv, NEW p \in Procs, LinkBad(p)
    PROVE  DiskInv'
<1>1. PICK l, x : l = loc[p] /\ x = <<loc[p].dp>>
  OBVIOUS
<1>2. /\ l.puts = <<>> /\ l.pc = "linkbad" /\ inode' = inode
      /\ UNCHANGED disk /\ cwd' = cwd /\ ofile' = ofile /\ panic' = panic
  BY <1>1 DEF LinkBad, At
<1>3. loc' = [loc EXCEPT ![p].pc = "unlinked", ![p].dp = 0, ![p].puts = x]
  BY <1>1 DEF LinkBad
<1>4. l \in Locals /\ Shape(l) /\ l.put = "test"
  BY <1>1, <1>2, AtFacts, AtSound
<1>5. l.call = "linkto"
  BY <1>2, <1>4 DEF Shape
<1>6. PICK m : m = [l EXCEPT !.pc = "unlinked", !.dp = 0, !.puts = x]
  OBVIOUS
<1>7. loc' = [loc EXCEPT ![p] = m]
  BY <1>1, <1>3, <1>6, Unpack DEF ProcsOK
<1>8. m.pc = "unlinked" /\ m.call = l.call /\ m.put = "test" /\ m.ip = l.ip /\ m.path = l.path
  BY <1>4, <1>6 DEF Locals
<1>9. Steady(p) /\ loc'[p] = m
  BY <1>2, <1>7, SteadyLoc
<1>10. Keeps /\ Gains(p)
  BY <1>2, SameRefsSelf, SameKeeps
<1>11. dinode'[inode'[l.ip].inum].type # "dir"
  BY <1>1, <1>2, <1>5 DEF DiskInv, ProcsInv, ProcInv, Ino, disk
<1>12. Fits(p)
  BY <1>4, <1>8, <1>9, <1>11 DEF Fits, HasDp, Parent
<1> QED BY <1>1, <1>2, <1>4, <1>8, <1>9, <1>10, <1>12, QuietMove

LEMMA UnlinkLookupDisk ==
    ASSUME CacheInv, CacheInv', DiskInv, NEW p \in Procs, UnlinkLookup(p)
    PROVE  DiskInv'
<1>1. PICK l, s : l = loc[p] /\ s = loc[p].dp
  OBVIOUS
<1>2. PICK n, i, j : n = Head(l.path) /\ i = Lookup(Content(s), n) /\ j = inode[s].inum
  OBVIOUS
<1>3. /\ l.puts = <<>> /\ l.pc = "unlink" /\ Locks(s)
      /\ UNCHANGED disk /\ cwd' = cwd /\ ofile' = ofile /\ panic' = panic
  BY <1>1 DEF UnlinkLookup, At
<1>4. \/ inode' = Load(s) /\ loc' = [loc EXCEPT ![p] = Gives(s)]
      \/ /\ n \notin Dots /\ i # 0 /\ CanGet(i) /\ inode' = Iget(Load(s), i)
         /\ loc' = [loc EXCEPT ![p].pc = "remove", ![p].ip = IgetSlot(i)]
  BY <1>1, <1>2 DEF UnlinkLookup, Gives
<1>5. /\ s \in Slots /\ inode[s].ref > 0 /\ l.call = l.pc /\ j \in Inums /\ dinode[j].type = "dir"
      /\ n \in Elems /\ i = Lookup(dinode[j], n) /\ (i # 0 /\ n \notin Dots => Sound(i) /\ i \in Inums)
  BY <1>1, <1>2, <1>3, DirSound DEF Parent, Dots
<1>6. CacheOK(dinode, Load(s)) /\ SameRefs(Load(s))
  BY <1>3, <1>5, LocksOK
<1>7. l.put = "test"
  BY <1>1, <1>3, AtSound
<1>8. l.call # "linkto" /\ l.pc \notin {"new", "erased"}
  BY <1>3, <1>5
<1>9. CASE inode' = Load(s) /\ loc' = [loc EXCEPT ![p] = Gives(s)]
  <2>1. PICK m : m = Gives(s)
    OBVIOUS
  <2>2. m.put = "test" /\ m.pc = "idle" /\ m.call = "none" /\ m.path = <<>>
    BY <1>5, <2>1, GivesBack
  <2>3. Steady(p) /\ loc'[p] = m
    BY <1>3, <1>9, <2>1, SteadyLoc
  <2>4. Keeps /\ Gains(p)
    BY <1>6, <1>9, SameKeeps
  <2> QED BY <1>1, <1>3, <1>7, <1>8, <2>2, <2>3, <2>4, QuietEnd
<1>10. CASE /\ n \notin Dots /\ i # 0 /\ CanGet(i) /\ inode' = Iget(Load(s), i)
            /\ loc' = [loc EXCEPT ![p].pc = "remove", ![p].ip = IgetSlot(i)]
  <2>1. PICK c \in {"remove", "new"} : c = "remove"
    OBVIOUS
  <2>2. PICK u : u = IgetSlot(i)
    OBVIOUS
  <2>3. PICK m : m = Takes(loc[p], c, u)
    OBVIOUS
  <2>4. loc' = [loc EXCEPT ![p] = m]
    BY <1>10, <2>1, <2>2, <2>3, Unpack DEF ProcsOK, Takes
  <2>5. u \in Slots
    BY <1>5, <1>10, <2>2, IgetIn
  <2>6. loc[p].puts = <<>> /\ loc[p].pc \in {"unlink"} \cup Creates
    BY <1>1, <1>3
  <2>7. /\ m.put = "test" /\ m.dp = loc[p].dp
        /\ m.pc = c /\ m.ip = u /\ m.path = loc[p].path /\ m.call = loc[p].call /\ m.puts = <<>>
    BY <2>1, <2>3, <2>5, <2>6, TakesOK
  <2>8. Steady(p) /\ loc'[p] = m
    BY <1>3, <2>4, SteadyLoc
  <2>9. /\ Keeps /\ Gains(p) /\ inode'[u].inum = i
        /\ \A t \in Slots : inode[t].ref > 0 => inode'[t].inum = inode[t].inum
    BY <1>5, <1>6, <1>10, <2>2, GetKeeps
  <2>10. inode'[s].inum = j /\ dinode'[j].type = "dir"
    BY <1>2, <1>3, <1>5, <2>9 DEF disk
  <2>11. n \in Names
    BY <1>5, <1>10 DEF Elems
  <2>12. Ents'[j][n] = i
    <3>1. Lookup(dinode[j], n)' = i
      BY <1>3, <1>5 DEF disk, Lookup
    <3> QED BY <1>5, <2>10, <2>11, <3>1, EntsIs
  <2>13. Fits(p)
    <3>1. loc'[p].puts = <<>> /\ Head(loc'[p].path) \in Names /\ loc'[p].ip = u /\ loc'[p].dp = s /\ loc'[p].put = "test"
          /\ Head(loc'[p].path) = n /\ loc'[p].pc = "remove" /\ loc'[p].call = l.call /\ loc'[p].path = l.path
      BY <1>1, <1>2, <2>1, <2>7, <2>8, <2>11
    <3>2. Ents'[inode'[s].inum][n] = inode'[u].inum
      BY <2>9, <2>10, <2>12
    <3> HIDE DEF Ents
    <3> QED BY <1>7, <1>8, <2>10, <3>1, <3>2 DEF Fits
  <2> QED BY <1>1, <1>3, <1>7, <1>8, <2>1, <2>7, <2>8, <2>9, <2>13, QuietMove
<1> QED BY <1>4, <1>9, <1>10

----------------------------------------------------------------------------
(* iput *)

\* A call that gives a pointer back is not about to initialise or to remove.
LEMMA PutsBusy ==
    ASSUME CacheInv, DiskInv, NEW p \in Procs, loc[p].puts # <<>>
    PROVE  /\ loc[p].pc \notin {"new", "remove"} /\ ProcInv(p)
           /\ loc[p] \in Locals /\ Shape(loc[p])
           /\ loc[p].pc \in HasDp \ {"walk"} => /\ loc[p].dp \in Slots /\ inode[loc[p].dp].ref > 0
                                                /\ Ino(loc[p].dp).type = "dir" /\ loc[p].dp # 0
           /\ loc[p].call = "linkto" => /\ loc[p].ip \in Slots /\ inode[loc[p].ip].ref > 0
                                        /\ Ino(loc[p].ip).type # "dir" /\ loc[p].ip # 0
<1>1. ProcInv(p)
  BY DEF DiskInv, ProcsInv
<1>2. loc[p].pc \notin {"new", "remove"}
  BY <1>1 DEF ProcInv
<1>3. loc[p] \in Locals /\ Shape(loc[p])
  BY Unpack, LocType
<1>4. loc[p].pc \in HasDp \ {"walk"} => loc[p].dp # 0 /\ Ino(loc[p].dp).type = "dir"
  BY <1>1, <1>3 DEF ProcInv, Shape
<1>5. loc[p].call = "linkto" => loc[p].ip # 0 /\ Ino(loc[p].ip).type # "dir"
  BY <1>1, <1>3 DEF ProcInv, Shape
<1> QED BY <1>1, <1>2, <1>3, <1>4, <1>5, Unpack, LocType, PtrRefs

LEMMA PutTestDisk ==
    ASSUME CacheInv, CacheInv', DiskInv, NEW p \in Procs, PutTest(p)
    PROVE  DiskInv'
<1>1. PICK l, s : l = loc[p] /\ s = Head(loc[p].puts)
  OBVIOUS
<1>2. PICK x \in {"free", "drop"} : x = IF LastRef(s) THEN "free" ELSE "drop"
  OBVIOUS
<1>3. /\ l.puts # <<>> /\ l.put = "test"
      /\ loc' = [loc EXCEPT ![p].put = x]
      /\ UNCHANGED disk /\ inode' = inode /\ cwd' = cwd /\ ofile' = ofile /\ panic' = panic
  BY <1>1, <1>2 DEF PutTest, Putting
<1>4. /\ l.pc \notin {"new", "remove"} /\ l \in Locals
      /\ l.pc \in HasDp \ {"walk"} => Ino(l.dp).type = "dir"
      /\ l.call = "linkto" => Ino(l.ip).type # "dir"
  BY <1>1, <1>3, PutsBusy
<1>5. PICK m : m = [l EXCEPT !.put = x]
  OBVIOUS
<1>6. loc' = [loc EXCEPT ![p] = m]
  BY <1>1, <1>3, <1>5, Unpack DEF ProcsOK
<1>7. /\ m.pc = l.pc /\ m.ip = l.ip /\ m.dp = l.dp /\ m.puts = l.puts /\ m.put = x
      /\ m.call = l.call /\ m.path = l.path
  BY <1>4, <1>5 DEF Locals
<1>8. Steady(p) /\ loc'[p] = m
  BY <1>3, <1>6, SteadyLoc
<1>9. Keeps /\ Gains(p)
  BY <1>3, SameRefsSelf, SameKeeps
<1>10. x = "free" => inode[s].ref = 1 /\ dinode[inode[s].inum].nlink = 0
  <2>1. s \in Slots /\ inode[s].ref > 0
    BY <1>1, <1>3, PutsHead
  <2> QED BY <1>2, <2>1, Unpack DEF LastRef, CacheOK
<1>11. dinode' = dinode
  BY <1>3 DEF disk
<1>12. Fits(p)
  BY <1>1, <1>3, <1>4, <1>7, <1>8, <1>10, <1>11 DEF Fits, Ino
<1> QED BY <1>1, <1>3, <1>4, <1>7, <1>8, <1>9, <1>12, QuietMove

LEMMA PutDropDisk ==
    ASSUME CacheInv, CacheInv', DiskInv, NEW p \in Procs, PutDrop(p)
    PROVE  DiskInv'
<1>1. PICK l, s : l = loc[p] /\ s = Head(loc[p].puts)
  OBVIOUS
<1>2. /\ l.puts # <<>> /\ l.put = "drop" /\ inode' = Dropped(inode, s)
      /\ UNCHANGED disk /\ cwd' = cwd /\ ofile' = ofile /\ panic' = panic
  BY <1>1 DEF PutDrop, Putting, Dropped
<1>3. loc' = [loc EXCEPT ![p].puts = Tail(l.puts), ![p].put = "test"]
  BY <1>1 DEF PutDrop
<1>4. /\ l.pc \notin {"new", "remove"} /\ l \in Locals /\ ProcInv(p)
      /\ l.pc \in HasDp \ {"walk"} => Ino(l.dp).type = "dir" /\ l.dp \in Slots /\ inode[l.dp].ref > 0
      /\ l.call = "linkto" => Ino(l.ip).type # "dir" /\ l.ip \in Slots /\ inode[l.ip].ref > 0
  BY <1>1, <1>2, PutsBusy
<1>5. PICK x : x = Tail(l.puts)
  OBVIOUS
<1>6. PICK m : m = [l EXCEPT !.puts = x, !.put = "test"]
  OBVIOUS
<1>7. loc' = [loc EXCEPT ![p] = m]
  BY <1>1, <1>3, <1>5, <1>6, Unpack DEF ProcsOK
<1>8. /\ m.pc = l.pc /\ m.ip = l.ip /\ m.dp = l.dp /\ m.puts = x /\ m.put = "test"
      /\ m.call = l.call /\ m.path = l.path
  BY <1>4, <1>6 DEF Locals
<1>9. Steady(p) /\ loc'[p] = m
  BY <1>2, <1>7, SteadyLoc
<1>10. \A t \in Slots : /\ inode'[t].ref <= inode[t].ref /\ inode[t].ref \in Nat
                        /\ inode'[t].ref > 0 => inode'[t].inum = inode[t].inum
  <2>1. PICK e : e = inode'
    OBVIOUS
  <2>2. s \in Slots /\ inode[s].ref > 0 /\ CacheOK(dinode, inode)
    BY <1>1, <1>2, PutsHead, Unpack
  <2>3. \A t \in Slots : /\ e[t].ref = inode[t].ref - (IF t = s THEN 1 ELSE 0)
                         /\ e[t].ref > 0 => e[t].inum = inode[t].inum
    BY <1>2, <2>1, <2>2, DropOK
  <2> QED BY <2>1, <2>3, Unpack
<1>11. Keeps
  BY <1>10 DEF Keeps
<1>12. dinode' = dinode
  BY <1>2 DEF disk
<1>13. ASSUME NEW t \in Slots, Leads(p, t)' PROVE Solid(t)' /\ inode'[t].inum = inode[t].inum
  <2>1. l.puts \in Seq(Slots) /\ Len(l.puts) \in Nat /\ Len(l.puts) <= 2
    BY <1>1, Unpack, LocType
  <2>2. Len(x) = Len(l.puts) - 1 /\ (Len(x) = 1 => x[1] = l.puts[2])
    BY <1>2, <1>5, <2>1, HeadTailProperties
  <2>8. ~(Len(x) >= 2) /\ (Len(x) >= 1 => Len(l.puts) >= 2 /\ x[1] = l.puts[2])
    <3>1. PICK h, k : h = Len(x) /\ k = Len(l.puts)
      OBVIOUS
    <3>2. k \in Nat /\ k <= 2 /\ h = k - 1
      BY <2>1, <2>2, <3>1
    <3>3. ~(h >= 2) /\ (h >= 1 => h = 1 /\ k >= 2)
      BY <3>2
    <3> QED BY <2>2, <3>1, <3>3
  <2>9. \/ cwd'[p] = t \/ ofile'[p] = t \/ loc'[p].dp = t \/ loc'[p].ip = t
        \/ Len(loc'[p].puts) >= 1 /\ loc'[p].puts[1] = t
        \/ Len(loc'[p].puts) >= 2 /\ loc'[p].puts[2] = t
    BY <1>13 DEF Leads
  <2>10. \/ cwd[p] = t \/ ofile[p] = t \/ l.dp = t \/ l.ip = t
         \/ Len(l.puts) >= 2 /\ l.puts[2] = t
    BY <1>2, <1>8, <1>9, <2>8, <2>9
  <2>3. Leads(p, t)
    BY <1>1, <1>4, <2>10 DEF Leads
  <2>4. Solid(t)
    BY <1>4, <2>3 DEF ProcInv
  <2>5. Own(cwd'[p], ofile'[p], loc'[p], t) # 0
    BY <1>13 DEF Leads, Own, One
  <2>6. inode'[t].inum = inode[t].inum
    BY <1>10, <2>5, PtrRefNext
  <2>7. ASSUME NEW q \in Procs PROVE ~New(loc'[q], t)
    <3>1. CASE q = p
      BY <1>4, <1>8, <1>9, <3>1 DEF New
    <3>2. CASE q # p
      BY <1>9, <2>4, <3>2 DEF Steady, Solid
    <3> QED BY <3>1, <3>2
  <2> QED BY <1>12, <2>4, <2>6, <2>7 DEF Solid, Ino, New
<1>14. l.pc \in HasDp \ {"walk"} => dinode'[inode'[l.dp].inum].type = "dir"
  <2>1. SUFFICES ASSUME l.pc \in HasDp \ {"walk"} PROVE dinode'[inode'[l.dp].inum].type = "dir"
    OBVIOUS
  <2>2. PICK t \in Slots : t = l.dp
    BY <1>4, <2>1
  <2>3. Leads(p, t)'
    BY <1>8, <1>9, <2>2 DEF Leads
  <2> QED BY <1>4, <1>12, <1>13, <2>1, <2>2, <2>3 DEF Ino
<1>15. l.call = "linkto" => dinode'[inode'[l.ip].inum].type # "dir"
  <2>1. SUFFICES ASSUME l.call = "linkto" PROVE dinode'[inode'[l.ip].inum].type # "dir"
    OBVIOUS
  <2>2. PICK t \in Slots : t = l.ip
    BY <1>4, <2>1
  <2>3. Leads(p, t)'
    BY <1>4, <1>8, <1>9, <2>2 DEF Leads
  <2> QED BY <1>4, <1>12, <1>13, <2>1, <2>2, <2>3 DEF Ino
<1>16. Fits(p)
  BY <1>4, <1>8, <1>9, <1>14, <1>15 DEF Fits
<1>17. ProcInv(p)'
  BY <1>13, <1>16, SelfFits
<1>18. ASSUME NEW q \in Procs, q # p PROVE ProcInv(q)'
  <2>1. NamesKept(p)
    BY <1>2, QuietNames
  <2>2. loc[q].pc \in {"new", "remove"} =>
              Ents'[inode[loc[q].dp].inum][Head(loc[q].path)] = Ents[inode[loc[q].dp].inum][Head(loc[q].path)]
    BY <1>18, <2>1 DEF NamesKept
  <2>3. \A t \in Slots : inode'[t].ref > inode[t].ref => Clear(p, inode'[t].inum)
    <3>1. ASSUME NEW t \in Slots PROVE ~(inode'[t].ref > inode[t].ref)
      <4>1. inode'[t].ref \in Nat
        BY DEF CacheInv, CacheOK, Slot
      <4> QED BY <1>10, <4>1
    <3> QED BY <3>1
  <2>4. \A t \in Slots : New(loc'[p], t) => ~Leads(q, t) /\ ~New(loc[q], t)
    BY <1>4, <1>8, <1>9 DEF New
  <2>5. \A t \in Slots : Leads(q, t) => dinode'[inode[t].inum].type = Ino(t).type
    BY <1>12 DEF Ino
  <2>6. \A j \in Inums : dinode'[j] # dinode[j] => Clear(p, j)
    BY <1>12
  <2>7. ProcsInv
    BY DEF DiskInv
  <2> QED BY <1>9, <1>11, <1>18, <2>2, <2>3, <2>4, <2>5, <2>6, <2>7, OthersStep
<1>19. ProcsInv'
  BY <1>17, <1>18 DEF ProcsInv
<1> QED BY <1>1, <1>2, <1>4, <1>8, <1>9, <1>11, <1>19, QuietDisk

----------------------------------------------------------------------------
(* The steps that change the disk *)

LEMMA DiskFns ==
    ASSUME DiskOK, DiskOK'
    PROVE  /\ Nlinks \in [Inums -> Int] /\ Nlinks' \in [Inums -> Int]
           /\ \A j \in Inums : /\ Nlinks[j] = dinode[j].nlink /\ Nlinks'[j] = dinode'[j].nlink
                               /\ Types[j] = dinode[j].type /\ Types'[j] = dinode'[j].type
BY DEF DiskOK, DInode, Nlinks, Types

LEMMA EntsInums ==
    ASSUME CacheInv, NEW j \in Inums, NEW n \in Names, Ents[j][n] # 0
    PROVE  Ents[j][n] \in Inums /\ dinode[j].type = "dir" /\ dinode[j].addrs[0] # 0
<1>1. Ents[j][n] = Lookup(dinode[j], n) /\ dinode[j].type = "dir"
  BY EntsIs
<1>2. n \in Elems /\ dinode[j] \in DInode /\ DiskOK
  BY Unpack DEF Elems, DiskOK
<1>3. Lookup(dinode[j], n) \in Inums
  BY <1>1, <1>2, LookupIn
<1> QED BY <1>1, <1>3 DEF Lookup

LEMMA EntsKept ==
    ASSUME NEW j \in Inums, dinode'[j].type = dinode[j].type, NEW a, a = dinode[j].addrs[0], dinode'[j].addrs[0] = a,
           NEW n \in Names, dinode[j].type = "dir" /\ a # 0 => dirent'[a][n] = dirent[a][n]
    PROVE  Ents'[j][n] = Ents[j][n]
BY EntsIs DEF Lookup

\* A directory that is being made by another process.
LEMMA DirStep ==
    ASSUME CacheInv, CacheInv', DiskInv, NEW p \in Procs, Steady(p), Keeps, loc[p].pc # "new",
           NEW j \in Inums, dinode[j].type = "dir", dinode[j].addrs[0] = 0
    PROVE  \E q \in Procs : loc'[q].pc = "new" /\ inode'[loc'[q].ip].inum = j
<1>1. PICK q \in Procs : loc[q].pc = "new" /\ inode[loc[q].ip].inum = j
  BY DEF DiskInv, DirInv
<1>2. q # p
  BY <1>1
<1> QED BY <1>1, <1>2, NewKept

\* A step that moves no directory: it enters and makes none, and leaves the
\* entries ".." alone.
LEMMA UpStep ==
    ASSUME CacheInv, DiskInv,
           \A x \in Inums : dinode'[x].type = "dir" =>
              \/ /\ dinode[x].type = "dir" /\ dinode'[x].addrs[0] = dinode[x].addrs[0]
                 /\ dinode[x].addrs[0] # 0 => dirent'[dinode[x].addrs[0]][".."] = dirent[dinode[x].addrs[0]][".."]
              \/ dinode[x].type = "none" /\ dinode'[x].addrs[0] = 0,
           \A k \in Inums, m \in Names :
              Ents'[k][m] # 0 /\ dinode'[Ents'[k][m]].type = "dir" => Ents'[k][m] = Ents[k][m]
    PROVE  UpInv'
<1>1. ASSUME NEW x \in Inums, dinode'[x].type = "dir", dinode'[x].addrs[0] # 0
      PROVE  dinode[x].type = "dir" /\ dinode[x].addrs[0] # 0 /\ Up(x)' = Up(x)
  <2>1. /\ dinode[x].type = "dir" /\ dinode'[x].addrs[0] = dinode[x].addrs[0]
        /\ dirent'[dinode[x].addrs[0]][".."] = dirent[dinode[x].addrs[0]][".."]
    BY <1>1
  <2> QED BY <1>1, <2>1 DEF Up
<1>2. \A x \in Inums : dinode'[x].type = "dir" /\ dinode'[x].addrs[0] # 0 => Up(x)' # 0
  BY <1>1 DEF DiskInv, UpInv
<1>3. ASSUME NEW k \in Inums, NEW m \in Names, NEW x, x = Ents'[k][m], x # 0, dinode'[x].type = "dir"
      PROVE  Up(x)' = k
  <2>1. x = Ents[k][m]
    BY <1>3
  <2>2. x \in Inums
    BY <1>3, <2>1, EntsInums
  <2>3. dinode[x].type # "none" /\ dinode[x].nlink # 0
    BY <2>1, <2>2, NamedLinked
  <2>4. dinode[x].type = "dir" /\ dinode'[x].addrs[0] = dinode[x].addrs[0]
    BY <1>3, <2>2, <2>3
  <2>5. Sound(x)
    BY <2>2, <2>3, LinkedSound DEF DiskInv
  <2>6. dinode[x].addrs[0] # 0
    BY <2>2, <2>4, <2>5, SoundDir
  <2>7. Up(x)' = Up(x)
    BY <1>1, <1>3, <2>2, <2>4, <2>6
  <2>8. Up(x) = k
    BY <1>3, <2>1, <2>4 DEF DiskInv, UpInv
  <2> QED BY <2>7, <2>8
<1>4. PICK E : E = Ents'
  OBVIOUS
<1>5. \A k \in Inums, m \in Names : E[k][m] # 0 /\ dinode'[E[k][m]].type = "dir" => Up(E[k][m])' = k
  BY <1>3, <1>4
<1> QED BY <1>2, <1>4, <1>5 DEF UpInv, Up

LEMMA OncePoints ==
    ASSUME CacheInv, NEW p \in Procs, NEW s \in Slots, inode[s].ref = 1,
           Len(loc[p].puts) >= 1, loc[p].puts[1] = s
    PROVE  /\ cwd[p] # s /\ ofile[p] # s /\ loc[p].ip # s /\ loc[p].dp # s
           /\ ~(Len(loc[p].puts) >= 2 /\ loc[p].puts[2] = s)
<1>1. Own(cwd[p], ofile[p], loc[p], s) <= 1
  BY PtrRef
<1> QED BY <1>1 DEF Own, One

LEMMA PutFreeDisk ==
    ASSUME CacheInv, CacheInv', DiskInv, NEW p \in Procs, PutFree(p)
    PROVE  DiskInv'
<1>1. PICK l, s, i : l = loc[p] /\ s = Head(loc[p].puts) /\ i = inode[s].inum
  OBVIOUS
<1>2. PICK bs : bs = BlocksOf(inode[s].d)
  OBVIOUS
<1>3. /\ l.puts # <<>> /\ l.put = "free" /\ used' = used \ bs
      /\ dinode' = Update(dinode, s, Null) /\ inode' = Freed(inode, s)
      /\ dirent' = dirent /\ ptr' = ptr /\ cwd' = cwd /\ ofile' = ofile
      /\ panic' = IF bs \subseteq used THEN "none" ELSE "freeing free block"
      /\ loc' = [loc EXCEPT ![p].put = "drop"]
  BY <1>1, <1>2 DEF PutFree, Putting, Truncated
<1>4. /\ l.pc \notin {"new", "remove"} /\ l \in Locals /\ ProcInv(p)
      /\ l.pc \in HasDp \ {"walk"} => Ino(l.dp).type = "dir" /\ l.dp \in Slots /\ inode[l.dp].ref > 0
      /\ l.call = "linkto" => Ino(l.ip).type # "dir" /\ l.ip \in Slots /\ inode[l.ip].ref > 0
  BY <1>1, <1>3, PutsBusy
<1>5. /\ s \in Slots /\ Len(l.puts) >= 1 /\ s = l.puts[1] /\ Points(p, s) /\ Leads(p, s)
      /\ inode[s].valid /\ inode[s].ref > 0 /\ i \in Inums
  BY <1>1, <1>3, FreeingIs, PointsRef
<1>6. inode[s].ref = 1 /\ dinode[i].nlink = 0 /\ dinode[i].type # "none" /\ inode[s].d = dinode[i]
  <2>1. inode[s].ref = 1 /\ Ino(s).nlink = 0 /\ Solid(s)
    BY <1>1, <1>3, <1>4, <1>5 DEF ProcInv
  <2> QED BY <1>1, <1>5, <2>1, Unpack DEF Solid, Ino, CacheOK
<1>7. /\ cwd[p] # s /\ ofile[p] # s /\ l.ip # s /\ l.dp # s
      /\ ~(Len(l.puts) >= 2 /\ l.puts[2] = s)
  BY <1>1, <1>5, <1>6, OncePoints
<1>8. PICK m : m = [l EXCEPT !.put = "drop"]
  OBVIOUS
<1>9. loc' = [loc EXCEPT ![p] = m]
  BY <1>1, <1>3, <1>8, Unpack DEF ProcsOK
<1>10. /\ m.pc = l.pc /\ m.ip = l.ip /\ m.dp = l.dp /\ m.puts = l.puts /\ m.put = "drop"
       /\ m.call = l.call /\ m.path = l.path
  BY <1>4, <1>8 DEF Locals
<1>11. Steady(p) /\ loc'[p] = m
  BY <1>3, <1>9, SteadyLoc
<1>12. /\ dinode'[i] = Null /\ \A j \in Inums : j # i => dinode'[j] = dinode[j]
       /\ \A t \in Slots : inode'[t].ref = inode[t].ref /\ inode'[t].inum = inode[t].inum
  <2>1. dinode' = With(dinode, i, Null) /\ CacheOK(dinode, inode) /\ dinode \in [Inums -> DInode]
    BY <1>1, <1>3, Unpack DEF Update, With, DiskOK
  <2>2. inode[s].ref > 0 /\ s \in Slots
    BY <1>5
  <2>3. /\ With(dinode, i, Null)[i] = Null /\ \A j \in Inums : j # i => With(dinode, i, Null)[j] = dinode[j]
        /\ \A t \in Slots : Freed(inode, s)[t].ref = inode[t].ref /\ Freed(inode, s)[t].inum = inode[t].inum
    BY <1>1, <2>1, <2>2, FreedOK
  <2> QED BY <1>3, <2>1, <2>3
<1>13. Keeps
  BY <1>12 DEF Keeps
<1>14. ASSUME NEW t \in Slots, t # s, inode[t].ref > 0
       PROVE  inode[t].inum # i /\ inode[t].inum \in Inums /\ dinode'[inode'[t].inum] = dinode[inode[t].inum]
  <2>1. inode[t].inum # i
    BY <1>1, <1>5, <1>14, SameSlot
  <2>2. inode[t].inum \in Inums
    BY <1>14, Unpack DEF CacheOK
  <2> QED BY <1>12, <2>1, <2>2
<1>15. ASSUME NEW q \in Procs, q # p, NEW t \in Slots, Points(q, t)
       PROVE  t # s /\ inode[t].ref > 0
  BY <1>5, <1>6, <1>15, TwoPoint, PointsRef
<1>16. DiskOK /\ DiskOK'
  BY DEF CacheInv
<1>17. ASSUME NEW j \in Inums, NEW n \in Names PROVE Ents'[j][n] = IF j = i THEN 0 ELSE Ents[j][n]
  <2>1. CASE j = i
    BY <1>12, <2>1, EntsIs, NullIn
  <2>2. CASE j # i
    <3>1. Ents'[j][n] = Ents[j][n]
      BY <1>3, <1>12, <2>2, EntsKept
    <3> QED BY <2>2, <3>1
  <2> QED BY <2>1, <2>2
<1>18. ProcInv(p)'
  <2>1. ASSUME NEW t \in Slots, Leads(p, t)' PROVE Solid(t)'
    <3>1. Leads(p, t) /\ t # s
      BY <1>1, <1>3, <1>7, <1>10, <1>11, <2>1 DEF Leads
    <3>2. Solid(t) /\ inode[t].ref > 0
      BY <1>4, <3>1, LeadsPoints, PointsRef DEF ProcInv
    <3>3. dinode'[inode'[t].inum].type # "none"
      BY <1>14, <3>1, <3>2 DEF Solid, Ino
    <3>4. ASSUME NEW q \in Procs PROVE ~New(loc'[q], t)
      <4>1. CASE q = p
        BY <1>4, <1>10, <1>11, <4>1 DEF New
      <4>2. CASE q # p
        BY <1>11, <3>2, <4>2 DEF Steady, Solid
      <4> QED BY <4>1, <4>2
    <3> QED BY <3>3, <3>4 DEF Solid, Ino, New
  <2>2. l.pc \in HasDp \ {"walk"} => dinode'[inode'[l.dp].inum].type = "dir"
    BY <1>4, <1>7, <1>14 DEF Ino
  <2>3. l.call = "linkto" => dinode'[inode'[l.ip].inum].type # "dir"
    BY <1>4, <1>7, <1>14 DEF Ino
  <2>4. Fits(p)
    BY <1>4, <1>10, <1>11, <2>2, <2>3 DEF Fits
  <2> QED BY <2>1, <2>4, SelfFits
<1>19. ASSUME NEW q \in Procs, q # p PROVE ProcInv(q)'
  <2>1. loc[q].pc \in {"new", "remove"} =>
              Ents'[inode[loc[q].dp].inum][Head(loc[q].path)] = Ents[inode[loc[q].dp].inum][Head(loc[q].path)]
    <3>1. SUFFICES ASSUME loc[q].pc \in {"new", "remove"}
                   PROVE  Ents'[inode[loc[q].dp].inum][Head(loc[q].path)] = Ents[inode[loc[q].dp].inum][Head(loc[q].path)]
      OBVIOUS
    <3>2. loc[q].dp \in Slots /\ Head(loc[q].path) \in Names
      BY <3>1, HeldFacts DEF HeldDp, DiskInv, ProcsInv, ProcInv
    <3>3. Points(q, loc[q].dp)
      BY PointsIs
    <3>4. inode[loc[q].dp].inum # i /\ inode[loc[q].dp].inum \in Inums
      BY <1>14, <1>15, <1>19, <3>2, <3>3
    <3> QED BY <1>17, <3>2, <3>4
  <2>2. \A t \in Slots : inode'[t].ref > inode[t].ref => Clear(p, inode'[t].inum)
    BY <1>12, Unpack
  <2>3. \A t \in Slots : New(loc'[p], t) => ~Leads(q, t) /\ ~New(loc[q], t)
    BY <1>4, <1>10, <1>11 DEF New
  <2>4. ASSUME NEW t \in Slots, Leads(q, t) PROVE dinode'[inode[t].inum].type = Ino(t).type
    BY <1>12, <1>14, <1>15, <1>19, <2>4, LeadsPoints DEF Ino
  <2>5. Clear(p, i)
    <3>1. SUFFICES ASSUME NEW r \in Procs, NEW t \in Slots, r # p, New(loc[r], t) \/ Freeing(loc[r], t)
                   PROVE  inode[t].inum # i
      BY DEF Clear
    <3>2. Points(r, t)
      <4>1. CASE New(loc[r], t)
        BY <4>1, NewIs DEF New
      <4>2. CASE Freeing(loc[r], t)
        BY <4>2, FreeingIs DEF Freeing
      <4> QED BY <3>1, <4>1, <4>2
    <3> QED BY <1>14, <1>15, <3>1, <3>2
  <2>6. \A j \in Inums : dinode'[j] # dinode[j] => Clear(p, j)
    BY <1>12, <2>5
  <2>7. ProcsInv
    BY DEF DiskInv
  <2> QED BY <1>11, <1>13, <1>19, <2>1, <2>2, <2>3, <2>4, <2>6, <2>7, OthersStep
<1>20. ProcsInv'
  BY <1>18, <1>19 DEF ProcsInv
<1>21. NullInv'
  BY <1>12 DEF NullInv, DiskInv
<1>22. DirInv'
  <2>1. SUFFICES ASSUME NEW j \in Inums, dinode'[j].type = "dir"
                 PROVE  IF dinode'[j].addrs[0] # 0 THEN dirent'[dinode'[j].addrs[0]]["."] = j
                        ELSE \E q \in Procs : loc'[q].pc = "new" /\ inode'[loc'[q].ip].inum = j
    BY DEF DirInv
  <2>2. j # i
    BY <1>12, <2>1, NullIn
  <2>3. dinode'[j] = dinode[j]
    BY <1>12, <2>2
  <2>4. CASE dinode[j].addrs[0] # 0
    BY <1>3, <2>1, <2>3, <2>4 DEF DiskInv, DirInv
  <2>5. CASE dinode[j].addrs[0] = 0
    <3>1. loc[p].pc # "new" /\ dinode[j].type = "dir"
      BY <1>1, <1>4, <2>1, <2>3
    <3>2. \E q \in Procs : loc'[q].pc = "new" /\ inode'[loc'[q].ip].inum = j
      BY <1>11, <1>13, <2>5, <3>1, DirStep
    <3> QED BY <2>3, <2>5, <3>2
  <2> QED BY <2>4, <2>5
<1>23. FilledInv'
  <2>1. SUFFICES ASSUME NEW j \in Inums PROVE \E n \in 0 .. NDIRECT + NINDIRECT : Filled(ptr', dinode'[j], n)
    BY DEF FilledInv, Filled
  <2>2. CASE j = i
    <3>1. PICK d : d = dinode'[j]
      OBVIOUS
    <3>2. d.addrs = NoAddrs
      BY <1>12, <2>2, <3>1, NullIn
    <3>3. Filled(ptr', d, 0)
      BY <3>2, NoBlocks
    <3>4. 0 \in 0 .. NDIRECT + NINDIRECT
      BY FsAssumption
    <3> QED BY <3>1, <3>3, <3>4
  <2>3. CASE j # i
    BY <1>3, <1>12, <2>3 DEF DiskInv, FilledInv
  <2> QED BY <2>2, <2>3
<1>24. bs = BlocksIn(ptr, dinode[i])
  <2>1. dinode[i] \in DInode
    BY <1>5, <1>16 DEF DiskOK
  <2> QED BY <1>2, <1>6, <1>16, <2>1, BlocksOfIs
<1>25. OwnedIn(used, ptr, dinode)
  BY <1>16, OwnedIs DEF DiskInv
<1>26. OneOwner'
  <2>1. PICK D2, U2 : D2 = dinode' /\ U2 = used'
    OBVIOUS
  <2>2. \A x : x \notin BlocksIn(ptr, D2[i])
    <3>1. PICK d : d = D2[i]
      OBVIOUS
    <3>2. d.addrs = NoAddrs
      BY <1>12, <2>1, <3>1, NullIn
    <3> QED BY <3>1, <3>2, NoBlocks
  <2>3. \A x : x \in U2 <=> x \in used /\ x \notin BlocksIn(ptr, dinode[i])
    BY <1>3, <1>24, <2>1
  <2>4. \A j \in Inums : j # i => D2[j] = dinode[j]
    BY <1>12, <2>1
  <2>5. OwnedIn(U2, ptr, D2)
    BY <1>5, <1>25, <2>2, <2>3, <2>4, OwnedShrink
  <2>6. OwnedIn(used', ptr', dinode')
    BY <1>3, <2>1, <2>5
  <2> QED BY <1>16, <2>6, OwnedNext
<1>27. OnlyWhenFull'
  <2>1. bs \subseteq used
    BY <1>5, <1>24, <1>25 DEF OwnedIn
  <2> QED BY <1>3, <2>1 DEF OnlyWhenFull, Full
<1>28. Pends' = Pends
  <2>1. ASSUME NEW q \in Procs PROVE Pends'[q] = Pends[q]
    <3>1. CASE q # p
      BY <1>11, <1>13, <3>1, PendsOthers
    <3>2. CASE q = p
      <4>1. l.call = "linkto" \/ l.pc = "erased" => l.ip \in Slots
        BY <1>1, Unpack, LocType DEF Shape, HasIp
      <4> QED BY <1>1, <1>10, <1>11, <1>12, <3>2, <4>1 DEF Pends
    <3> QED BY <3>1, <3>2
  <2> QED BY <2>1 DEF Pends
<1>29. LinksInv'
  <2>1. PICK E, T, N, E2, T2, N2, P : /\ E = Ents /\ T = Types /\ N = Nlinks /\ P = Pends
                                      /\ E2 = Ents' /\ T2 = Types' /\ N2 = Nlinks'
    OBVIOUS
  <2>2. N \in [Inums -> Int] /\ N2 \in [Inums -> Int] /\ LinkOK(E, T, P, N)
    BY <1>16, <2>1, DiskFns DEF DiskInv, LinksInv
  <2>3. T[i] # "none" /\ N[i] = 0 /\ i \in Inums
    BY <1>5, <1>6, <1>16, <2>1, DiskFns
  <2>4. Becomes(T, T2, i, "none") /\ Becomes(N, N2, i, 0)
    BY <1>12, <1>16, <2>1, DiskFns, NullIn DEF Becomes, Null
  <2>5. Erased(E, E2, i)
    BY <1>17, <2>1 DEF Erased
  <2>6. EntsIn(E)
    BY <2>1, EntsInums DEF EntsIn
  <2>7. LinkOK(E2, T2, P, N2)
    BY <2>2, <2>3, <2>4, <2>5, <2>6, LinksFree
  <2> QED BY <1>28, <2>1, <2>7 DEF LinksInv
<1>30. UpInv'
  <2>1. ASSUME NEW x \in Inums, dinode'[x].type = "dir" PROVE dinode'[x] = dinode[x]
    BY <1>12, <2>1, NullIn
  <2>2. \A x \in Inums : dinode'[x].type = "dir" =>
            /\ dinode[x].type = "dir" /\ dinode'[x].addrs[0] = dinode[x].addrs[0]
            /\ dinode[x].addrs[0] # 0 => dirent'[dinode[x].addrs[0]][".."] = dirent[dinode[x].addrs[0]][".."]
    BY <1>3, <2>1
  <2>3. \A k \in Inums, n \in Names : Ents'[k][n] # 0 => Ents'[k][n] = Ents[k][n]
    BY <1>17
  <2> QED BY <2>2, <2>3, UpStep
<1> QED BY <1>20, <1>21, <1>22, <1>23, <1>26, <1>27, <1>29, <1>30 DEF DiskInv

\* The step changes no more of an inode that is allocated than its links, and
\* leaves the entries of "." and ".." alone.
SameShape ==
    \A j \in Inums : /\ dinode'[j].type = dinode[j].type /\ dinode'[j].addrs = dinode[j].addrs
                     /\ dinode[j].type = "none" => dinode'[j] = dinode[j]
SameDots == \A b \in Blocks : dirent'[b]["."] = dirent[b]["."] /\ dirent'[b][".."] = dirent[b][".."]

LEMMA DirBlock ==
    ASSUME DiskOK, NEW j \in Inums, NEW a, a = dinode[j].addrs[0], a # 0
    PROVE  a \in Blocks /\ a \in BlocksIn(ptr, dinode[j])
<1>1. PICK d \in DInode : d = dinode[j]
  BY DEF DiskOK
<1>2. 0 \in 0 .. NDIRECT
  BY DirectIn
<1>3. a \in Blocks
  BY <1>1, <1>2, AddrsIn
<1>4. a \in Nat
  BY <1>3 DEF Blocks
<1> QED BY <1>1, <1>2, <1>3, <1>4 DEF BlocksIn

LEMMA SameBlocks ==
    ASSUME CacheInv, CacheInv', DiskInv, NEW p \in Procs, Steady(p), Keeps, loc[p].pc # "new",
           used' = used, ptr' = ptr, SameShape, SameDots
    PROVE  NullInv' /\ DirInv' /\ FilledInv' /\ OneOwner'
<1>1. DiskOK /\ DiskOK'
  BY DEF CacheInv
<1>2. ASSUME NEW j \in Inums
      PROVE  /\ dinode'[j].type = dinode[j].type /\ dinode'[j].addrs = dinode[j].addrs
             /\ dinode[j].type = "none" => dinode'[j] = dinode[j]
  BY DEF SameShape
<1>3. NullInv'
  BY <1>2 DEF NullInv, DiskInv
<1>4. DirInv'
  <2>1. SUFFICES ASSUME NEW j \in Inums, dinode'[j].type = "dir"
                 PROVE  IF dinode'[j].addrs[0] # 0 THEN dirent'[dinode'[j].addrs[0]]["."] = j
                        ELSE \E q \in Procs : loc'[q].pc = "new" /\ inode'[loc'[q].ip].inum = j
    BY DEF DirInv
  <2>2. PICK a : a = dinode[j].addrs[0]
    OBVIOUS
  <2>3. dinode[j].type = "dir" /\ dinode'[j].addrs[0] = a
    BY <1>2, <2>1, <2>2
  <2>4. CASE a # 0
    <3>1. a \in Blocks
      BY <1>1, <2>2, <2>4, DirBlock
    <3>2. dirent[a]["."] = j
      BY <2>2, <2>3, <2>4 DEF DiskInv, DirInv
    <3> QED BY <2>3, <2>4, <3>1, <3>2 DEF SameDots
  <2>5. CASE a = 0
    <3>1. \E q \in Procs : loc'[q].pc = "new" /\ inode'[loc'[q].ip].inum = j
      BY <2>2, <2>3, <2>5, DirStep
    <3> QED BY <2>3, <2>5, <3>1
  <2> QED BY <2>4, <2>5
<1>5. ASSUME NEW j \in Inums
      PROVE  /\ BlocksIn(ptr, dinode'[j]) = BlocksIn(ptr, dinode[j])
             /\ \A n : Filled(ptr, dinode[j], n) => Filled(ptr, dinode'[j], n)
  <2>1. PICK d, e : d = dinode[j] /\ e = dinode'[j]
    OBVIOUS
  <2>2. e.addrs = d.addrs
    BY <1>2, <2>1
  <2>3. BlocksIn(ptr, e) = BlocksIn(ptr, d) /\ \A n : Filled(ptr, d, n) => Filled(ptr, e, n)
    BY <2>2, BlocksSame
  <2> QED BY <2>1, <2>3
<1>6. FilledInv'
  <2>1. SUFFICES ASSUME NEW j \in Inums PROVE \E n \in 0 .. NDIRECT + NINDIRECT : Filled(ptr', dinode'[j], n)
    BY DEF FilledInv, Filled
  <2>2. PICK n \in 0 .. NDIRECT + NINDIRECT : Filled(ptr, dinode[j], n)
    BY DEF DiskInv, FilledInv
  <2> QED BY <1>5, <2>2
<1>7. OneOwner'
  <2>1. OwnedIn(used, ptr, dinode)
    BY <1>1, OwnedIs DEF DiskInv
  <2>2. PICK D2 : D2 = dinode'
    OBVIOUS
  <2>3. \A j \in Inums : BlocksIn(ptr, D2[j]) = BlocksIn(ptr, dinode[j])
    BY <1>5, <2>2
  <2>4. OwnedIn(used, ptr, D2)
    BY <2>1, <2>3, OwnedKeep
  <2>5. OwnedIn(used', ptr', dinode')
    BY <2>2, <2>4
  <2> QED BY <1>1, <2>5, OwnedNext
<1> QED BY <1>3, <1>4, <1>6, <1>7

\* The entries of one directory do not lie in the block of another.
LEMMA EntsEntered ==
    ASSUME CacheInv, DiskInv, SameShape, NEW j \in Inums, dinode[j].type = "dir",
           NEW a, a = dinode[j].addrs[0], a # 0, NEW n \in Names, NEW v, dirent' = Entered(dirent, a, n, v)
    PROVE  Changes(Ents, Ents', j, n, v) /\ SameDots
<1>1. DiskOK /\ OwnedIn(used, ptr, dinode)
  BY OwnedIs DEF CacheInv, DiskInv
<1>2. a \in Blocks /\ a \in BlocksIn(ptr, dinode[j]) /\ n \in Elems /\ n # "." /\ n # ".."
  BY <1>1, DirBlock, FsAssumption DEF Elems, Dots
<1>3. /\ \A b \in Blocks, m \in Elems : ~(b = a /\ m = n) => dirent'[b][m] = dirent[b][m]
      /\ dirent'[a][n] = v
  BY <1>1, <1>2 DEF Entered, DiskOK
<1>4. SameDots
  BY <1>2, <1>3 DEF SameDots, Elems, Dots
<1>5. ASSUME NEW k \in Inums, NEW m \in Names
      PROVE  Ents'[k][m] = IF k = j /\ m = n THEN v ELSE Ents[k][m]
  <2>1. dinode'[k].type = dinode[k].type /\ dinode'[k].addrs = dinode[k].addrs /\ m \in Elems
    BY DEF SameShape, Elems
  <2>2. CASE k = j /\ m = n
    <3>1. Ents'[k][m] = Lookup(dinode[k], m)'
      BY <2>1, <2>2, EntsIs
    <3> QED BY <1>3, <2>1, <2>2, <3>1 DEF Lookup
  <2>3. CASE ~(k = j /\ m = n)
    <3>1. PICK b : b = dinode[k].addrs[0]
      OBVIOUS
    <3>2. ASSUME b # 0 PROVE dirent'[b][m] = dirent[b][m]
      <4>1. b \in Blocks /\ b \in BlocksIn(ptr, dinode[k])
        BY <1>1, <3>1, <3>2, DirBlock
      <4>2. ~(b = a /\ m = n)
        BY <1>1, <1>2, <2>3, <4>1 DEF OwnedIn
      <4> QED BY <1>3, <2>1, <4>1, <4>2
    <3>3. dinode'[k].addrs[0] = b
      BY <2>1, <3>1
    <3>4. Ents'[k][m] = Ents[k][m]
      BY <2>1, <3>1, <3>2, <3>3, EntsKept
    <3> QED BY <2>3, <3>4
  <2> QED BY <2>2, <2>3
<1>6. Changes(Ents, Ents', j, n, v)
  BY <1>5 DEF Changes
<1> QED BY <1>4, <1>6

LEMMA EntsSame ==
    ASSUME SameShape, dirent' = dirent
    PROVE  Ents' = Ents
<1>1. ASSUME NEW k \in Inums, NEW m \in Names PROVE Ents'[k][m] = Ents[k][m]
  <2>1. dinode'[k].type = dinode[k].type /\ dinode'[k].addrs = dinode[k].addrs
    BY DEF SameShape
  <2> QED BY <2>1, EntsKept
<1>2. ASSUME NEW k \in Inums PROVE Ents'[k] = Ents[k]
  BY <1>1 DEF Ents
<1> QED BY <1>2 DEF Ents

\* A name is given to no directory.
LEMMA UpEntered ==
    ASSUME CacheInv, DiskInv, SameShape, SameDots,
           \A k \in Inums, m \in Names :
              Ents'[k][m] # 0 /\ dinode[Ents'[k][m]].type = "dir" /\ Ents'[k][m] \in Inums => Ents'[k][m] = Ents[k][m],
           \A k \in Inums, m \in Names : Ents'[k][m] # 0 => Ents'[k][m] \in Inums
    PROVE  UpInv'
<1>1. DiskOK
  BY DEF CacheInv
<1>2. ASSUME NEW x \in Inums, dinode'[x].type = "dir"
      PROVE  /\ dinode[x].type = "dir" /\ dinode'[x].addrs[0] = dinode[x].addrs[0]
             /\ dinode[x].addrs[0] # 0 => dirent'[dinode[x].addrs[0]][".."] = dirent[dinode[x].addrs[0]][".."]
  BY <1>1, <1>2, DirBlock DEF SameShape, SameDots
<1>3. \A k \in Inums, m \in Names : Ents'[k][m] # 0 /\ dinode'[Ents'[k][m]].type = "dir" => Ents'[k][m] = Ents[k][m]
  BY DEF SameShape
<1> QED BY <1>2, <1>3, UpStep

LEMMA UpUnnamed ==
    ASSUME CacheInv, DiskInv, SameShape, dirent' = dirent, Ents' = Ents
    PROVE  UpInv'
<1>1. SameDots
  BY DEF SameDots
<1>2. PICK E : E = Ents
  OBVIOUS
<1>3. \A k \in Inums, m \in Names : E[k][m] # 0 => E[k][m] \in Inums
  BY <1>2, EntsInums
<1> QED BY <1>1, <1>2, <1>3, UpEntered

LEMMA UpChanged ==
    ASSUME CacheInv, DiskInv, SameShape, SameDots, NEW j \in Inums, NEW n \in Names, NEW v,
           Changes(Ents, Ents', j, n, v), v = 0 \/ (v \in Inums /\ dinode[v].type # "dir")
    PROVE  UpInv'
<1>1. PICK E, F : E = Ents /\ F = Ents'
  OBVIOUS
<1>2. \A k \in Inums, m \in Names : E[k][m] # 0 => E[k][m] \in Inums
  BY <1>1, EntsInums
<1>3. \A k \in Inums, m \in Names : F[k][m] = E[k][m] \/ F[k][m] = v
  BY <1>1 DEF Changes
<1> QED BY <1>1, <1>2, <1>3, UpEntered

LEMMA PendStep ==
    ASSUME CacheInv, CacheInv', NEW p \in Procs, Steady(p), Keeps, NEW v, Pends'[p] = v
    PROVE  Pending(Pends, Pends', p, v)
<1>1. ASSUME NEW q \in Procs PROVE Pends'[q] = IF q = p THEN v ELSE Pends[q]
  <2>1. CASE q = p
    BY <2>1
  <2>2. CASE q # p
    BY <2>2, PendsOthers
  <2> QED BY <2>1, <2>2
<1> QED BY <1>1 DEF Pending

LEMMA PendsIs ==
    ASSUME NEW p \in Procs
    PROVE  /\ loc[p].call = "linkto" \/ loc[p].pc = "erased" => Pends[p] = inode[loc[p].ip].inum
           /\ ~(loc[p].call = "linkto" \/ loc[p].pc = "erased") => Pends[p] = 0
           /\ loc'[p].call = "linkto" \/ loc'[p].pc = "erased" => Pends'[p] = inode'[loc'[p].ip].inum
           /\ ~(loc'[p].call = "linkto" \/ loc'[p].pc = "erased") => Pends'[p] = 0
BY DEF Pends

\* The types of inodes, when only one is changed.
LEMMA OneChanged ==
    ASSUME CacheInv, NEW i \in Inums, dinode[i].type # "none", NEW d, dinode'[i] = d, d.type = dinode[i].type,
           d.addrs = dinode[i].addrs, \A j \in Inums : j # i => dinode'[j] = dinode[j]
    PROVE  SameShape
BY DEF SameShape

LEMMA SameTypes ==
    ASSUME SameShape
    PROVE  Types' = Types /\ \A j \in Inums : dinode'[j].type = dinode[j].type
BY DEF SameShape, Types

LEMMA IdleFits ==
    ASSUME NEW p, loc'[p].pc = "idle", loc'[p].call = "none", loc'[p].put = "test", loc'[p].path = <<>>
    PROVE  Fits(p)
BY DEF Fits, HasDp, Parent

LEMMA UnlinkedDisk ==
    ASSUME CacheInv, CacheInv', DiskInv, NEW p \in Procs, Unlinked(p)
    PROVE  DiskInv'
<1>1. PICK s, i : s = loc[p].ip /\ i = inode[s].inum
  OBVIOUS
<1>2. PICK d, m : d = LessD(Content(s)) /\ m = Gives(s)
  OBVIOUS
<1>3. /\ loc[p].puts = <<>> /\ (loc[p].pc = "erased" \/ (loc[p].pc = "unlinked" /\ Locks(s)))
      /\ used' = used /\ dirent' = dirent /\ ptr' = ptr /\ cwd' = cwd /\ ofile' = ofile /\ panic' = panic
  BY <1>1 DEF Unlinked, At
<1>4. /\ dinode' = Update(dinode, s, d) /\ inode' = Store(inode, s, d) /\ loc' = [loc EXCEPT ![p] = m]
  BY <1>1, <1>2 DEF Unlinked, LessD, Gives
<1>5. s \in Slots /\ inode[s].ref > 0 /\ loc[p].ip # 0 /\ i \in Inums /\ Shape(loc[p]) /\ loc[p].put = "test"
  <2>1. s \in Slots /\ inode[s].ref > 0 /\ loc[p].ip # 0 /\ Shape(loc[p]) /\ loc[p].put = "test"
    BY <1>1, <1>3, AtFacts, AtPtrs DEF HasIp
  <2> QED BY <1>1, <2>1, Unpack DEF CacheOK
<1>6. loc[p].pc # "new" /\ (loc[p].call = "linkto" \/ loc[p].pc = "erased")
  BY <1>3, <1>5 DEF Shape
<1>7. Content(s) = dinode[i] /\ dinode[i] \in DInode /\ dinode[i].type # "none"
  <2>1. CASE loc[p].pc = "erased"
    <3>1. inode[s].valid
      BY <1>1, <2>1, HeldFacts DEF HeldIp
    <3>2. Content(s) = inode[s].d
      BY <3>1 DEF Content
    <3>3. dinode[i] \in DInode
      BY <1>5, Unpack DEF DiskOK
    <3> QED BY <1>1, <1>5, <3>1, <3>2, <3>3, Unpack DEF CacheOK
  <2>2. CASE Locks(s)
    BY <1>1, <1>5, <2>2, LocksOK
  <2> QED BY <1>3, <2>1, <2>2
<1>8. d \in DInode /\ d.type = dinode[i].type /\ d.addrs = dinode[i].addrs /\ d.nlink = dinode[i].nlink - 1
  <2>1. PICK y \in DInode : y = Content(s)
    BY <1>7
  <2>2. /\ LessD(y) \in DInode /\ LessD(y).type = y.type /\ LessD(y).addrs = y.addrs
        /\ LessD(y).nlink = y.nlink - 1
    BY LinksIn
  <2> QED BY <1>2, <1>7, <2>1, <2>2
<1>9. /\ SameRefs(inode') /\ dinode'[i] = d /\ \A j \in Inums : j # i => dinode'[j] = dinode[j]
  BY <1>1, <1>4, <1>5, <1>7, <1>8, OneStore
<1>10. /\ m.put = "test" /\ m.pc = "idle" /\ m.call = "none" /\ m.path = <<>>
  BY <1>2, <1>5, GivesBack
<1>11. Steady(p) /\ loc'[p] = m
  BY <1>3, <1>4, SteadyLoc
<1>12. Keeps /\ Gains(p)
  BY <1>9, SameKeeps
<1>13. SameShape
  BY <1>5, <1>7, <1>8, <1>9, OneChanged
<1>14. Fits(p)
  BY <1>10, <1>11, IdleFits
<1>15. Ents' = Ents
  BY <1>3, <1>13, EntsSame
<1>16. Types' = Types /\ \A j \in Inums : dinode'[j].type = dinode[j].type
  BY <1>13, SameTypes
<1>17. \A j \in Inums : dinode'[j] # dinode[j] => Clear(p, j)
  <2>1. Sound(i)
    BY <1>1, <1>3, <1>5, <1>6, AtSound
  <2> QED BY <1>9, <2>1, SoundClear
<1>18. ProcsInv'
  <2>1. ProcsInv
    BY DEF DiskInv
  <2>2. NamesKept(p)
    BY <1>15, NamesSame
  <2> QED BY <1>5, <1>6, <1>11, <1>12, <1>14, <1>16, <1>17, <2>1, <2>2, ProcsStep
<1>19. NullInv' /\ DirInv' /\ FilledInv' /\ OneOwner'
  <2>1. SameDots
    BY <1>3 DEF SameDots
  <2> QED BY <1>3, <1>6, <1>11, <1>12, <1>13, <2>1, SameBlocks
<1>20. LinksInv'
  <2>1. PICK E, T, N, N2, P, P2 : /\ E = Ents /\ T = Types /\ N = Nlinks /\ P = Pends
                                  /\ N2 = Nlinks' /\ P2 = Pends'
    OBVIOUS
  <2>2. N \in [Inums -> Int] /\ N2 \in [Inums -> Int] /\ LinkOK(E, T, P, N)
    BY <2>1, DiskFns DEF DiskInv, LinksInv, CacheInv
  <2>3. P[p] = i /\ i \in Inums
    BY <1>1, <1>5, <1>6, <2>1, PendsIs
  <2>4. Pends'[p] = 0
    BY <1>10, <1>11, PendsIs
  <2>5. Pending(P, P2, p, 0)
    BY <1>11, <1>12, <2>1, <2>4, PendStep
  <2>6. Becomes(N, N2, i, N[i] - 1)
    BY <1>5, <1>8, <1>9, <2>1, DiskFns DEF Becomes, CacheInv
  <2>7. LinkOK(E, T, P2, N2)
    BY <2>2, <2>3, <2>5, <2>6, LinksUnlink
  <2> QED BY <1>15, <1>16, <2>1, <2>7 DEF LinksInv
<1>21. OnlyWhenFull'
  BY <1>3 DEF DiskInv, OnlyWhenFull
<1>22. UpInv'
  BY <1>3, <1>13, <1>15, UpUnnamed
<1> QED BY <1>18, <1>19, <1>20, <1>21, <1>22 DEF DiskInv

LEMMA LinkDisk ==
    ASSUME CacheInv, CacheInv', DiskInv, NEW p \in Procs, Link(p)
    PROVE  DiskInv'
<1>1. PICK s, q, i : s = loc[p].ip /\ q = loc[p].new /\ i = inode[s].inum
  OBVIOUS
<1>2. PICK d : d = MoreD(Content(s))
  OBVIOUS
<1>3. /\ loc[p].puts = <<>> /\ loc[p].pc = "link" /\ Locks(s)
      /\ used' = used /\ dirent' = dirent /\ ptr' = ptr /\ cwd' = cwd /\ ofile' = ofile /\ panic' = panic
  BY <1>1 DEF Link, At
<1>4. \/ /\ inode' = Load(s) /\ dinode' = dinode
         /\ loc' = [loc EXCEPT ![p] = Gives(s)]
      \/ /\ d.type # "dir"
         /\ q.abs => CanGet(ROOTINO)
         /\ dinode' = Update(dinode, s, d)
         /\ inode' = StartGet(p, Store(inode, s, d), q)
         /\ loc' = [loc EXCEPT ![p] = Arrive(LinksTo(s), StartSlot(p, q), q.elems)]
  BY <1>1, <1>2 DEF Link, Gives, MoreD, LinksTo
<1>5. /\ s \in Slots /\ inode[s].ref > 0 /\ loc[p].ip # 0 /\ loc[p] \in Locals /\ Shape(loc[p]) /\ loc[p].put = "test"
  BY <1>1, <1>3, AtFacts, AtPtrs DEF HasIp
<1>6. loc[p].pc \notin {"new", "erased"} /\ loc[p].call # "linkto"
  BY <1>3, <1>5 DEF Shape, LinkPcs
<1>7. /\ Content(s) = dinode[i] /\ dinode[i] \in DInode /\ dinode[i].type # "none" /\ i \in Inums
      /\ SameRefs(Load(s))
  BY <1>1, <1>3, <1>5, LocksOK
<1>8. CASE /\ inode' = Load(s) /\ dinode' = dinode
           /\ loc' = [loc EXCEPT ![p] = Gives(s)]
  <2>1. PICK m : m = Gives(s)
    OBVIOUS
  <2>2. m.put = "test" /\ m.pc = "idle" /\ m.call = "none" /\ m.path = <<>>
    BY <1>5, <2>1, GivesBack
  <2>3. Steady(p) /\ loc'[p] = m
    BY <1>3, <1>8, <2>1, SteadyLoc
  <2>4. Keeps /\ Gains(p)
    BY <1>7, <1>8, SameKeeps
  <2>5. UNCHANGED disk
    BY <1>3, <1>8 DEF disk
  <2> QED BY <1>3, <1>5, <1>6, <2>2, <2>3, <2>4, <2>5, QuietEnd
<1>9. CASE /\ d.type # "dir"
           /\ q.abs => CanGet(ROOTINO)
           /\ dinode' = Update(dinode, s, d)
           /\ inode' = StartGet(p, Store(inode, s, d), q)
           /\ loc' = [loc EXCEPT ![p] = Arrive(LinksTo(s), StartSlot(p, q), q.elems)]
  <2>1. PICK l, u, x, c : /\ l = LinksTo(s) /\ u = StartSlot(p, q) /\ x = q.elems
                          /\ c = Store(inode, s, d)
    OBVIOUS
  <2>2. PICK m : m = Arrive(l, u, x)
    OBVIOUS
  <2>3. q.abs \in BOOLEAN /\ x \in Seq(Elems)
    <3>1. q \in News
      BY <1>1, <1>5 DEF Locals
    <3>2. q = NoPath \/ \E r \in Requests : q = r.new
      BY <3>1 DEF News
    <3>3. CASE q = NoPath
      BY <2>1, <3>3 DEF NoPath
    <3>4. CASE \E r \in Requests : q = r.new
      BY <2>1, <3>4, FsAssumption DEF Elems
    <3> QED BY <3>2, <3>3, <3>4
  <2>4. d \in DInode /\ d.type = dinode[i].type /\ d.addrs = dinode[i].addrs /\ d.nlink = dinode[i].nlink + 1
    <3>1. PICK y \in DInode : y = Content(s)
      BY <1>7
    <3>2. /\ MoreD(y) \in DInode /\ MoreD(y).type = y.type /\ MoreD(y).addrs = y.addrs
          /\ MoreD(y).nlink = y.nlink + 1
      BY LinksIn
    <3> QED BY <1>2, <1>7, <3>1, <3>2
  <2>5. /\ CacheOK(dinode', c) /\ SameRefs(c) /\ dinode'[i] = d /\ \A j \in Inums : j # i => dinode'[j] = dinode[j]
    BY <1>1, <1>5, <1>7, <1>9, <2>1, <2>4, OneStore
  <2>6. u \in Slots
    BY <1>9, <2>1, <2>3, <2>5, StartOK
  <2>7. l \in Locals /\ l.call = "linkto" /\ l.ip = s /\ l.puts = <<>> /\ l.put = "test" /\ s # 0
    BY <1>5, <2>1, LinksToOK
  <2>8. /\ m.put = "test" /\ m.pc \notin {"new", "remove", "erased"}
        /\ m.pc \notin HasDp \ {"walk"} /\ m.call = "linkto" /\ m.ip = s
    BY <2>2, <2>3, <2>6, <2>7, ArriveFits
  <2>9. loc' = [loc EXCEPT ![p] = m]
    BY <1>9, <2>1, <2>2
  <2>10. Steady(p) /\ loc'[p] = m
    BY <1>3, <2>9, SteadyLoc
  <2>11. inode' = StartGet(p, c, q)
    BY <1>9, <2>1
  <2>12. /\ Keeps /\ Gains(p) /\ \A t \in Slots : inode[t].ref > 0 => inode'[t].inum = inode[t].inum
    BY <1>3, <1>9, <2>3, <2>5, <2>11, StartKeeps
  <2>13. inode'[s].inum = i
    BY <1>1, <1>5, <2>12
  <2>14. SameShape
    BY <1>7, <2>4, <2>5, OneChanged
  <2>15. Fits(p)
    <3>1. dinode'[inode'[s].inum].type # "dir"
      BY <1>9, <2>5, <2>13
    <3> QED BY <2>8, <2>10, <3>1 DEF Fits
  <2>16. Ents' = Ents
    BY <1>3, <2>14, EntsSame
  <2>17. Types' = Types /\ \A j \in Inums : dinode'[j].type = dinode[j].type
    BY <2>14, SameTypes
  <2>18. \A j \in Inums : dinode'[j] # dinode[j] => Clear(p, j)
    <3>1. Sound(i)
      BY <1>1, <1>3, <1>5, AtSound
    <3> QED BY <2>5, <3>1, SoundClear
  <2>19. ProcsInv'
    <3>1. ProcsInv
      BY DEF DiskInv
    <3>2. NamesKept(p)
      BY <2>16, NamesSame
    <3> QED BY <1>5, <1>6, <2>10, <2>12, <2>15, <2>17, <2>18, <3>1, <3>2, ProcsStep
  <2>20. NullInv' /\ DirInv' /\ FilledInv' /\ OneOwner'
    <3>1. SameDots
      BY <1>3 DEF SameDots
    <3> QED BY <1>3, <1>6, <2>10, <2>12, <2>14, <3>1, SameBlocks
  <2>21. LinksInv'
    <3>1. PICK E, T, N, N2, P, P2 : /\ E = Ents /\ T = Types /\ N = Nlinks /\ P = Pends
                                    /\ N2 = Nlinks' /\ P2 = Pends'
      OBVIOUS
    <3>2. N \in [Inums -> Int] /\ N2 \in [Inums -> Int] /\ LinkOK(E, T, P, N)
      BY <3>1, DiskFns DEF DiskInv, LinksInv, CacheInv
    <3>3. T[i] # "none" /\ i \in Inums
      BY <1>7, <3>1 DEF Types
    <3>4. Pends'[p] = i
      BY <2>8, <2>10, <2>13, PendsIs
    <3>5. Pending(P, P2, p, i)
      BY <2>10, <2>12, <3>1, <3>4, PendStep
    <3>6. Becomes(N, N2, i, N[i] + 1)
      BY <1>7, <2>4, <2>5, <3>1, DiskFns DEF Becomes, CacheInv
    <3>7. LinkOK(E, T, P2, N2)
      BY <3>2, <3>3, <3>5, <3>6, LinksLink
    <3> QED BY <2>16, <2>17, <3>1, <3>7 DEF LinksInv
  <2>22. OnlyWhenFull'
    BY <1>3 DEF DiskInv, OnlyWhenFull
  <2>23. UpInv'
    BY <1>3, <2>14, <2>16, UpUnnamed
  <2> QED BY <2>19, <2>20, <2>21, <2>22, <2>23 DEF DiskInv
<1> QED BY <1>4, <1>8, <1>9

LEMMA LinkEnterDisk ==
    ASSUME CacheInv, CacheInv', DiskInv, NEW p \in Procs, LinkEnter(p)
    PROVE  DiskInv'
<1>1. PICK s, t, n, i, j : /\ s = loc[p].ip /\ t = loc[p].dp /\ n = Head(loc[p].path)
                           /\ i = inode[s].inum /\ j = inode[t].inum
  OBVIOUS
<1>2. PICK k, x, m : k = Lookup(Content(t), n) /\ x = <<t, s>> /\ m = IdlePuts(x)
  OBVIOUS
<1>3. /\ loc[p].puts = <<>> /\ loc[p].pc = "linkto" /\ Locks(t) /\ k = 0 /\ inode' = Load(t)
      /\ dirent' = Entered(dirent, Content(t).addrs[0], n, i)
      /\ dinode' = dinode /\ used' = used /\ ptr' = ptr /\ cwd' = cwd /\ ofile' = ofile /\ panic' = panic
  BY <1>1, <1>2 DEF LinkEnter, At, Entered
<1>4. loc' = [loc EXCEPT ![p] = m]
  <2>1. loc' = [loc EXCEPT ![p] = [Idle EXCEPT !.puts = x]]
    BY <1>1, <1>2 DEF LinkEnter
  <2> QED BY <1>2, <2>1, IdleIs
<1>5. /\ loc[p].ip # 0 /\ s \in Slots /\ inode[s].ref > 0 /\ Shape(loc[p]) /\ loc[p].put = "test" /\ loc[p].call = "linkto"
  <2>1. Shape(loc[p]) /\ loc[p].put = "test"
    BY <1>3, AtFacts
  <2>2. loc[p].call = "linkto" /\ loc[p].ip # 0
    BY <1>3, <2>1 DEF Shape
  <2> QED BY <1>1, <1>3, <2>1, <2>2, AtFacts
<1>6. /\ t \in Slots /\ inode[t].ref > 0 /\ j \in Inums /\ dinode[j].type = "dir" /\ Content(t) = dinode[j]
      /\ n \in Names /\ Ents[j][n] = 0 /\ dinode[j].addrs[0] # 0
  BY <1>1, <1>2, <1>3, DirSound DEF Parent
<1>7. PICK a : a = dinode[j].addrs[0]
  OBVIOUS
<1>8. dirent' = Entered(dirent, a, n, i) /\ a # 0
  BY <1>3, <1>6, <1>7
<1>9. i \in Inums /\ dinode[i].type # "none" /\ dinode[i].type # "dir"
  <2>1. Sound(i)
    BY <1>1, <1>3, <1>5, AtSound
  <2>2. Ino(s).type # "dir"
    BY <1>1, <1>5 DEF DiskInv, ProcsInv, ProcInv
  <2>3. i \in Inums
    BY <1>1, <1>5, Unpack DEF CacheOK
  <2> QED BY <1>1, <2>1, <2>2, <2>3 DEF Sound, Ino
<1>10. SameShape
  BY <1>3 DEF SameShape
<1>11. Changes(Ents, Ents', j, n, i) /\ SameDots
  BY <1>6, <1>7, <1>8, <1>10, EntsEntered
<1>12. m.put = "test" /\ m.pc = "idle" /\ m.call = "none" /\ m.path = <<>>
  BY <1>2 DEF IdlePuts
<1>13. Steady(p) /\ loc'[p] = m
  BY <1>3, <1>4, SteadyLoc
<1>14. Keeps /\ Gains(p) /\ lock[t] = NoProc
  BY <1>3, <1>6, LocksOK, SameKeeps
<1>15. Fits(p)
  BY <1>12, <1>13, IdleFits
<1>16. ProcsInv'
  <2>1. ProcsInv
    BY DEF DiskInv
  <2>2. NamesKept(p)
    BY <1>1, <1>6, <1>11, <1>14, <2>1, NamesLocked
  <2>3. loc[p].pc # "new"
    BY <1>3
  <2>4. \A y \in Inums : dinode'[y].type = dinode[y].type
    BY <1>3
  <2>5. \A y \in Inums : dinode'[y] # dinode[y] => Clear(p, y)
    BY <1>3
  <2> QED BY <1>5, <1>13, <1>14, <1>15, <2>1, <2>2, <2>3, <2>4, <2>5, ProcsStep
<1>17. NullInv' /\ DirInv' /\ FilledInv' /\ OneOwner'
  BY <1>3, <1>10, <1>11, <1>13, <1>14, SameBlocks
<1>18. LinksInv'
  <2>1. PICK E, E2, T, N, P, P2 : /\ E = Ents /\ T = Types /\ N = Nlinks /\ P = Pends
                                  /\ E2 = Ents' /\ P2 = Pends'
    OBVIOUS
  <2>2. N \in [Inums -> Int] /\ LinkOK(E, T, P, N) /\ Types' = T /\ Nlinks' = N
    BY <1>3, <2>1, DiskFns DEF DiskInv, LinksInv, CacheInv, Types, Nlinks
  <2>3. P[p] = i /\ i \in Inums /\ T[i] # "none" /\ T[i] # "dir"
    BY <1>1, <1>5, <1>9, <2>1, PendsIs DEF Types
  <2>4. Pends'[p] = 0
    BY <1>12, <1>13, PendsIs
  <2>5. Pending(P, P2, p, 0)
    BY <1>13, <1>14, <2>1, <2>4, PendStep
  <2>6. Changes(E, E2, j, n, i) /\ E[j][n] = 0 /\ j \in Inums /\ n \in Names
    BY <1>6, <1>11, <2>1
  <2>7. LinkOK(E2, T, P2, N)
    BY <2>2, <2>3, <2>5, <2>6, LinksEnter
  <2> QED BY <2>1, <2>2, <2>7 DEF LinksInv
<1>19. OnlyWhenFull'
  BY <1>3 DEF DiskInv, OnlyWhenFull
<1>20. UpInv'
  BY <1>6, <1>9, <1>10, <1>11, UpChanged
<1> QED BY <1>16, <1>17, <1>18, <1>19, <1>20 DEF DiskInv

LEMMA UnlinkEraseDisk ==
    ASSUME CacheInv, CacheInv', DiskInv, NEW p \in Procs, UnlinkErase(p)
    PROVE  DiskInv'
<1>1. PICK s, t, n, dir, i, j :
         /\ s = loc[p].ip /\ t = loc[p].dp /\ n = Head(loc[p].path) /\ dir = (Content(s).type = "dir")
         /\ i = inode[s].inum /\ j = inode[t].inum
  OBVIOUS
<1>2. PICK e, xs, xt, c : e = EraseE(inode[t].d, dir) /\ xs = <<s>> /\ xt = <<t>> /\ c = "erased"
  OBVIOUS
<1>3. PICK ms, mt : ms = Backs(loc[p], xs) /\ mt = Leaves(loc[p], c, xt)
  OBVIOUS
<1>4. /\ loc[p].puts = <<>> /\ loc[p].pc = "remove" /\ Locks(s)
      /\ cwd' = cwd /\ ofile' = ofile /\ used' = used /\ ptr' = ptr /\ panic' = panic
  BY <1>1, <1>2, Unpack, UnlinkEraseIs DEF ProcsOK
<1>5. \/ /\ inode' = Load(s) /\ dinode' = dinode /\ dirent' = dirent
         /\ loc' = [loc EXCEPT ![p] = ms]
      \/ /\ dirent' = Entered(dirent, e.addrs[0], n, 0)
         /\ dinode' = Update(dinode, t, e)
         /\ inode' = Store(Load(s), t, e)
         /\ loc' = [loc EXCEPT ![p] = mt]
  BY <1>1, <1>2, <1>3, Unpack, UnlinkEraseIs, SMTT(30) DEF ProcsOK
<1>6. /\ s \in Slots /\ t \in Slots /\ s # t /\ inode[s].ref > 0 /\ inode[t].ref > 0
      /\ lock[t] = p /\ Content(s) \in DInode /\ Content(s).type # "none" /\ Content(s) = dinode[i]
      /\ inode[t].d \in DInode /\ inode[t].d.type # "none" /\ inode[t].d = dinode[j] /\ i \in Inums /\ j \in Inums
  BY <1>1, <1>4, TwoSlots
<1>7. /\ Shape(loc[p]) /\ loc[p].put = "test" /\ loc[p].call # "linkto" /\ loc[p].pc \notin {"new", "erased"}
      /\ s # 0 /\ t # 0
  <2>1. Shape(loc[p]) /\ loc[p].put = "test"
    BY <1>4, AtFacts
  <2> QED BY <1>4, <1>6, <2>1 DEF Shape, LinkPcs, Slots
<1>8. /\ Sound(i) /\ Sound(j) /\ n \in Names /\ Ents[j][n] = i /\ dinode[j].type = "dir"
  <2>1. Sound(i) /\ Sound(j)
    BY <1>1, <1>4, <1>7, AtSound
  <2>2. ProcInv(p)
    BY DEF DiskInv, ProcsInv
  <2> HIDE DEF Ents
  <2> QED BY <1>1, <1>4, <2>1, <2>2 DEF ProcInv, Ino, HasDp
<1>9. CASE /\ inode' = Load(s) /\ dinode' = dinode /\ dirent' = dirent
           /\ loc' = [loc EXCEPT ![p] = ms]
  <2>1. /\ ms.put = "test" /\ ms.pc = "unlinkbad" /\ ms.dp = loc[p].dp
        /\ ms.call = loc[p].call /\ ms.path = loc[p].path
    BY <1>1, <1>2, <1>3, <1>4, BacksOK
  <2>2. Steady(p) /\ loc'[p] = ms
    BY <1>4, <1>9, SteadyLoc
  <2>3. SameRefs(inode')
    BY <1>4, <1>6, <1>9, LocksOK
  <2>4. Keeps /\ Gains(p)
    BY <2>3, SameKeeps
  <2>5. UNCHANGED disk
    BY <1>4, <1>9 DEF disk
  <2>6. dinode'[inode'[t].inum].type = "dir"
    BY <1>1, <1>6, <1>8, <1>9, <2>3, Zenon DEF SameRefs
  <2>7. Fits(p)
    BY <1>1, <1>7, <2>1, <2>2, <2>6 DEF Fits
  <2> QED BY <1>4, <1>7, <2>1, <2>2, <2>4, <2>5, <2>7, QuietMove
<1>10. CASE /\ dirent' = Entered(dirent, e.addrs[0], n, 0)
            /\ dinode' = Update(dinode, t, e)
            /\ inode' = Store(Load(s), t, e)
            /\ loc' = [loc EXCEPT ![p] = mt]
  <2>1. c \in HeldIp /\ loc[p].pc \in {"new", "remove"} /\ xt = <<loc[p].dp>>
    BY <1>1, <1>2, <1>4 DEF HeldIp
  <2>2. /\ mt.put = "test" /\ mt.pc = c /\ mt.ip = loc[p].ip /\ mt.call = loc[p].call /\ mt.path = loc[p].path
    BY <1>3, <1>4, <2>1, LeavesOK
  <2>3. PICK y \in DInode : y = inode[t].d
    BY <1>6
  <2>4. dir \in BOOLEAN
    BY <1>1
  <2>5. /\ e \in DInode /\ e.type = dinode[j].type /\ e.addrs = dinode[j].addrs
        /\ e.nlink = IF dir THEN dinode[j].nlink - 1 ELSE dinode[j].nlink
    <3>1. /\ EraseE(y, dir) \in DInode /\ EraseE(y, dir).type = y.type /\ EraseE(y, dir).addrs = y.addrs
          /\ EraseE(y, dir).nlink = IF dir THEN y.nlink - 1 ELSE y.nlink
      BY <2>4, LinksIn
    <3> QED BY <1>2, <1>6, <2>3, <3>1
  <2>6. dinode' = Update(Update(dinode, s, Content(s)), t, e) /\ inode' = Store(Store(inode, s, Content(s)), t, e)
    BY <1>4, <1>6, <1>10, LoadStore
  <2>7. e.type # "none"
    BY <1>6, <2>5
  <2>8. /\ SameRefs(inode') /\ dinode'[j] = e /\ dinode'[i] = Content(s)
        /\ \A k \in Inums : k # i /\ k # j => dinode'[k] = dinode[k]
    <3>1. PICK f \in DInode : f = Content(s) /\ f.type # "none"
      BY <1>6
    <3>2. PICK D, k : D = dinode' /\ k = inode'
      OBVIOUS
    <3>3. D = Update(Update(dinode, s, f), t, e) /\ k = Store(Store(inode, s, f), t, e)
      BY <2>6, <3>1, <3>2
    <3>4. s \in Slots /\ t \in Slots /\ s # t /\ inode[s].ref > 0 /\ inode[t].ref > 0
      BY <1>6
    <3>5. /\ SameRefs(k) /\ D[inode[s].inum] = f /\ D[inode[t].inum] = e
          /\ \A h \in Inums : h # inode[s].inum /\ h # inode[t].inum => D[h] = dinode[h]
      BY <2>5, <2>7, <3>1, <3>3, <3>4, TwoStores, SMTT(30)
    <3> QED BY <1>1, <3>1, <3>2, <3>5
  <2>9. \A k \in Inums : k # j => dinode'[k] = dinode[k]
    BY <1>6, <2>8
  <2>10. SameShape
    BY <1>6, <2>5, <2>8, <2>9, OneChanged
  <2>11. PICK a : a = dinode[j].addrs[0]
    OBVIOUS
  <2>12. a # 0
    BY <1>6, <1>8, <2>11, SoundDir
  <2>13. dirent' = Entered(dirent, a, n, 0)
    BY <1>10, <2>5, <2>11
  <2>14. Changes(Ents, Ents', j, n, 0) /\ SameDots
    BY <1>6, <1>8, <2>10, <2>11, <2>12, <2>13, EntsEntered
  <2>15. Steady(p) /\ loc'[p] = mt
    BY <1>4, <1>10, SteadyLoc
  <2>16. Keeps /\ Gains(p) /\ inode'[s].inum = i
    BY <1>1, <1>6, <2>8, SameKeeps DEF SameRefs
  <2>17. Fits(p)
    BY <1>2, <1>7, <2>2, <2>15 DEF Fits, HasDp, Parent
  <2>18. \A k \in Inums : dinode'[k] # dinode[k] => Clear(p, k)
    BY <1>8, <2>9, SoundClear
  <2>19. Types' = Types /\ \A k \in Inums : dinode'[k].type = dinode[k].type
    BY <2>10, SameTypes
  <2>20. ProcsInv'
    <3>1. ProcsInv
      BY DEF DiskInv
    <3>2. NamesKept(p)
      BY <1>1, <1>6, <2>14, <3>1, NamesLocked
    <3>3. loc[p].pc # "new"
      BY <1>4
    <3> QED BY <1>7, <2>15, <2>16, <2>17, <2>18, <2>19, <3>1, <3>2, <3>3, ProcsStep
  <2>21. NullInv' /\ DirInv' /\ FilledInv' /\ OneOwner'
    BY <1>4, <2>10, <2>14, <2>15, <2>16, SameBlocks
  <2>22. LinksInv'
    <3>1. PICK E, E2, T, N, N2, P, P2 : /\ E = Ents /\ T = Types /\ N = Nlinks /\ P = Pends
                                        /\ E2 = Ents' /\ P2 = Pends' /\ N2 = Nlinks'
      OBVIOUS
    <3>2. N \in [Inums -> Int] /\ N2 \in [Inums -> Int] /\ LinkOK(E, T, P, N)
      BY <3>1, DiskFns DEF DiskInv, LinksInv, CacheInv
    <3>3. Pends'[p] = i
      BY <1>1, <1>2, <2>2, <2>15, <2>16, PendsIs
    <3>4. Pending(P, P2, p, i)
      BY <2>15, <2>16, <3>1, <3>3, PendStep
    <3>5. Changes(E, E2, j, n, 0) /\ E[j][n] = i /\ j \in Inums /\ n \in Names /\ i \in Inums
      BY <1>6, <1>8, <2>14, <3>1, SMTT(30)
    <3>6. T[i] = "dir" <=> dir
      BY <1>1, <1>6, <3>1 DEF Types
    <3>7. N2[j] = (IF T[i] = "dir" THEN N[j] - 1 ELSE N[j]) /\ \A k \in Inums : k # j => N2[k] = N[k]
      BY <1>6, <2>5, <2>8, <2>9, <3>1, <3>6, DiskFns DEF CacheInv
    <3>8. Becomes(N, N2, j, IF T[i] = "dir" THEN N[j] - 1 ELSE N[j])
      BY <3>7 DEF Becomes
    <3>9. LinkOK(E2, T, P2, N2)
      BY <3>2, <3>4, <3>5, <3>8, LinksErase
    <3> QED BY <2>19, <3>1, <3>9 DEF LinksInv
  <2>23. OnlyWhenFull'
    BY <1>4 DEF DiskInv, OnlyWhenFull
  <2>24. UpInv'
    BY <1>6, <1>8, <2>10, <2>14, UpChanged
  <2> QED BY <2>20, <2>21, <2>22, <2>23, <2>24 DEF DiskInv
<1> QED BY <1>5, <1>9, <1>10

LEMMA WriteDisk ==
    ASSUME CacheInv, CacheInv', DiskInv, NEW p \in Procs, Write(p)
    PROVE  DiskInv'
<1>1. PICK s, i : s = ofile[p] /\ i = inode[s].inum
  OBVIOUS
<1>2. PICK d, b, c : d = Content(s) /\ b = FreeBlock /\ c = SecondBlock
  OBVIOUS
<1>3. PICK n : n = Size(d)
  OBVIOUS
<1>4. PICK e : e = Grown(d, n, b)
  OBVIOUS
<1>5. /\ panic = "none" /\ panic' = panic /\ loc[p] = Idle /\ ofile[p] # 0 /\ Locks(s)
      /\ d.type = "file" /\ n < NDIRECT + NINDIRECT /\ Cardinality(Blocks \ used) >= Needs(d)
      /\ used' = used \cup Taken(d, b, c)
      /\ ptr' = GrownPtr(d, n, b, c)
      /\ dirent' = [k \in Blocks |-> IF k \in used' \ used THEN NoNames ELSE dirent[k]]
      /\ dinode' = Update(dinode, s, e) /\ inode' = Store(inode, s, e)
      /\ lock' = lock /\ cwd' = cwd /\ ofile' = ofile /\ loc' = loc
  <2>1. Wrote(p, s, d, n, b, c, e)
    BY <1>1, <1>2, <1>3, <1>4, WriteIs
  <2> QED BY <2>1 DEF Wrote
<1>6. s \in Slots /\ inode[s].ref > 0
  BY <1>1, <1>5, Unpack, LocType, PtrRefs
<1>7. d \in DInode /\ d = dinode[i] /\ i \in Inums
  BY <1>1, <1>2, <1>5, <1>6, LocksOK
<1>8. DiskOK /\ DiskOK' /\ OwnedIn(used, ptr, dinode)
  BY OwnedIs DEF CacheInv, DiskInv
<1>9. e \in DInode /\ e.type = d.type /\ e.nlink = d.nlink
  <2>1. b \in Blocks
    BY <1>2, <1>5, <1>8, TakenIn DEF DiskOK
  <2>2. b \in 0 .. NBlocks
    BY <2>1 DEF Blocks
  <2>3. /\ [d EXCEPT !.addrs[n] = b] \in DInode /\ [d EXCEPT !.addrs[n] = b].type = d.type
        /\ [d EXCEPT !.addrs[n] = b].nlink = d.nlink
    BY <1>7, <2>2 DEF DInode
  <2> QED BY <1>4, <1>7, <2>3 DEF Grown
<1>10. SameRefs(inode') /\ dinode'[i] = e /\ \A j \in Inums : j # i => dinode'[j] = dinode[j]
  <2>1. e.type # "none"
    BY <1>5, <1>9
  <2> QED BY <1>1, <1>5, <1>6, <1>9, <2>1, OneStore
<1>11. Keeps /\ Gains(p)
  BY <1>10, SameKeeps
<1>12. Steady(p)
  BY <1>5 DEF Steady
<1>13. ASSUME NEW j \in Inums PROVE dinode'[j].type = dinode[j].type /\ dinode'[j].nlink = dinode[j].nlink
  BY <1>7, <1>9, <1>10
<1>14. ASSUME NEW j \in Inums, dinode[j].type = "dir"
       PROVE  /\ dinode'[j] = dinode[j]
              /\ \A a : a = dinode[j].addrs[0] /\ a # 0 => dirent'[a] = dirent[a]
  <2>1. j # i
    BY <1>5, <1>7, <1>14
  <2>2. ASSUME NEW a, a = dinode[j].addrs[0], a # 0 PROVE dirent'[a] = dirent[a]
    <3>1. a \in Blocks /\ a \in BlocksIn(ptr, dinode[j])
      BY <1>8, <2>2, DirBlock
    <3>2. a \in used
      BY <1>8, <3>1 DEF OwnedIn
    <3> QED BY <1>5, <3>1, <3>2
  <2> QED BY <1>10, <2>1, <2>2
<1>15. Ents' = Ents
  <2>1. ASSUME NEW j \in Inums, NEW m \in Names PROVE Ents'[j][m] = Ents[j][m]
    <3>1. CASE dinode[j].type = "dir"
      <4>1. PICK a : a = dinode[j].addrs[0]
        OBVIOUS
      <4>2. dinode'[j].addrs[0] = a /\ dinode'[j].type = dinode[j].type /\ (a # 0 => dirent'[a][m] = dirent[a][m])
        BY <1>14, <3>1, <4>1
      <4> QED BY <4>1, <4>2, EntsKept
    <3>2. CASE dinode[j].type # "dir"
      BY <1>13, <3>2, EntsIs
    <3> QED BY <3>1, <3>2
  <2>2. ASSUME NEW j \in Inums PROVE Ents'[j] = Ents[j]
    BY <2>1 DEF Ents
  <2> QED BY <2>2 DEF Ents
<1>16. Types' = Types /\ Nlinks' = Nlinks
  BY <1>13 DEF Types, Nlinks
<1>17. Pends' = Pends
  <2>1. ASSUME NEW q \in Procs PROVE Pends'[q] = Pends[q]
    <3>1. CASE q # p
      BY <1>11, <1>12, <3>1, PendsOthers
    <3>2. CASE q = p
      <4>1. loc[p].call = "none" /\ loc[p].pc = "idle"
        BY <1>5 DEF Idle
      <4> QED BY <1>5, <3>2, <4>1, PendsIs
    <3> QED BY <3>1, <3>2
  <2> QED BY <2>1 DEF Pends
<1>18. LinksInv'
  BY <1>15, <1>16, <1>17 DEF DiskInv, LinksInv
<1>19. loc'[p].pc = "idle" /\ loc'[p].call = "none" /\ loc'[p].put = "test" /\ loc'[p].path = <<>> /\ loc'[p] = loc[p]
  BY <1>5 DEF Idle
<1>20. Fits(p)
  BY <1>19, IdleFits
<1>21. ProcsInv'
  <2>1. ProcsInv
    BY DEF DiskInv
  <2>2. NamesKept(p)
    BY <1>15, NamesSame
  <2>3. Leads(p, s)
    BY <1>1 DEF Leads
  <2>4. loc[p].put = "test" /\ loc[p].pc # "new"
    BY <1>19
  <2>5. Sound(i)
    BY <1>1, <1>6, <2>1, <2>3, <2>4, LeadsSound
  <2>6. \A j \in Inums : dinode'[j] # dinode[j] => Clear(p, j)
    BY <1>10, <2>5, SoundClear
  <2> QED BY <1>11, <1>12, <1>13, <1>20, <2>1, <2>2, <2>4, <2>6, ProcsStep
<1>22. NullInv'
  BY <1>5, <1>9, <1>10 DEF NullInv, DiskInv
<1>23. DirInv'
  <2>1. SUFFICES ASSUME NEW j \in Inums, dinode'[j].type = "dir"
                 PROVE  IF dinode'[j].addrs[0] # 0 THEN dirent'[dinode'[j].addrs[0]]["."] = j
                        ELSE \E q \in Procs : loc'[q].pc = "new" /\ inode'[loc'[q].ip].inum = j
    BY DEF DirInv
  <2>2. dinode[j].type = "dir"
    BY <1>13, <2>1
  <2>3. dinode'[j] = dinode[j]
    BY <1>14, <2>2
  <2>4. CASE dinode[j].addrs[0] # 0
    BY <1>14, <2>2, <2>3, <2>4 DEF DiskInv, DirInv
  <2>5. CASE dinode[j].addrs[0] = 0
    <3>1. \E q \in Procs : loc'[q].pc = "new" /\ inode'[loc'[q].ip].inum = j
      BY <1>11, <1>12, <1>19, <2>2, <2>5, DirStep
    <3> QED BY <2>3, <2>5, <3>1
  <2> QED BY <2>4, <2>5
<1>24. FilledInv' /\ OneOwner'
  <2>1. PICK D2, P2, U2 : D2 = dinode' /\ P2 = ptr' /\ U2 = used'
    OBVIOUS
  <2>2. D2[i] = e /\ \A j \in Inums : j # i => D2[j] = dinode[j]
    BY <1>10, <2>1
  <2>3. P2 = GrownPtr(d, n, b, c) /\ U2 = used \cup Taken(d, b, c)
    BY <1>5, <2>1
  <2>4. FilledInv
    BY DEF DiskInv
  <2>5. /\ OwnedIn(U2, P2, D2)
        /\ \A j \in Inums : \E m \in 0 .. NDIRECT + NINDIRECT : Filled(P2, D2[j], m)
    BY <1>2, <1>3, <1>4, <1>5, <1>7, <1>8, <2>2, <2>3, <2>4, WriteBlocks, ZenonT(60)
  <2>6. OwnedIn(used', ptr', dinode') /\ \A j \in Inums : \E m \in 0 .. NDIRECT + NINDIRECT : Filled(ptr', dinode'[j], m)
    BY <2>1, <2>5
  <2>7. OneOwner'
    BY <1>8, <2>6, OwnedNext
  <2>8. FilledInv'
    BY <2>6 DEF FilledInv, Filled
  <2> QED BY <2>7, <2>8
<1>25. OnlyWhenFull'
  BY <1>5 DEF DiskInv, OnlyWhenFull
<1>26. UpInv'
  <2>1. \A j \in Inums : dinode'[j].type = "dir" =>
            /\ dinode[j].type = "dir" /\ dinode'[j].addrs[0] = dinode[j].addrs[0]
            /\ dinode[j].addrs[0] # 0 => dirent'[dinode[j].addrs[0]][".."] = dirent[dinode[j].addrs[0]][".."]
    BY <1>13, <1>14
  <2>2. \A k \in Inums, m \in Names : Ents'[k][m] = Ents[k][m]
    BY <1>15
  <2> QED BY <2>1, <2>2, UpStep
<1> QED BY <1>18, <1>21, <1>22, <1>23, <1>24, <1>25, <1>26 DEF DiskInv

\* Nobody uses an inode that is free, nor the slot that iget returns for it.
LEMMA FreeUnused ==
    ASSUME CacheInv, DiskInv, NEW i \in Inums, dinode[i].type = "none"
    PROVE  /\ \A q \in Procs : Clear(q, i) /\ Pends[q] # i
           /\ CanGet(i) => \A q \in Procs : ~Leads(q, IgetSlot(i)) /\ ~New(loc[q], IgetSlot(i))
<1>1. ASSUME NEW q \in Procs, NEW t \in Slots, Leads(q, t) \/ New(loc[q], t) \/ Freeing(loc[q], t)
      PROVE  inode[t].inum # i /\ inode[t].ref > 0
  <2>1. ProcInv(q)
    BY DEF DiskInv, ProcsInv
  <2>2. CASE Leads(q, t)
    <3>1. Solid(t) /\ inode[t].ref > 0
      BY <2>1, <2>2, LeadsPoints, PointsRef DEF ProcInv
    <3> QED BY <3>1 DEF Solid, Ino
  <2>3. CASE New(loc[q], t)
    <3>1. loc[q].pc = "new" /\ loc[q].ip = t
      BY <2>3 DEF New
    <3>2. inode[t].ref > 0
      BY <3>1, NewIs, PointsRef
    <3>3. dinode[inode[t].inum] = Fresh(loc[q].call)
      BY <2>1, <3>1 DEF ProcInv, Ino
    <3>4. Fresh(loc[q].call).type # "none"
      BY FreshIn
    <3> QED BY <3>2, <3>3, <3>4
  <2>4. CASE Freeing(loc[q], t)
    <3>1. Leads(q, t)
      BY <2>4, FreeingIs DEF Freeing
    <3>2. Solid(t) /\ inode[t].ref > 0
      BY <2>1, <3>1, LeadsPoints, PointsRef DEF ProcInv
    <3> QED BY <3>2 DEF Solid, Ino
  <2> QED BY <1>1, <2>2, <2>3, <2>4
<1>2. ASSUME NEW q \in Procs PROVE Clear(q, i)
  BY <1>1 DEF Clear
<1>3. ASSUME NEW q \in Procs PROVE Pends[q] # i
  <2>1. i # 0
    BY DEF Inums
  <2>2. CASE loc[q].call = "linkto" \/ loc[q].pc = "erased"
    <3>1. Shape(loc[q])
      BY Unpack, LocType
    <3>2. loc[q].ip # 0 /\ loc[q].pc # "new"
      BY <2>2, <3>1 DEF Shape, HasIp, LinkPcs
    <3>3. loc[q].ip \in Slots /\ Leads(q, loc[q].ip)
      BY <3>2, Unpack, LocType DEF Leads
    <3> QED BY <1>1, <2>2, <3>3, PendsIs
  <2>3. CASE ~(loc[q].call = "linkto" \/ loc[q].pc = "erased")
    BY <2>1, <2>3, PendsIs
  <2> QED BY <2>2, <2>3
<1>4. ASSUME CanGet(i), NEW q \in Procs PROVE ~Leads(q, IgetSlot(i)) /\ ~New(loc[q], IgetSlot(i))
  <2>1. PICK u : u = IgetSlot(i)
    OBVIOUS
  <2>2. u \in Slots /\ (inode[u].ref > 0 => inode[u].inum = i)
    <3>1. inode[u].ref \in Nat /\ u \in Slots
      BY <1>4, <2>1, IgetSlotIs, Unpack
    <3> QED BY <1>4, <2>1, <3>1, IgetSlotIs, Unpack
  <2> QED BY <1>1, <2>1, <2>2
<1> QED BY <1>2, <1>3, <1>4

LEMMA CreateAllocDisk ==
    ASSUME CacheInv, CacheInv', DiskInv, NEW p \in Procs, CreateAlloc(p)
    PROVE  DiskInv'
<1>1. PICK l, s, i : l = loc[p] /\ s = loc[p].dp /\ i = Min(FreeInums)
  OBVIOUS
<1>2. PICK d, n, k, j, u : /\ d = Fresh(l.call) /\ n = Head(l.path) /\ k = Lookup(Content(s), n)
                           /\ j = inode[s].inum /\ u = IgetSlot(i)
  OBVIOUS
<1>3. /\ l.puts = <<>> /\ l.pc \in Creates /\ Locks(s) /\ FreeInums # {} /\ CanGet(i) /\ k = 0
      /\ inode' = Iget(Load(s), i) /\ panic' = panic
      /\ used' = used /\ dirent' = dirent /\ ptr' = ptr /\ cwd' = cwd /\ ofile' = ofile
  BY <1>1, <1>2 DEF CreateAlloc, At
<1>4. dinode' = With(dinode, i, d)
  BY <1>1, <1>2 DEF CreateAlloc, With, Fresh
<1>5. PICK c \in {"remove", "new"} : c = "new"
  OBVIOUS
<1>6. PICK m : m = Takes(loc[p], c, u)
  OBVIOUS
<1>7. loc' = [loc EXCEPT ![p] = m]
  BY <1>1, <1>2, <1>5, <1>6, Unpack DEF CreateAlloc, ProcsOK, Takes
<1>8. i \in Inums /\ dinode[i].type = "none"
  BY <1>1, <1>3, FreeInumIn
<1>9. /\ s \in Slots /\ inode[s].ref > 0 /\ l.call = l.pc /\ j \in Inums /\ Sound(j) /\ dinode[j].type = "dir"
      /\ n \in Names /\ Ents[j][n] = 0
  <2>1. l.pc \in Parent
    BY <1>3 DEF Parent, Creates
  <2> QED BY <1>1, <1>2, <1>3, <2>1, DirSound
<1>10. u \in Slots
  BY <1>2, <1>3, <1>8, IgetIn
<1>11. loc[p].puts = <<>> /\ loc[p].pc \in {"unlink"} \cup Creates /\ loc[p].pc \in Creates
  BY <1>1, <1>3
<1>12. /\ m.put = "test" /\ m.dp = s /\ m.pc = "new" /\ m.ip = u /\ m.path = l.path /\ m.call = l.call /\ m.puts = <<>>
  BY <1>1, <1>5, <1>6, <1>10, <1>11, TakesOK
<1>13. d \in DInode /\ d.type # "none" /\ d.nlink = 0 /\ d.addrs = NoAddrs
  BY <1>2, FreshIn
<1>14. dinode'[i] = d /\ \A y \in Inums : y # i => dinode'[y] = dinode[y]
  BY <1>4, <1>8, Unpack DEF With, DiskOK
<1>15. Steady(p) /\ loc'[p] = m
  BY <1>3, <1>7, SteadyLoc
<1>16. CacheOK(dinode, Load(s)) /\ SameRefs(Load(s))
  BY <1>3, <1>9, LocksOK
<1>17. /\ inode'[u].inum = i
       /\ \A t \in Slots : inode[t].ref > 0 => inode'[t].inum = inode[t].inum
       /\ \A t \in Slots : inode'[t].ref > inode[t].ref => t = u
  <2>1. PICK e : e = Load(s)
    OBVIOUS
  <2>2. CacheOK(dinode, e) /\ SameRefs(e) /\ inode' = Iget(e, i)
    BY <1>3, <1>16, <2>1
  <2>3. /\ inode'[IgetSlot(i)].inum = i
        /\ \A t \in Slots : inode'[t].ref = inode[t].ref + One(IgetSlot(i) = t)
        /\ \A t \in Slots : inode[t].ref > 0 => inode'[t].inum = e[t].inum
    BY <1>3, <1>8, <2>2, GetOK
  <2>4. \A t \in Slots : e[t].inum = inode[t].inum /\ inode[t].ref \in Nat
    BY <2>2, Unpack DEF SameRefs
  <2> QED BY <1>2, <2>3, <2>4 DEF One
<1>18. Keeps
  BY <1>17 DEF Keeps
<1>19. /\ \A q \in Procs : Clear(q, i) /\ Pends[q] # i
       /\ \A q \in Procs : ~Leads(q, u) /\ ~New(loc[q], u)
  BY <1>2, <1>3, <1>8, FreeUnused
<1>20. DiskOK /\ DiskOK'
  BY DEF CacheInv
<1>21. ASSUME NEW y \in Inums, NEW x \in Names PROVE Ents'[y][x] = Ents[y][x]
  <2>1. CASE y = i
    <3>1. d.addrs[0] = 0
      BY <1>13, DirectIn DEF NoAddrs
    <3>2. Lookup(dinode[y], x)' = 0
      BY <1>14, <2>1, <3>1 DEF Lookup
    <3> QED BY <1>8, <2>1, <3>2, EntsIs
  <2>2. CASE y # i
    <3>1. PICK a : a = dinode[y].addrs[0]
      OBVIOUS
    <3>2. dinode'[y].addrs[0] = a /\ dinode'[y].type = dinode[y].type
      BY <1>14, <2>2, <3>1
    <3> QED BY <1>3, <3>1, <3>2, EntsKept
  <2> QED BY <2>1, <2>2
<1>22. Ents' = Ents
  <2>1. ASSUME NEW y \in Inums PROVE Ents'[y] = Ents[y]
    BY <1>21 DEF Ents
  <2> QED BY <2>1 DEF Ents
<1>23. ProcInv(p)'
  <2>1. ASSUME NEW t \in Slots, Leads(p, t)' PROVE Solid(t)'
    <3>1. Leads(p, t)
      BY <1>1, <1>3, <1>12, <1>15, <2>1 DEF Leads
    <3>2. t # u /\ Solid(t) /\ inode[t].ref > 0 /\ inode[t].inum \in Inums
      BY <1>19, <3>1, LeadsPoints, PointsRef DEF DiskInv, ProcsInv, ProcInv
    <3>3. inode'[t].inum = inode[t].inum /\ inode[t].inum # i
      BY <1>8, <1>17, <3>2 DEF Solid, Ino
    <3>4. dinode'[inode'[t].inum].type # "none"
      BY <1>14, <3>2, <3>3 DEF Solid, Ino
    <3>5. ASSUME NEW q \in Procs PROVE ~New(loc'[q], t)
      <4>1. CASE q = p
        BY <1>12, <1>15, <3>2, <4>1 DEF New
      <4>2. CASE q # p
        BY <1>15, <3>2, <4>2 DEF Steady, Solid
      <4> QED BY <4>1, <4>2
    <3> QED BY <3>4, <3>5 DEF Solid, Ino, New
  <2>3. dinode'[inode'[u].inum] = Fresh(l.call)
    BY <1>2, <1>14, <1>17
  <2>4. ASSUME NEW q \in Procs, q # p PROVE ~New(loc'[q], u)
    BY <1>15, <1>19, <2>4 DEF Steady
  <2>5. inode'[s].inum = j /\ j # i
    BY <1>2, <1>8, <1>9, <1>17
  <2>6. dinode'[inode'[s].inum].type = "dir"
    BY <1>9, <1>14, <2>5
  <2>7. l.call # "linkto"
    BY <1>3, <1>9 DEF Creates
  <2>8. Ents'[inode'[s].inum][n] = 0
    BY <1>9, <1>21, <2>5
  <2>9. /\ loc'[p].put = "test" /\ loc'[p].dp = s /\ loc'[p].pc = "new" /\ loc'[p].ip = u
        /\ loc'[p].path = l.path /\ loc'[p].call = l.call /\ loc'[p].puts = <<>> /\ Head(loc'[p].path) = n
    BY <1>2, <1>12, <1>15
  <2>10. \A t \in Slots : Leads(p, t)' => Solid(t)'
    BY <2>1, <2>9
  <2>11. /\ dinode'[inode'[loc'[p].ip].inum] = Fresh(loc'[p].call)
         /\ \A q \in Procs : q # p => ~New(loc'[q], loc'[p].ip)
    BY <2>3, <2>4, <2>9
  <2>12. /\ dinode'[inode'[loc'[p].dp].inum].type = "dir" /\ loc'[p].call # "linkto"
         /\ loc'[p].puts = <<>> /\ Head(loc'[p].path) \in Names
         /\ Ents'[inode'[loc'[p].dp].inum][Head(loc'[p].path)] = 0
    BY <1>9, <2>6, <2>7, <2>8, <2>9
  <2>13. loc'[p].put # "free" /\ loc'[p].pc # "remove"
    BY <2>9
  <2> HIDE DEF Ents
  <2> QED BY <2>10, <2>11, <2>12, <2>13 DEF ProcInv, Ino, Fresh, Makes, New
<1>24. ASSUME NEW q \in Procs, q # p PROVE ProcInv(q)'
  <2>1. \A y \in Inums : dinode'[y] # dinode[y] => Clear(p, y)
    BY <1>14, <1>19
  <2>2. ASSUME NEW t \in Slots, Leads(q, t) PROVE dinode'[inode[t].inum].type = Ino(t).type
    <3>1. Solid(t) /\ inode[t].inum \in Inums
      BY <2>2, LeadsPoints, PointsRef DEF DiskInv, ProcsInv, ProcInv
    <3> QED BY <1>8, <1>14, <3>1 DEF Solid, Ino
  <2>3. \A t \in Slots : New(loc'[p], t) => ~Leads(q, t) /\ ~New(loc[q], t)
    BY <1>12, <1>15, <1>19 DEF New
  <2>4. \A t \in Slots : inode'[t].ref > inode[t].ref => Clear(p, inode'[t].inum)
    BY <1>17, <1>19
  <2>5. ProcsInv
    BY DEF DiskInv
  <2>6. Ents'[inode[loc[q].dp].inum][Head(loc[q].path)] = Ents[inode[loc[q].dp].inum][Head(loc[q].path)]
    BY <1>22
  <2> QED BY <1>15, <1>18, <1>24, <2>1, <2>2, <2>3, <2>4, <2>5, <2>6, OthersStep, Zenon
<1>25. ProcsInv'
  BY <1>23, <1>24 DEF ProcsInv
<1>26. NullInv'
  BY <1>13, <1>14 DEF NullInv, DiskInv
<1>27. DirInv'
  <2>1. SUFFICES ASSUME NEW y \in Inums, dinode'[y].type = "dir"
                 PROVE  IF dinode'[y].addrs[0] # 0 THEN dirent'[dinode'[y].addrs[0]]["."] = y
                        ELSE \E q \in Procs : loc'[q].pc = "new" /\ inode'[loc'[q].ip].inum = y
    BY DEF DirInv
  <2>2. CASE y = i
    <3>1. d.addrs[0] = 0
      BY <1>13, DirectIn DEF NoAddrs
    <3>2. loc'[p].pc = "new" /\ inode'[loc'[p].ip].inum = y
      BY <1>12, <1>15, <1>17, <2>2
    <3> QED BY <1>14, <2>2, <3>1, <3>2
  <2>3. CASE y # i
    <3>1. dinode'[y] = dinode[y]
      BY <1>14, <2>3
    <3>2. CASE dinode[y].addrs[0] # 0
      BY <1>3, <2>1, <3>1, <3>2 DEF DiskInv, DirInv
    <3>3. CASE dinode[y].addrs[0] = 0
      <4>1. loc[p].pc # "new" /\ dinode[y].type = "dir"
        BY <1>11, <2>1, <3>1 DEF Creates
      <4>2. \E q \in Procs : loc'[q].pc = "new" /\ inode'[loc'[q].ip].inum = y
        BY <1>15, <1>18, <3>3, <4>1, DirStep
      <4> QED BY <3>1, <3>3, <4>2
    <3> QED BY <3>2, <3>3
  <2> QED BY <2>2, <2>3
<1>28. ASSUME NEW y \in Inums
       PROVE  /\ BlocksIn(ptr, dinode'[y]) = BlocksIn(ptr, dinode[y])
              /\ \A x : Filled(ptr, dinode[y], x) => Filled(ptr, dinode'[y], x)
  <2>1. PICK f, g : f = dinode[y] /\ g = dinode'[y]
    OBVIOUS
  <2>2. g.addrs = f.addrs
    <3>1. CASE y = i
      <4>1. dinode[i] = Null
        BY <1>8 DEF DiskInv, NullInv
      <4> QED BY <1>13, <1>14, <2>1, <3>1, <4>1, NullIn
    <3>2. CASE y # i
      BY <1>14, <2>1, <3>2
    <3> QED BY <3>1, <3>2
  <2>3. BlocksIn(ptr, g) = BlocksIn(ptr, f) /\ \A x : Filled(ptr, f, x) => Filled(ptr, g, x)
    BY <2>2, BlocksSame
  <2> QED BY <2>1, <2>3
<1>29. FilledInv'
  <2>1. SUFFICES ASSUME NEW y \in Inums PROVE \E x \in 0 .. NDIRECT + NINDIRECT : Filled(ptr', dinode'[y], x)
    BY DEF FilledInv, Filled
  <2>2. PICK x \in 0 .. NDIRECT + NINDIRECT : Filled(ptr, dinode[y], x)
    BY DEF DiskInv, FilledInv
  <2> QED BY <1>3, <1>28, <2>2
<1>30. OneOwner'
  <2>1. OwnedIn(used, ptr, dinode)
    BY <1>20, OwnedIs DEF DiskInv
  <2>2. PICK D2 : D2 = dinode'
    OBVIOUS
  <2>3. \A y \in Inums : BlocksIn(ptr, D2[y]) = BlocksIn(ptr, dinode[y])
    BY <1>28, <2>2
  <2>4. OwnedIn(used, ptr, D2)
    BY <2>1, <2>3, OwnedKeep
  <2>5. OwnedIn(used', ptr', dinode')
    BY <1>3, <2>2, <2>4
  <2> QED BY <1>20, <2>5, OwnedNext
<1>31. Pends' = Pends
  <2>1. ASSUME NEW q \in Procs PROVE Pends'[q] = Pends[q]
    <3>1. CASE q # p
      BY <1>15, <1>18, <3>1, PendsOthers
    <3>2. CASE q = p
      <4>1. loc[p].call # "linkto" /\ loc[p].pc # "erased" /\ loc'[p].call # "linkto" /\ loc'[p].pc # "erased"
        BY <1>1, <1>3, <1>9, <1>12, <1>15 DEF Creates
      <4> QED BY <3>2, <4>1, PendsIs
    <3> QED BY <3>1, <3>2
  <2> QED BY <2>1 DEF Pends
<1>32. LinksInv'
  <2>1. PICK E, T, N, T2, N2, P, v : /\ E = Ents /\ T = Types /\ N = Nlinks /\ P = Pends
                                     /\ T2 = Types' /\ N2 = Nlinks' /\ v = d.type
    OBVIOUS
  <2>2. N \in [Inums -> Int] /\ N2 \in [Inums -> Int] /\ LinkOK(E, T, P, N)
    BY <1>20, <2>1, DiskFns DEF DiskInv, LinksInv
  <2>3. T[i] = "none" /\ i \in Inums /\ v # "none"
    BY <1>8, <1>13, <2>1 DEF Types
  <2>4. PendIn(P, i) = {}
    BY <1>19, <2>1 DEF PendIn
  <2>5. Bare(E, i)
    BY <1>8, <2>1, EntsIs DEF Bare
  <2>6. EntsIn(E)
    BY <2>1, EntsInums DEF EntsIn
  <2>7. Becomes(T, T2, i, v)
    BY <1>14, <1>20, <2>1, DiskFns DEF Becomes
  <2>8. Becomes(N, N2, i, 0)
    BY <1>13, <1>14, <1>20, <2>1, DiskFns DEF Becomes
  <2>9. LinkOK(E, T2, P, N2)
    BY <2>2, <2>3, <2>4, <2>5, <2>6, <2>7, <2>8, LinksAlloc
  <2> QED BY <1>22, <1>31, <2>1, <2>9 DEF LinksInv
<1>33. OnlyWhenFull'
  BY <1>3 DEF DiskInv, OnlyWhenFull
<1>34. UpInv'
  <2>1. d.addrs[0] = 0
    BY <1>13, DirectIn DEF NoAddrs
  <2>2. \A x \in Inums : dinode'[x].type = "dir" =>
            \/ /\ dinode[x].type = "dir" /\ dinode'[x].addrs[0] = dinode[x].addrs[0]
               /\ dinode[x].addrs[0] # 0 => dirent'[dinode[x].addrs[0]][".."] = dirent[dinode[x].addrs[0]][".."]
            \/ dinode[x].type = "none" /\ dinode'[x].addrs[0] = 0
    BY <1>3, <1>8, <1>14, <2>1
  <2> QED BY <1>21, <2>2, UpStep
<1> QED BY <1>25, <1>26, <1>27, <1>29, <1>30, <1>32, <1>33, <1>34 DEF DiskInv

\* A new block is given to inode i.
Grows(P, D, P2, D2, i, b) ==
    /\ \A x : x \in BlocksIn(P2, D2[i]) <=> x \in BlocksIn(P, D[i]) \/ x = b
    /\ \A j \in Inums : j # i => BlocksIn(P2, D2[j]) = BlocksIn(P, D[j])

LEMMA OwnedGrow ==
    ASSUME NEW U, NEW P, NEW D, OwnedIn(U, P, D), NEW D2, NEW P2, NEW i \in Inums, NEW b, b \notin U,
           Grows(P, D, P2, D2, i, b), NEW U2, U2 = U \cup {b}
    PROVE  OwnedIn(U2, P2, D2)
<1> USE DEF Grows
<1>1. ASSUME NEW x PROVE x \in U2 <=> \E j \in Inums : x \in BlocksIn(P2, D2[j])
  BY DEF OwnedIn
<1>2. ASSUME NEW j \in Inums, NEW k \in Inums, NEW x, j # k, x \in BlocksIn(P2, D2[j]), x \in BlocksIn(P2, D2[k])
      PROVE  FALSE
  <2>1. \A h \in Inums : b \notin BlocksIn(P, D[h])
    BY DEF OwnedIn
  <2>2. ~(x \in BlocksIn(P, D[j]) /\ x \in BlocksIn(P, D[k]))
    BY <1>2 DEF OwnedIn
  <2>3. CASE j = i
    BY <1>2, <2>1, <2>2, <2>3
  <2>4. CASE k = i
    BY <1>2, <2>1, <2>2, <2>4
  <2>5. CASE j # i /\ k # i
    BY <1>2, <2>2, <2>5
  <2> QED BY <2>3, <2>4, <2>5
<1> QED BY <1>1, <1>2 DEF OwnedIn

\* The directory, which has a block of its own, and what it and a new one hold
\* when the name n has been entered.
LEMMA InitEntries ==
    ASSUME DiskOK, NEW a \in Blocks, NEW b, NEW dir \in BOOLEAN, dir => b \in Blocks /\ b # a, NEW n \in Names,
           NEW i \in Inums, NEW j \in Inums, NEW F,
           F = IF dir THEN With(Entered(dirent, a, n, i), b, NewDir(i, j)) ELSE Entered(dirent, a, n, i)
    PROVE  /\ dir => F[b]["."] = i /\ F[b][".."] = j /\ \A m \in Names : F[b][m] = 0
           /\ F[a][n] = i
           /\ \A x \in Blocks, m \in Elems : ~(dir /\ x = b) /\ ~(x = a /\ m = n) => F[x][m] = dirent[x][m]
<1>1. PICK G : G = Entered(dirent, a, n, i)
  OBVIOUS
<1>2. n \in Elems
  BY DEF Elems
<1>3. /\ G[a][n] = i /\ DOMAIN G = Blocks
      /\ \A x \in Blocks, m \in Elems : ~(x = a /\ m = n) => G[x][m] = dirent[x][m]
  BY <1>1, <1>2 DEF Entered, DiskOK
<1>4. i \in 0 .. NInodes /\ j \in 0 .. NInodes
  BY DEF Inums
<1>5. PICK H : H = NewDir(i, j)
  OBVIOUS
<1>6. H["."] = i /\ H[".."] = j /\ \A m \in Names : H[m] = 0
  BY <1>4, <1>5, NewDirIn
<1>7. F = IF dir THEN With(G, b, H) ELSE G
  BY <1>1, <1>5
<1>8. dir => F[b] = H /\ \A x \in Blocks : x # b => F[x] = G[x]
  BY <1>3, <1>7 DEF With
<1>9. ~dir => F = G
  BY <1>7
<1> QED BY <1>3, <1>6, <1>8, <1>9

LEMMA CreateInitDisk ==
    ASSUME CacheInv, CacheInv', DiskInv, NEW p \in Procs, CreateInit(p)
    PROVE  DiskInv'
<1>1. PICK s, t, dir, b, i, j :
         /\ s = loc[p].ip /\ t = loc[p].dp /\ dir = (loc[p].call = "mkdir") /\ b = FreeBlock
         /\ i = inode[s].inum /\ j = inode[t].inum
  OBVIOUS
<1>2. PICK d, e, n : d = InitD(Content(s), dir, b) /\ e = InitE(inode[t].d, dir) /\ n = Head(loc[p].path)
  OBVIOUS
<1>3. /\ loc[p].puts = <<>> /\ loc[p].pc = "new" /\ Locks(s)
      /\ dir => used # Blocks
      /\ used' = IF dir THEN used \cup {b} ELSE used
      /\ ptr' = IF dir THEN [ptr EXCEPT ![b] = NoPtrs] ELSE ptr
      /\ cwd' = cwd /\ ofile' = ofile /\ panic' = panic
  BY <1>1, Zenon DEF CreateInit, At
<1>4. /\ dinode' = Update(Update(dinode, s, d), t, e)
      /\ inode' = Store(Store(inode, s, d), t, e)
  BY <1>1, <1>2, Zenon DEF CreateInit, InitD, InitE
<1>5. PICK x, c : x = <<t>> /\ c = "created"
  BY Zenon
<1>6. PICK m : m = Leaves(loc[p], c, x)
  OBVIOUS
<1>7. loc' = [loc EXCEPT ![p] = m]
  BY <1>1, <1>5, <1>6, Unpack, Zenon DEF CreateInit, ProcsOK, Leaves
<1>8. /\ s \in Slots /\ t \in Slots /\ s # t /\ inode[s].ref > 0 /\ inode[t].ref > 0
      /\ lock[s] = NoProc /\ lock[t] = p /\ Content(s) \in DInode /\ Content(s) = dinode[i]
      /\ inode[t].d \in DInode /\ inode[t].d = dinode[j] /\ i \in Inums /\ j \in Inums
      /\ Content(s).type # "none" /\ inode[t].d.type # "none"
  BY <1>1, <1>3, TwoSlots
<1>9. dir \in BOOLEAN /\ (dir => b \in Blocks /\ b \notin used)
  BY <1>1, <1>3, FreeBlockIn, Unpack DEF DiskOK
<1>10. /\ m.put = "test" /\ m.pc = "created" /\ m.ip = s /\ m.dp = 0 /\ m.puts = <<t>>
       /\ m.call = loc[p].call /\ m.path = loc[p].path
  <2>1. c \in HeldIp /\ loc[p].pc \in {"new", "remove"} /\ x = <<loc[p].dp>> /\ loc[p].puts = <<>>
    BY <1>1, <1>3, <1>5 DEF HeldIp
  <2>2. m.put = "test" /\ m.pc = c /\ m.ip = loc[p].ip /\ m.call = loc[p].call /\ m.path = loc[p].path
    BY <1>3, <1>6, <2>1, LeavesOK
  <2>3. loc[p] \in Locals
    BY <1>3, AtFacts
  <2>4. m.dp = 0 /\ m.puts = x
    BY <1>6, <2>3 DEF Locals, Leaves
  <2> QED BY <1>1, <1>5, <2>2, <2>4
<1>11. /\ dinode[i] = Fresh(loc[p].call) /\ \A q \in Procs : q # p => ~New(loc[q], s)
       /\ n \in Names /\ Ents[j][n] = 0 /\ dinode[j].type = "dir"
  <2>1. ProcInv(p)
    BY DEF DiskInv, ProcsInv
  <2> HIDE DEF Ents
  <2> QED BY <1>1, <1>2, <1>3, <2>1 DEF ProcInv, Ino, HasDp
<1>12. /\ dinode[i].type # "none" /\ dinode[i].nlink = 0 /\ dinode[i].addrs = NoAddrs
       /\ (dinode[i].type = "dir" <=> dir)
  <2>1. PICK k, y : k = loc[p].call /\ y = dinode[i]
    OBVIOUS
  <2>2. y = Fresh(k)
    BY <1>11, <2>1
  <2>3. /\ y.type \in {"dir", "file", "dev"} /\ y.nlink = 0 /\ y.addrs = NoAddrs
        /\ (y.type = "dir" <=> k = "mkdir")
    BY <2>2, FreshIn
  <2> QED BY <1>1, <2>1, <2>3
<1>13. /\ d \in DInode /\ d.type = dinode[i].type /\ d.nlink = 1 /\ d.addrs = [NoAddrs EXCEPT ![0] = IF dir THEN b ELSE 0]
  <2>1. PICK y \in DInode : y = Content(s)
    BY <1>8
  <2>2. dir \in BOOLEAN /\ (dir => b \in Blocks)
    BY <1>9
  <2>3. InitD(y, dir, b) \in DInode /\ InitD(y, dir, b).type = y.type
    BY <2>2, InitIn, ZenonT(40)
  <2>4. InitD(y, dir, b).nlink = 1 /\ InitD(y, dir, b).addrs = [y.addrs EXCEPT ![0] = IF dir THEN b ELSE 0]
    BY DEF InitD, DInode
  <2> QED BY <1>2, <1>8, <1>12, <2>1, <2>3, <2>4
<1>14. /\ e \in DInode /\ e.type = dinode[j].type /\ e.addrs = dinode[j].addrs
       /\ e.nlink = IF dir THEN dinode[j].nlink + 1 ELSE dinode[j].nlink
  <2>1. PICK y \in DInode : y = inode[t].d
    BY <1>8
  <2>2. /\ InitE(y, dir) \in DInode /\ InitE(y, dir).type = y.type /\ InitE(y, dir).addrs = y.addrs
        /\ InitE(y, dir).nlink = IF dir THEN y.nlink + 1 ELSE y.nlink
    BY <1>9, InitIn
  <2> QED BY <1>2, <1>8, <2>1, <2>2
<1>15. /\ SameRefs(inode') /\ dinode'[i] = d /\ dinode'[j] = e /\ i # j
       /\ \A y \in Inums : y # i /\ y # j => dinode'[y] = dinode[y]
  <2>1. PICK D, k : D = dinode' /\ k = inode'
    OBVIOUS
  <2>2. D = Update(Update(dinode, s, d), t, e) /\ k = Store(Store(inode, s, d), t, e)
    BY <1>4, <2>1
  <2>3. s \in Slots /\ t \in Slots /\ s # t /\ inode[s].ref > 0 /\ inode[t].ref > 0 /\ d.type # "none" /\ e.type # "none"
    BY <1>8, <1>12, <1>13, <1>14
  <2>4. /\ SameRefs(k) /\ D[inode[s].inum] = d /\ D[inode[t].inum] = e /\ inode[s].inum # inode[t].inum
        /\ \A h \in Inums : h # inode[s].inum /\ h # inode[t].inum => D[h] = dinode[h]
    BY <1>13, <1>14, <2>2, <2>3, TwoStores, SMTT(30)
  <2> QED BY <1>1, <2>1, <2>4
<1>16. ASSUME NEW y \in Inums, y # i
       PROVE  dinode'[y].type = dinode[y].type /\ dinode'[y].addrs = dinode[y].addrs
  BY <1>14, <1>15, <1>16
<1>17. \A y \in Inums : dinode'[y].type = dinode[y].type
  BY <1>13, <1>15, <1>16
<1>18. Steady(p) /\ loc'[p] = m
  BY <1>3, <1>7, SteadyLoc
<1>19. Keeps /\ Gains(p) /\ \A y \in Slots : inode'[y].inum = inode[y].inum /\ inode'[y].ref = inode[y].ref
  BY <1>15, SameKeeps DEF SameRefs
<1>20. DiskOK /\ DiskOK' /\ OwnedIn(used, ptr, dinode)
  BY OwnedIs DEF CacheInv, DiskInv
<1>21. PICK a : a = dinode[j].addrs[0]
  OBVIOUS
<1>22. loc[p].put = "test" /\ Sound(j)
  BY <1>1, <1>3, <1>8, AtSound DEF Slots
<1>23. a # 0 /\ a \in Blocks /\ a \in BlocksIn(ptr, dinode[j]) /\ a \in used
  <2>1. a # 0
    BY <1>8, <1>11, <1>21, <1>22, SoundDir
  <2>2. a \in Blocks /\ a \in BlocksIn(ptr, dinode[j])
    BY <1>8, <1>20, <1>21, <2>1, DirBlock
  <2> QED BY <1>8, <1>20, <2>1, <2>2 DEF OwnedIn
<1>24. /\ dir => dirent'[b]["."] = i /\ dirent'[b][".."] = j /\ \A y \in Names : dirent'[b][y] = 0
       /\ dirent'[a][n] = i
       /\ \A z \in Blocks, y \in Elems : ~(dir /\ z = b) /\ ~(z = a /\ y = n) => dirent'[z][y] = dirent[z][y]
  <2>1. dirent' = IF dir THEN With(Entered(dirent, e.addrs[0], n, i), b, NewDir(i, j))
                  ELSE Entered(dirent, e.addrs[0], n, i)
    <3>1. dirent' = IF loc[p].call = "mkdir"
                    THEN With(Entered(dirent, InitE(inode[loc[p].dp].d, loc[p].call = "mkdir").addrs[0],
                                      Head(loc[p].path), inode[loc[p].ip].inum),
                              FreeBlock, NewDir(inode[loc[p].ip].inum, inode[loc[p].dp].inum))
                    ELSE Entered(dirent, InitE(inode[loc[p].dp].d, loc[p].call = "mkdir").addrs[0],
                                 Head(loc[p].path), inode[loc[p].ip].inum)
      BY Zenon DEF CreateInit, With, Entered, NewDir, InitE
    <3> QED BY <1>1, <1>2, <3>1, Zenon
  <2>2. PICK F : F = dirent'
    OBVIOUS
  <2>3. F = IF dir THEN With(Entered(dirent, a, n, i), b, NewDir(i, j)) ELSE Entered(dirent, a, n, i)
    BY <1>14, <1>21, <2>1, <2>2
  <2>4. dir => b \in Blocks /\ b # a
    BY <1>9, <1>23
  <2>5. /\ dir => F[b]["."] = i /\ F[b][".."] = j /\ \A y \in Names : F[b][y] = 0
        /\ F[a][n] = i
        /\ \A z \in Blocks, y \in Elems : ~(dir /\ z = b) /\ ~(z = a /\ y = n) => F[z][y] = dirent[z][y]
    BY <1>8, <1>9, <1>11, <1>20, <1>23, <2>3, <2>4, InitEntries
  <2> QED BY <2>2, <2>5
<1>25. d.addrs[0] = IF dir THEN b ELSE 0
  BY <1>13, DirectIn DEF NoAddrs
<1>26. ASSUME NEW y \in Inums, NEW z, z = dinode[y].addrs[0], z # 0
       PROVE  z \in Blocks /\ ~(dir /\ z = b) /\ (y # j => z # a)
  <2>1. z \in Blocks /\ z \in BlocksIn(ptr, dinode[y])
    BY <1>20, <1>26, DirBlock
  <2>2. z \in used
    BY <1>20, <2>1 DEF OwnedIn
  <2>3. y # j => z # a
    BY <1>8, <1>20, <1>23, <2>1 DEF OwnedIn
  <2> QED BY <1>9, <2>1, <2>2, <2>3
<1>27. ASSUME NEW y \in Inums, NEW h \in Names
       PROVE  Ents'[y][h] = IF y = j /\ h = n THEN i ELSE Ents[y][h]
  <2>0. h \in Elems
    BY DEF Elems
  <2>1. CASE y = i
    <3>1. Ents[i][h] = 0
      <4>1. dinode[i].addrs[0] = 0
        BY <1>12, DirectIn DEF NoAddrs
      <4> QED BY <1>8, <4>1, EntsIs DEF Lookup
    <3>2. Ents'[i][h] = 0
      <4>1. CASE dir
        <5>1. dinode'[i].addrs[0] = b
          BY <1>15, <1>25, <4>1
        <5>2. Lookup(dinode[i], h)' = 0
          BY <1>24, <4>1, <5>1 DEF Lookup
        <5> QED BY <1>8, <5>2, EntsIs
      <4>2. CASE ~dir
        <5>1. dinode'[i].type # "dir"
          BY <1>12, <1>13, <1>15, <4>2
        <5> QED BY <1>8, <5>1, EntsIs
      <4> QED BY <1>9, <4>1, <4>2
    <3> QED BY <1>15, <2>1, <3>1, <3>2
  <2>2. CASE y = j /\ h = n
    <3>1. dinode'[j].addrs[0] = a /\ dinode'[j].type = "dir"
      BY <1>11, <1>14, <1>15, <1>21
    <3>2. Lookup(dinode[j], n)' = i
      BY <1>23, <1>24, <3>1 DEF Lookup
    <3> QED BY <1>8, <1>11, <2>2, <3>1, <3>2, EntsIs
  <2>3. CASE y # i /\ ~(y = j /\ h = n)
    <3>1. PICK z : z = dinode[y].addrs[0]
      OBVIOUS
    <3>2. dinode'[y].type = dinode[y].type /\ dinode'[y].addrs[0] = z
      BY <1>16, <2>3, <3>1
    <3>3. z # 0 => dirent'[z][h] = dirent[z][h]
      BY <1>24, <1>26, <2>0, <2>3, <3>1
    <3>4. Ents'[y][h] = Ents[y][h]
      BY <3>1, <3>2, <3>3, EntsKept
    <3> QED BY <2>3, <3>4
  <2> QED BY <2>1, <2>2, <2>3
<1>28. Changes(Ents, Ents', j, n, i)
  BY <1>27 DEF Changes
<1>29. Clear(p, i)
  <2>1. SUFFICES ASSUME NEW q \in Procs, NEW z \in Slots, q # p, New(loc[q], z) \/ Freeing(loc[q], z)
                 PROVE  inode[z].inum # i
    BY DEF Clear
  <2>2. CASE New(loc[q], z)
    <3>1. z # s
      BY <1>11, <2>1, <2>2
    <3>2. inode[z].ref > 0
      BY <2>2, NewIs, PointsRef DEF New
    <3> QED BY <1>1, <1>8, <3>1, <3>2, SameSlot
  <2>3. CASE Freeing(loc[q], z)
    <3>1. lock[z] = q /\ inode[z].ref > 0
      BY <2>3, FreeingIs, PointsRef DEF Freeing
    <3>2. z # s
      BY <1>8, <3>1, FsAssumption
    <3> QED BY <1>1, <1>8, <3>1, <3>2, SameSlot
  <2> QED BY <2>1, <2>2, <2>3
<1>30. \A y \in Inums : dinode'[y] # dinode[y] => Clear(p, y)
  BY <1>15, <1>22, <1>29, SoundClear
<1>31. ProcsInv
  BY DEF DiskInv
<1>32. NamesKept(p)
  BY <1>1, <1>8, <1>28, <1>31, NamesLocked
<1>33. ASSUME NEW q \in Procs, q # p PROVE ProcInv(q)'
  <2>1. \A z \in Slots : Leads(q, z) => dinode'[inode[z].inum].type = Ino(z).type
    <3>1. ASSUME NEW z \in Slots, Leads(q, z) PROVE inode[z].inum \in Inums
      BY <3>1, LeadsPoints, PointsRef
    <3> QED BY <1>17, <3>1 DEF Ino
  <2>2. \A z \in Slots : New(loc'[p], z) => ~Leads(q, z) /\ ~New(loc[q], z)
    BY <1>10, <1>18 DEF New
  <2>3. \A z \in Slots : inode'[z].ref > inode[z].ref => Clear(p, inode'[z].inum)
    BY <1>19, Unpack
  <2>4. loc[q].pc \in {"new", "remove"} =>
           Ents'[inode[loc[q].dp].inum][Head(loc[q].path)] = Ents[inode[loc[q].dp].inum][Head(loc[q].path)]
    BY <1>32, <1>33 DEF NamesKept
  <2> QED BY <1>18, <1>19, <1>30, <1>31, <1>33, <2>1, <2>2, <2>3, <2>4, OthersStep
<1>34. ProcInv(p)'
  <2>1. ASSUME NEW z \in Slots, Leads(p, z)' PROVE Solid(z)'
    <3>1. ASSUME NEW q \in Procs PROVE ~New(loc'[q], z) \/ (q # p /\ New(loc[q], z))
      BY <1>10, <1>18 DEF New, Steady
    <3>2. CASE z = s
      <4>1. dinode'[inode'[z].inum].type # "none"
        BY <1>1, <1>8, <1>12, <1>13, <1>15, <1>19, <3>2
      <4>2. \A q \in Procs : ~New(loc'[q], z)
        BY <1>11, <3>1, <3>2
      <4> QED BY <4>1, <4>2, SMTT(30) DEF Solid, Ino, New
    <3>3. CASE z # s
      <4>1. cwd[p] = z \/ ofile[p] = z \/ loc[p].dp = z
        BY <1>1, <1>3, <1>10, <1>18, <2>1, <3>3 DEF Leads, Slots
      <4>2. Leads(p, z)
        BY <4>1 DEF Leads
      <4>3. Solid(z) /\ inode[z].inum \in Inums
        BY <1>31, <4>2, LeadsPoints, PointsRef DEF ProcsInv, ProcInv
      <4>4. dinode'[inode'[z].inum].type # "none"
        BY <1>17, <1>19, <4>3 DEF Solid, Ino
      <4>5. \A q \in Procs : ~New(loc'[q], z)
        BY <3>1, <4>3 DEF Solid
      <4> QED BY <4>4, <4>5 DEF Solid, Ino, New
    <3> QED BY <3>2, <3>3
  <2>2. loc[p].call # "linkto"
    <3>1. Shape(loc[p])
      BY <1>3, AtFacts
    <3> QED BY <1>3, <3>1 DEF Shape, Creates
  <2>3. Fits(p)
    BY <1>10, <1>18, <2>2 DEF Fits, HasDp, Parent
  <2> QED BY <2>1, <2>3, SelfFits
<1>35. ProcsInv'
  BY <1>33, <1>34 DEF ProcsInv
<1>36. NullInv'
  BY <1>8, <1>12, <1>13, <1>14, <1>15 DEF NullInv, DiskInv
<1>37. DirInv'
  <2>1. SUFFICES ASSUME NEW y \in Inums, dinode'[y].type = "dir"
                 PROVE  IF dinode'[y].addrs[0] # 0 THEN dirent'[dinode'[y].addrs[0]]["."] = y
                        ELSE \E q \in Procs : loc'[q].pc = "new" /\ inode'[loc'[q].ip].inum = y
    BY DEF DirInv
  <2>2. CASE y = i
    <3>1. dir
      BY <1>12, <1>13, <1>15, <2>1, <2>2
    <3>2. dinode'[y].addrs[0] = b /\ b # 0
      BY <1>9, <1>15, <1>25, <2>2, <3>1 DEF Blocks
    <3> QED BY <1>24, <2>2, <3>1, <3>2
  <2>3. CASE y # i
    <3>1. PICK z : z = dinode[y].addrs[0]
      OBVIOUS
    <3>2. dinode[y].type = "dir" /\ dinode'[y].addrs[0] = z
      BY <1>16, <2>1, <2>3, <3>1
    <3>3. CASE z # 0
      <4>1. dirent[z]["."] = y
        BY <3>1, <3>2, <3>3 DEF DiskInv, DirInv
      <4>2. "." \in Elems /\ n # "."
        BY <1>11, FsAssumption DEF Elems, Dots
      <4>3. dirent'[z]["."] = dirent[z]["."]
        BY <1>24, <1>26, <3>1, <3>3, <4>2
      <4> QED BY <3>2, <3>3, <4>1, <4>3
    <3>4. CASE z = 0
      <4>1. PICK q \in Procs : loc[q].pc = "new" /\ inode[loc[q].ip].inum = y
        BY <3>1, <3>2, <3>4 DEF DiskInv, DirInv
      <4>2. q # p
        BY <1>1, <2>3, <4>1
      <4>3. loc'[q].pc = "new" /\ inode'[loc'[q].ip].inum = y
        BY <1>18, <1>19, <4>1, <4>2, NewKept
      <4> QED BY <3>2, <3>4, <4>3
    <3> QED BY <3>3, <3>4
  <2> QED BY <2>2, <2>3
<1>38. ASSUME NEW y \in Inums, y # i
       PROVE  /\ BlocksIn(ptr', dinode'[y]) = BlocksIn(ptr, dinode[y])
              /\ \A h : Filled(ptr, dinode[y], h) => Filled(ptr', dinode'[y], h)
  <2>1. PICK f, g, P2 : f = dinode[y] /\ g = dinode'[y] /\ P2 = ptr'
    OBVIOUS
  <2>2. g.addrs = f.addrs
    BY <1>16, <1>38, <2>1
  <2>3. ASSUME f.addrs[NDIRECT] # 0 PROVE P2[f.addrs[NDIRECT]] = ptr[f.addrs[NDIRECT]]
    <3>1. PICK z : z = f.addrs[NDIRECT]
      OBVIOUS
    <3>2. f \in DInode
      BY <1>20, <2>1 DEF DiskOK
    <3>3. z \in Blocks
      BY <2>3, <3>1, <3>2, AddrsIn, DirectIn
    <3>4. z \in BlocksIn(ptr, f)
      <4>1. z \in Nat /\ z # 0
        BY <3>3 DEF Blocks
      <4> QED BY <3>1, <4>1, DirectIn DEF BlocksIn
    <3>5. z \in used
      BY <1>20, <2>1, <3>4 DEF OwnedIn
    <3>6. ~(dir /\ z = b)
      BY <1>9, <3>5
    <3> QED BY <1>3, <1>9, <1>20, <2>1, <3>1, <3>3, <3>6 DEF DiskOK
  <2>4. BlocksIn(P2, g) = BlocksIn(ptr, f) /\ \A h : Filled(ptr, f, h) => Filled(P2, g, h)
    BY <2>2, <2>3, BlocksSame
  <2> QED BY <2>1, <2>4
<1>39. /\ \A z : z \notin BlocksIn(ptr, dinode[i])
       /\ \A z : z \in BlocksIn(ptr', dinode'[i]) <=> dir /\ z = b
       /\ \E h \in 0 .. NDIRECT + NINDIRECT : Filled(ptr', dinode'[i], h)
  <2>1. PICK f, P2 : f = dinode[i] /\ P2 = ptr'
    OBVIOUS
  <2>2. f \in DInode /\ f.addrs = NoAddrs
    BY <1>8, <1>12, <2>1
  <2>3. (\A z : z \notin BlocksIn(ptr, f)) /\ Filled(ptr, f, 0)
    BY <2>2, NoBlocks
  <2>4. CASE dir
    <3>1. d.addrs = [f.addrs EXCEPT ![0] = b] /\ b \in Blocks
      BY <1>9, <1>13, <2>2, <2>4
    <3>2. 0 \in Nat /\ 0 < NDIRECT
      BY FsAssumption
    <3>3. PICK o : o = 0
      OBVIOUS
    <3>4. o \in Nat /\ o < NDIRECT /\ Filled(ptr, f, o) /\ d.addrs = [f.addrs EXCEPT ![o] = b]
      BY <2>3, <3>1, <3>2, <3>3
    <3>5. (\A z : z \in BlocksIn(P2, d) <=> z \in BlocksIn(ptr, f) \/ z = b) /\ Filled(P2, d, o + 1)
      BY <2>2, <3>1, <3>4, GrownDirect
    <3>6. o + 1 \in 0 .. NDIRECT + NINDIRECT
      BY <3>3, FsAssumption
    <3> QED BY <1>15, <2>1, <2>3, <2>4, <3>5, <3>6
  <2>5. CASE ~dir
    <3>1. d.addrs = NoAddrs
      BY <1>13, <2>5 DEF NoAddrs
    <3>2. (\A z : z \notin BlocksIn(P2, d)) /\ Filled(P2, d, 0)
      BY <3>1, NoBlocks
    <3>3. 0 \in 0 .. NDIRECT + NINDIRECT
      BY FsAssumption
    <3> QED BY <1>15, <2>1, <2>3, <2>5, <3>2, <3>3
  <2> QED BY <1>9, <2>4, <2>5
<1>40. FilledInv'
  <2>1. SUFFICES ASSUME NEW y \in Inums PROVE \E h \in 0 .. NDIRECT + NINDIRECT : Filled(ptr', dinode'[y], h)
    BY DEF FilledInv, Filled
  <2>2. CASE y = i
    BY <1>39, <2>2
  <2>3. CASE y # i
    <3>1. PICK h \in 0 .. NDIRECT + NINDIRECT : Filled(ptr, dinode[y], h)
      BY DEF DiskInv, FilledInv
    <3> QED BY <1>38, <2>3, <3>1
  <2> QED BY <2>2, <2>3
<1>41. OneOwner'
  <2>1. PICK D2, P2, U2 : D2 = dinode' /\ P2 = ptr' /\ U2 = used'
    OBVIOUS
  <2>2. \A y \in Inums : y # i => BlocksIn(P2, D2[y]) = BlocksIn(ptr, dinode[y])
    BY <1>38, <2>1
  <2>3. CASE dir
    <3>1. \A z : z \in BlocksIn(P2, D2[i]) <=> z \in BlocksIn(ptr, dinode[i]) \/ z = b
      BY <1>39, <2>1, <2>3
    <3>2. U2 = used \cup {b} /\ i \in Inums /\ OwnedIn(used, ptr, dinode)
      BY <1>3, <1>8, <1>20, <2>1, <2>3
    <3>3. b \notin used /\ Grows(ptr, dinode, P2, D2, i, b)
      BY <1>9, <2>2, <2>3, <3>1 DEF Grows
    <3>4. OwnedIn(U2, P2, D2)
      BY <3>2, <3>3, OwnedGrow
    <3>5. OwnedIn(used', ptr', dinode')
      BY <2>1, <3>4
    <3> QED BY <1>20, <3>5, OwnedNext
  <2>4. CASE ~dir
    <3>1. P2 = ptr /\ U2 = used
      BY <1>3, <2>1, <2>4
    <3>2. BlocksIn(ptr, D2[i]) = BlocksIn(ptr, dinode[i])
      BY <1>39, <2>1, <2>4, <3>1
    <3>3. \A y \in Inums : BlocksIn(ptr, D2[y]) = BlocksIn(ptr, dinode[y])
      BY <2>2, <3>1, <3>2
    <3>4. OwnedIn(used, ptr, D2)
      BY <1>20, <3>3, OwnedKeep
    <3>5. OwnedIn(used', ptr', dinode')
      BY <2>1, <3>1, <3>4
    <3> QED BY <1>20, <3>5, OwnedNext
  <2> QED BY <1>9, <2>3, <2>4
<1>42. Pends' = Pends
  <2>1. ASSUME NEW q \in Procs PROVE Pends'[q] = Pends[q]
    <3>1. CASE q # p
      BY <1>18, <1>19, <3>1, PendsOthers
    <3>2. CASE q = p
      <4>1. Shape(loc[p])
        BY <1>3, AtFacts
      <4>2. loc[p].call # "linkto" /\ loc[p].pc # "erased" /\ loc'[p].call # "linkto" /\ loc'[p].pc # "erased"
        BY <1>3, <1>10, <1>18, <4>1 DEF Creates, Shape
      <4> QED BY <3>2, <4>2, PendsIs
    <3> QED BY <3>1, <3>2
  <2> QED BY <2>1 DEF Pends
<1>43. LinksInv'
  <2>1. PICK E, E2, T, N, N2, P : /\ E = Ents /\ T = Types /\ N = Nlinks /\ P = Pends
                                  /\ E2 = Ents' /\ N2 = Nlinks'
    OBVIOUS
  <2>2. N \in [Inums -> Int] /\ N2 \in [Inums -> Int] /\ LinkOK(E, T, P, N)
    BY <1>20, <2>1, DiskFns DEF DiskInv, LinksInv
  <2>3. T[i] # "none" /\ i \in Inums /\ N[i] = 0 /\ (T[i] = "dir" <=> dir)
    BY <1>8, <1>12, <2>1 DEF Types, Nlinks
  <2>4. Changes(E, E2, j, n, i) /\ E[j][n] = 0 /\ j \in Inums /\ n \in Names /\ j # i
    BY <1>8, <1>11, <1>15, <1>28, <2>1
  <2>5. N2[i] = 1 /\ \A y \in Inums : y # i => N2[y] = IF y = j /\ T[i] = "dir" THEN N[y] + 1 ELSE N[y]
    <3>1. N2[i] = 1 /\ N2[j] = IF dir THEN N[j] + 1 ELSE N[j]
      BY <1>8, <1>13, <1>14, <1>15, <1>20, <2>1, DiskFns
    <3>2. \A y \in Inums : y # i /\ y # j => N2[y] = N[y]
      BY <1>15, <1>20, <2>1, DiskFns
    <3> QED BY <2>3, <3>1, <3>2
  <2>6. InitCounts(N, N2, i, j, T[i] = "dir")
    BY <2>5 DEF InitCounts
  <2>7. LinkOK(E2, T, P, N2)
    BY <2>2, <2>3, <2>4, <2>6, LinksInit
  <2>8. Types' = T
    BY <1>17, <2>1 DEF Types
  <2> QED BY <1>42, <2>1, <2>7, <2>8 DEF LinksInv
<1>44. OnlyWhenFull'
  BY <1>3 DEF DiskInv, OnlyWhenFull
<1>45. ASSUME NEW y \in Inums, y # i, dinode'[y].type = "dir", dinode'[y].addrs[0] # 0
       PROVE  dinode[y].type = "dir" /\ dinode[y].addrs[0] # 0 /\ Up(y)' = Up(y)
  <2>1. PICK z : z = dinode[y].addrs[0]
    OBVIOUS
  <2>2. dinode[y].type = "dir" /\ dinode'[y].addrs[0] = z /\ z # 0
    BY <1>16, <1>45, <2>1
  <2>3. ".." \in Elems /\ n # ".."
    BY <1>11, FsAssumption DEF Elems, Dots
  <2>4. dirent'[z][".."] = dirent[z][".."]
    BY <1>24, <1>26, <2>1, <2>2, <2>3
  <2> QED BY <2>1, <2>2, <2>4 DEF Up
<1>46. ASSUME dinode'[i].type = "dir" PROVE Up(i)' = j
  <2>1. dir
    BY <1>12, <1>13, <1>15, <1>46
  <2>2. dinode'[i].addrs[0] = b /\ dirent'[b][".."] = j
    BY <1>15, <1>24, <1>25, <2>1
  <2> QED BY <2>2 DEF Up
<1>47. UpInv'
  <2>1. ASSUME NEW y \in Inums, dinode'[y].type = "dir", dinode'[y].addrs[0] # 0 PROVE Up(y)' # 0
    <3>1. CASE y = i
      BY <1>8, <1>46, <2>1, <3>1 DEF Inums
    <3>2. CASE y # i
      BY <1>45, <2>1, <3>2 DEF DiskInv, UpInv
    <3> QED BY <3>1, <3>2
  <2>2. ASSUME NEW k \in Inums, NEW h \in Names, NEW y, y = Ents'[k][h], y # 0, dinode'[y].type = "dir"
        PROVE  Up(y)' = k
    <3>1. CASE k = j /\ h = n
      BY <1>27, <1>46, <2>2, <3>1
    <3>2. CASE ~(k = j /\ h = n)
      <4>1. y = Ents[k][h]
        BY <1>27, <2>2, <3>2
      <4>2. y \in Inums
        BY <2>2, <4>1, EntsInums
      <4>3. dinode[y].type # "none" /\ dinode[y].nlink >= 1 /\ dinode[y].nlink # 0
        BY <4>1, <4>2, NamedLinked
      <4>4. y # i
        BY <1>12, <4>3
      <4>5. dinode[y].type = "dir" /\ dinode'[y].addrs[0] = dinode[y].addrs[0]
        BY <1>16, <2>2, <4>2, <4>4
      <4>6. Sound(y)
        BY <4>2, <4>3, LinkedSound DEF DiskInv
      <4>7. dinode[y].addrs[0] # 0
        BY <4>2, <4>5, <4>6, SoundDir
      <4>8. Up(y)' = Up(y)
        BY <1>45, <2>2, <4>2, <4>4, <4>5, <4>7
      <4>9. Up(y) = k
        BY <2>2, <4>1, <4>5 DEF DiskInv, UpInv
      <4> QED BY <4>8, <4>9
    <3> QED BY <3>1, <3>2
  <2>3. PICK E : E = Ents'
    OBVIOUS
  <2>4. \A k \in Inums, h \in Names : E[k][h] # 0 /\ dinode'[E[k][h]].type = "dir" => Up(E[k][h])' = k
    BY <2>2, <2>3
  <2> QED BY <2>1, <2>3, <2>4 DEF UpInv, Up
<1> QED BY <1>35, <1>36, <1>37, <1>40, <1>41, <1>43, <1>44, <1>47 DEF DiskInv

----------------------------------------------------------------------------
(* Panics *)

\* Nothing but the panic, the locks and the count of calls changes.
LEMMA SameDisk ==
    ASSUME DiskInv, dinode' = dinode, used' = used, dirent' = dirent, ptr' = ptr, inode' = inode,
           cwd' = cwd, ofile' = ofile, loc' = loc, panic' \in Full
    PROVE  DiskInv'
<1>1. Ents' = Ents
  BY DEF Ents, Lookup
<1>2. Types' = Types /\ Nlinks' = Nlinks /\ Pends' = Pends
  BY DEF Types, Nlinks, Pends
<1>3. \A s : Ino(s)' = Ino(s)
  BY DEF Ino
<1>4. \A s : Solid(s)' <=> Solid(s)
  BY <1>3 DEF Solid
<1>5. \A p, s : Leads(p, s)' <=> Leads(p, s)
  BY DEF Leads
<1>6. ASSUME NEW p \in Procs PROVE ProcInv(p)'
  <2>1. ProcInv(p)
    BY DEF DiskInv, ProcsInv
  <2>3. \A s \in Slots : Leads(p, s)' => Solid(s)'
    BY <1>4, <1>5, <2>1 DEF ProcInv
  <2> QED BY <1>1, <1>3, <2>1, <2>3 DEF ProcInv
<1>7. ProcsInv'
  BY <1>6 DEF ProcsInv
<1>8. NullInv' /\ DirInv'
  BY DEF DiskInv, NullInv, DirInv
<1>9. FilledInv'
  BY DEF DiskInv, FilledInv, Filled
<1>10. OneOwner'
  <2>1. OneOwner <=> OwnedAt(used, ptr, dinode)
    BY DEF OneOwner, OwnedAt, BlocksOf, BlocksAt
  <2>2. OneOwner' <=> OwnedAt(used', ptr', dinode')
    BY DEF OneOwner, OwnedAt, BlocksOf, BlocksAt
  <2> QED BY <2>1, <2>2 DEF DiskInv
<1>11. LinksInv'
  BY <1>1, <1>2 DEF DiskInv, LinksInv
<1>12. OnlyWhenFull'
  BY DEF OnlyWhenFull
<1>13. UpInv'
  BY <1>1, UpSame DEF DiskInv
<1> QED BY <1>7, <1>8, <1>9, <1>10, <1>11, <1>12, <1>13 DEF DiskInv

\* ilock meets no free inode: a pointer that is followed leads to one that is
\* allocated, ...
LEMMA NoNoType ==
    ASSUME CacheInv, DiskInv, NEW p \in Procs, NoType(p)
    PROVE  FALSE
<1>1. PICK s : s = Wants(p)
  OBVIOUS
<1>2. loc[p].puts = <<>> /\ s # 0 /\ ~inode[s].valid /\ dinode[inode[s].inum].type = "none"
  BY <1>1 DEF NoType, Locks, Content
<1>3. ProcInv(p) /\ loc[p] \in Locals
  BY <1>2, AtFacts DEF DiskInv, ProcsInv
<1>4. s = loc[p].dp \/ s = loc[p].ip
  BY <1>1, <1>2 DEF Wants
<1>5. s \in Slots
  BY <1>2, <1>3, <1>4, FsAssumption DEF Locals, Slots
<1>6. ~Leads(p, s)
  BY <1>2, <1>3, <1>5 DEF ProcInv, Solid, Ino
<1>7. s = loc[p].ip /\ loc[p].pc = "new"
  BY <1>4, <1>6 DEF Leads
<1>8. PICK c, d : c = loc[p].call /\ d = dinode[inode[s].inum]
  OBVIOUS
<1>9. d = Fresh(c)
  BY <1>3, <1>7, <1>8 DEF ProcInv, Ino
<1>10. d.type \in {"dir", "file", "dev"}
  BY <1>9, FreshIn
<1> QED BY <1>2, <1>8, <1>10

\* ... and unlink no inode without links: the name it looked up is still there.
LEMMA NoNoLink ==
    ASSUME CacheInv, DiskInv, NEW p \in Procs, NoLink(p)
    PROVE  FALSE
<1>1. PICK s, t, i, j, n : /\ s = loc[p].ip /\ t = loc[p].dp /\ i = inode[s].inum /\ j = inode[t].inum
                           /\ n = Head(loc[p].path)
  OBVIOUS
<1>2. loc[p].puts = <<>> /\ loc[p].pc = "remove" /\ Locks(s) /\ Content(s).nlink < 1
  BY <1>1 DEF NoLink, At
<1>3. Content(s) = dinode[i] /\ i \in Inums /\ j \in Inums
  BY <1>1, <1>2, TwoSlots
<1>4. ProcInv(p)
  BY DEF DiskInv, ProcsInv
<1>5. n \in Names /\ Ents[j][n] = i
  BY <1>1, <1>2, <1>4 DEF ProcInv
<1>6. dinode[i].nlink >= 1 /\ dinode[i].nlink \in Int
  BY <1>3, <1>5, NamedLinked
<1> QED BY <1>2, <1>3, <1>6

LEMMA PanicsDisk ==
    ASSUME CacheInv, DiskInv, NEW p \in Procs, Panics(p)
    PROVE  DiskInv'
<1>1. PICK m \in Faults(p) : panic' = m
  BY DEF Panics
<1>2. m # "ilock: no type" /\ m # "unlink: nlink < 1"
  BY NoNoType, NoNoLink DEF Faults
<1>3. panic' \in Full
  BY <1>1, <1>2 DEF Faults, Full
<1> QED BY <1>3, SameDisk DEF Panics, disk

----------------------------------------------------------------------------
(* What mkfs leaves *)

LEMMA MkfsIs ==
    ASSUME Init
    PROVE  /\ \A i \in Inums : i = ROOTINO => dinode[i] = MkfsInode("dir", i)
           /\ \A i \in Inums : i # ROOTINO /\ i \in MkfsBitmap => dinode[i] = MkfsInode("file", i)
           /\ \A i \in Inums : i \notin MkfsBitmap => dinode[i] = Null
           /\ ROOTINO = 1 /\ ROOTINO \in Inums /\ ROOTINO \in Blocks /\ ROOTINO \in MkfsBitmap
<1>1. ROOTINO = 1 /\ ROOTINO \in Inums /\ ROOTINO \in Blocks /\ ROOTINO \in MkfsBitmap
  BY MkfsIn DEF ROOTINO
<1>2. dinode = [i \in Inums |-> IF i = ROOTINO THEN MkfsInode("dir", i)
                                ELSE IF i \in MkfsBitmap THEN MkfsInode("file", i) ELSE Null]
  BY DEF Init
<1> HIDE DEF MkfsInode, MkfsBitmap, Null, ROOTINO
<1> QED BY <1>1, <1>2

\* An inode that mkfs writes has the block of its number.
LEMMA MkfsInodes ==
    ASSUME Init, NEW i \in Inums
    PROVE  /\ i \in MkfsBitmap => /\ i \in Blocks /\ dinode[i].nlink = 1 /\ dinode[i].type = (IF i = ROOTINO THEN "dir" ELSE "file")
                                  /\ dinode[i].addrs = [NoAddrs EXCEPT ![0] = i]
           /\ i \notin MkfsBitmap => dinode[i] = Null /\ i # ROOTINO /\ Null.type = "none" /\ Null.addrs = NoAddrs
<1>1. CASE i \in MkfsBitmap
  <2>1. i \in Blocks
    BY <1>1, MkfsIn
  <2>2. PICK t \in {"dir", "file"} : t = IF i = ROOTINO THEN "dir" ELSE "file"
    OBVIOUS
  <2>3. dinode[i] = MkfsInode(t, i)
    BY <1>1, <2>2, MkfsIs
  <2>4. MkfsInode(t, i).type = t /\ MkfsInode(t, i).nlink = 1 /\ MkfsInode(t, i).addrs = [NoAddrs EXCEPT ![0] = i]
    BY <1>1, MkfsIn
  <2> QED BY <1>1, <2>1, <2>2, <2>3, <2>4
<1>2. CASE i \notin MkfsBitmap
  <2>1. Null.type = "none" /\ Null.addrs = NoAddrs
    BY DEF Null
  <2> QED BY <1>2, <2>1, MkfsIs
<1> QED BY <1>1, <1>2

LEMMA MkfsBlocks ==
    ASSUME Init, NEW i \in Inums
    PROVE  /\ \A x : x \in BlocksIn(ptr, dinode[i]) <=> i \in MkfsBitmap /\ x = i
           /\ \E n \in 0 .. NDIRECT + NINDIRECT : Filled(ptr, dinode[i], n)
<1>1. PICK f, P, z : f = dinode[i] /\ P = ptr /\ z = Null
  OBVIOUS
<1>2. z.addrs = NoAddrs
  BY <1>1 DEF Null
<1>3. (\A x : x \notin BlocksIn(P, z)) /\ Filled(P, z, 0)
  BY <1>2, NoBlocks
<1>4. 0 \in 0 .. NDIRECT + NINDIRECT /\ 1 \in 0 .. NDIRECT + NINDIRECT
  BY FsAssumption
<1>5. CASE i \in MkfsBitmap
  <2>1. f.addrs = [z.addrs EXCEPT ![0] = i] /\ i \in Blocks
    BY <1>1, <1>2, <1>5, MkfsInodes
  <2>2. PICK o \in Nat : o = 0
    OBVIOUS
  <2>3. o < NDIRECT /\ Filled(P, z, o) /\ f.addrs = [z.addrs EXCEPT ![o] = i] /\ z \in DInode
    BY <1>1, <1>3, <2>1, <2>2, NullIn, FsAssumption
  <2>4. (\A x : x \in BlocksIn(P, f) <=> x \in BlocksIn(P, z) \/ x = i) /\ Filled(P, f, o + 1)
    BY <2>1, <2>3, GrownDirect
  <2> QED BY <1>1, <1>3, <1>4, <1>5, <2>2, <2>4
<1>6. CASE i \notin MkfsBitmap
  <2>1. f = z
    BY <1>1, <1>6, MkfsInodes
  <2> QED BY <1>1, <1>3, <1>4, <1>6, <2>1
<1> QED BY <1>5, <1>6

\* The root's entries: a name leads to the first program of that name.
LEMMA MkfsNames ==
    ASSUME Init, NEW j \in Inums, NEW n \in Names, Ents[j][n] # 0
    PROVE  /\ j = ROOTINO /\ Ents[j][n] \in MkfsBitmap /\ Ents[j][n] # ROOTINO /\ Ents[j][n] \in Inums
           /\ Programs[Ents[j][n] - 1] = n
<1>1. Ents[j][n] = Lookup(dinode[j], n) /\ dinode[j].type = "dir"
  BY EntsIs
<1>2. j = ROOTINO /\ j \in MkfsBitmap
  BY <1>1, MkfsInodes
<1>3. dinode[j].addrs[0] = 1 /\ 1 \in Blocks
  BY <1>2, MkfsInodes, MkfsIs, DirectIn DEF NoAddrs
<1>4. Ents[j][n] = MkfsRoot[n]
  BY <1>1, <1>3 DEF Lookup, Init
<1>5. PICK K : K = {k \in DOMAIN Programs : Programs[k] = n}
  OBVIOUS
<1>6. n \notin Dots
  BY FsAssumption
<1>7. MkfsRoot[n] = IF K = {} THEN 0 ELSE 1 + Min(K)
  BY <1>5, <1>6 DEF MkfsRoot
<1>8. Len(Programs) \in Nat /\ DOMAIN Programs = 1 .. Len(Programs)
  BY FsAssumption
<1>9. K # {} /\ K \subseteq Nat
  BY <1>1, <1>4, <1>5, <1>7, <1>8
<1>10. Min(K) \in K
  BY <1>9, MinIn
<1>11. PICK k \in K : k = Min(K)
  BY <1>10
<1>12. k \in 1 .. Len(Programs) /\ Programs[k] = n /\ Ents[j][n] = 1 + k
  BY <1>4, <1>5, <1>7, <1>8, <1>9, <1>11
<1>13. 1 + k \in MkfsBitmap /\ 1 + k # 1 /\ 1 + k - 1 = k
  BY <1>8, <1>12 DEF MkfsBitmap
<1>14. 1 + k \in Inums
  BY <1>13, MkfsIn
<1> QED BY <1>2, <1>12, <1>13, <1>14, MkfsIs

LEMMA MkfsLinks ==
    ASSUME Init
    PROVE  LinksInv
<1>1. PICK E, T, P, N : E = Ents /\ T = Types /\ P = Pends /\ N = Nlinks
  OBVIOUS
<1>2. ASSUME NEW j \in Inums, NEW n \in Names, E[j][n] # 0
      PROVE  /\ j = ROOTINO /\ E[j][n] \in MkfsBitmap /\ E[j][n] # ROOTINO /\ E[j][n] \in Inums
             /\ Programs[E[j][n] - 1] = n
  BY <1>1, <1>2, MkfsNames
<1>3. ASSUME NEW i \in Inums PROVE T[i] = dinode[i].type /\ N[i] = dinode[i].nlink
  BY <1>1 DEF Types, Nlinks
<1>4. ASSUME NEW i \in Inums PROVE PendIn(P, i) = {}
  <2>1. \A p \in Procs : P[p] = 0
    BY <1>1, IdleFacts DEF Init, Pends
  <2>2. i # 0
    BY DEF Inums
  <2> QED BY <2>1, <2>2 DEF PendIn
<1>5. ASSUME NEW i \in Inums PROVE SubsIn(E, T, i) = {}
  <2>1. SUFFICES ASSUME NEW n \in Names, E[i][n] # 0, T[E[i][n]] = "dir" PROVE FALSE
    BY DEF SubsIn
  <2>2. PICK k : k = E[i][n]
    OBVIOUS
  <2>3. k \in Inums /\ k \in MkfsBitmap /\ k # ROOTINO
    BY <1>2, <2>1, <2>2
  <2>4. dinode[k].type = "file"
    BY <2>3, MkfsInodes
  <2> QED BY <1>3, <2>1, <2>2, <2>3, <2>4
<1>6. ASSUME NEW i \in Inums, i \notin MkfsBitmap \/ i = ROOTINO PROVE NamesIn(E, i) = {}
  <2>1. SUFFICES ASSUME NEW x \in NamesIn(E, i) PROVE FALSE
    OBVIOUS
  <2>2. PICK j \in Inums, n \in Names : E[j][n] = i
    BY <2>1 DEF NamesIn
  <2>3. i # 0
    BY DEF Inums
  <2> QED BY <1>2, <1>6, <2>2, <2>3
<1>7. ASSUME NEW i \in Inums PROVE Cardinality(NamesIn(E, i)) \in Nat /\ Cardinality(NamesIn(E, i)) <= 1
  <2>1. PICK y : y = <<ROOTINO, Programs[i - 1]>>
    OBVIOUS
  <2>2. ASSUME NEW x \in NamesIn(E, i) PROVE x = y
    <3>1. PICK j \in Inums, n \in Names : x = <<j, n>> /\ E[j][n] = i
      BY <2>2 DEF NamesIn
    <3>2. i # 0
      BY DEF Inums
    <3>3. j = ROOTINO /\ Programs[i - 1] = n
      BY <1>2, <3>1, <3>2
    <3> QED BY <2>1, <3>1, <3>3
  <2>3. NamesIn(E, i) \subseteq {y} /\ IsFiniteSet({y}) /\ Cardinality({y}) = 1
    BY <2>2, FS_Singleton
  <2> QED BY <2>3, CardLess
<1>8. Cardinality({}) = 0
  BY FS_EmptySet
<1>9. ASSUME NEW i \in Inums
      PROVE  IF T[i] = "none" THEN i # ROOTINO /\ NamesIn(E, i) = {} ELSE Owed(E, T, P, i) <= N[i]
  <2>1. CASE i \notin MkfsBitmap
    BY <1>3, <1>6, <2>1, MkfsInodes
  <2>2. CASE i \in MkfsBitmap
    <3>1. T[i] # "none" /\ N[i] = 1
      BY <1>3, <2>2, MkfsInodes
    <3>2. Owed(E, T, P, i) = Cardinality(NamesIn(E, i)) + 0 + 0 + RootLink(i)
      BY <1>4, <1>5, <1>8 DEF Owed
    <3>3. CASE i = ROOTINO
      <4>1. Cardinality(NamesIn(E, i)) = 0 /\ RootLink(i) = 1
        BY <1>6, <1>8, <3>3 DEF RootLink
      <4> QED BY <3>1, <3>2, <4>1
    <3>4. CASE i # ROOTINO
      <4>1. RootLink(i) = 0
        BY <3>4 DEF RootLink
      <4> QED BY <1>7, <3>1, <3>2, <4>1
    <3> QED BY <3>3, <3>4
  <2> QED BY <2>1, <2>2
<1>10. LinkOK(E, T, P, N)
  BY <1>9 DEF LinkOK
<1> QED BY <1>1, <1>10 DEF LinksInv

LEMMA MkfsDisk ==
    ASSUME Init
    PROVE  DiskInv
<1>1. ASSUME NEW p \in Procs PROVE ProcInv(p)
  <2>1. loc[p] = Idle /\ cwd[p] = 1 /\ ofile[p] = 0
    BY <1>1 DEF Init
  <2>2. Idle.path = <<>> /\ Idle.pc = "idle" /\ Idle.put = "test" /\ Idle.call = "none" /\ Idle.dp = 0 /\ Idle.ip = 0 /\ Idle.puts = <<>>
    BY DEF Idle
  <2> HIDE DEF Idle
  <2>4. ASSUME NEW s \in Slots, Leads(p, s) PROVE Solid(s)
    <3>1. s # 0 /\ Len(loc[p].puts) = 0
      BY <2>1, <2>2 DEF Slots
    <3>2. s = 1
      BY <2>1, <2>2, <2>4, <3>1 DEF Leads
    <3>3. inode[s].inum = ROOTINO
      BY <3>2, InitSlots
    <3>4. Ino(s).type = "dir"
      BY <3>3, MkfsIs, MkfsInodes DEF Ino
    <3>5. \A q \in Procs : ~New(loc[q], s)
      BY <2>2 DEF Init, New
    <3> QED BY <3>4, <3>5 DEF Solid
  <2> QED BY <2>1, <2>2, <2>4 DEF ProcInv, HasDp, Parent
<1>2. ProcsInv
  BY <1>1 DEF ProcsInv
<1>3. ASSUME NEW i \in Inums, dinode[i].type = "none" PROVE dinode[i] = Null
  BY <1>3, MkfsInodes
<1>4. NullInv
  BY <1>3 DEF NullInv
<1>5. ASSUME NEW i \in Inums, dinode[i].type = "dir"
      PROVE  dinode[i].addrs[0] # 0 /\ dirent[dinode[i].addrs[0]]["."] = i
  <2>1. i = ROOTINO /\ dinode[i].addrs = [NoAddrs EXCEPT ![0] = i]
    BY <1>5, MkfsInodes
  <2>2. dinode[i].addrs[0] = 1 /\ 1 \in Blocks /\ ROOTINO = 1
    BY <2>1, DirectIn, MkfsIs DEF NoAddrs
  <2>3. dirent[1] = MkfsRoot
    BY <2>2 DEF Init
  <2>4. MkfsRoot["."] = ROOTINO
    BY DEF MkfsRoot, Dots
  <2> QED BY <2>1, <2>2, <2>3, <2>4
<1>6. DirInv
  BY <1>5 DEF DirInv
<1>7. FilledInv
  BY MkfsBlocks DEF FilledInv
<1>8. OwnedIn(used, ptr, dinode)
  <2>1. used = MkfsBitmap /\ MkfsBitmap \subseteq Inums
    BY MkfsIn DEF Init
  <2>2. ASSUME NEW i \in Inums, NEW x PROVE x \in BlocksIn(ptr, dinode[i]) <=> i \in MkfsBitmap /\ x = i
    BY MkfsBlocks
  <2>3. ASSUME NEW x PROVE x \in used <=> \E i \in Inums : x \in BlocksIn(ptr, dinode[i])
    BY <2>1, <2>2
  <2>4. ASSUME NEW i \in Inums, NEW j \in Inums, NEW x, i # j
        PROVE  ~(x \in BlocksIn(ptr, dinode[i]) /\ x \in BlocksIn(ptr, dinode[j]))
    BY <2>2, <2>4
  <2> QED BY <2>3, <2>4 DEF OwnedIn
<1>9. OneOwner
  BY <1>8, InitDisk, OwnedIs
<1>10. OnlyWhenFull
  BY DEF Init, OnlyWhenFull, Full
<1>11. UpInv
  <2>1. ASSUME NEW i \in Inums, dinode[i].type = "dir" PROVE Up(i) # 0
    <3>1. i = ROOTINO /\ dinode[i].addrs = [NoAddrs EXCEPT ![0] = i]
      BY <2>1, MkfsInodes
    <3>2. dinode[i].addrs[0] = 1 /\ 1 \in Blocks /\ ROOTINO = 1
      BY <3>1, DirectIn, MkfsIs DEF NoAddrs
    <3>3. dirent[1] = MkfsRoot
      BY <3>2 DEF Init
    <3>4. MkfsRoot[".."] = ROOTINO
      BY DEF MkfsRoot, Dots
    <3> QED BY <3>2, <3>3, <3>4 DEF Up
  <2>2. ASSUME NEW k \in Inums, NEW n \in Names, Ents[k][n] # 0 PROVE dinode[Ents[k][n]].type # "dir"
    BY <2>2, MkfsNames, MkfsInodes
  <2> QED BY <2>1, <2>2 DEF UpInv
<1> QED BY <1>2, <1>4, <1>6, <1>7, <1>9, <1>10, <1>11, MkfsLinks DEF DiskInv

----------------------------------------------------------------------------
(* The theorems about the disk *)

LEMMA DiskNext ==
    ASSUME CacheInv, CacheInv', DiskInv, ~orphan', [Next]_vars
    PROVE  DiskInv'
<1>1. CASE UNCHANGED vars
  <2>1. panic' \in Full
    BY <1>1 DEF vars, DiskInv, OnlyWhenFull
  <2> QED BY <1>1, <2>1, SameDisk DEF vars, disk
<1>2. CASE Next
  <2>1. PICK p \in Procs : Step(p) /\ ~Strays(p)
    BY <1>2, Zenon DEF Next
  <2> QED
    BY <2>1, PutTestDisk, PutFreeDisk, PutDropDisk, CallDisk, WalkDisk, OpenDisk, CreateFoundDisk, CreateAllocDisk,
       CreateInitDisk, CreatedDisk, LinkDisk, LinkExistsDisk, LinkBadDisk, LinkEnterDisk, UnlinkLookupDisk,
       UnlinkEraseDisk, UnlinkBadDisk, UnlinkedDisk, ChdirDisk, CloseDisk, WriteDisk, PanicsDisk DEF Step
<1> QED BY <1>1, <1>2

\* Once ".." has led to a removed directory, orphan says so for ever.
LEMMA OrphanStays ==
    ASSUME orphan, [Next]_vars
    PROVE  orphan'
BY Zenon DEF Next, vars

LEMMA NamesFit ==
    ASSUME DiskOK, LinksInv
    PROVE  LinksCover
<1>1. SUFFICES ASSUME NEW i \in Inums
               PROVE  Cardinality(NamesOf(i)) <= IF dinode[i].type = "none" THEN 0 ELSE dinode[i].nlink
  BY DEF LinksCover
<1>2. NamesOf(i) = NamesIn(Ents, i)
  BY NamesAre
<1>3. Types[i] = dinode[i].type /\ Nlinks[i] = dinode[i].nlink /\ dinode[i].nlink \in Int
  BY DEF Types, Nlinks, DiskOK, DInode
<1>4. IF Types[i] = "none" THEN NamesIn(Ents, i) = {} ELSE Owed(Ents, Types, Pends, i) <= Nlinks[i]
  BY DEF LinksInv, LinkOK
<1>5. CASE dinode[i].type = "none"
  <2>1. Cardinality(NamesOf(i)) = 0
    BY <1>2, <1>3, <1>4, <1>5, FS_EmptySet
  <2> QED BY <1>5, <2>1
<1>6. CASE dinode[i].type # "none"
  <2>1. /\ Cardinality(NamesIn(Ents, i)) \in Nat /\ Cardinality(PendIn(Pends, i)) \in Nat
        /\ Cardinality(SubsIn(Ents, Types, i)) \in Nat /\ RootLink(i) \in Nat
    BY OwedFinite
  <2>2. Cardinality(NamesIn(Ents, i)) <= Owed(Ents, Types, Pends, i) /\ Owed(Ents, Types, Pends, i) \in Nat
    BY <2>1 DEF Owed
  <2>3. Owed(Ents, Types, Pends, i) <= dinode[i].nlink
    BY <1>3, <1>4, <1>6
  <2>4. Cardinality(NamesIn(Ents, i)) <= dinode[i].nlink
    BY <1>3, <2>1, <2>2, <2>3
  <2> QED BY <1>2, <1>6, <2>4
<1> QED BY <1>5, <1>6

(***************************************************************************)
(* The invariant of the disk, whatever paths the programs give: every      *)
(* pointer that is followed leads to an allocated inode, a directory has   *)
(* its own block, ".." leads to the directory with its name, the blocks of *)
(* an inode have one owner, and nlink covers the names, the subdirectories *)
(* and the calls that are about to enter a name or have erased one         *)
(* (sysfile.c:140, 222, 266).  It holds until a process looks ".." up in a *)
(* removed directory whose parent has been removed too; from then on       *)
(* orphan is TRUE.                                                         *)
(***************************************************************************)
THEOREM FsDiskInvariant == Spec => [](orphan \/ DiskInv)
<1>1. Init => DiskInv
  BY MkfsDisk
<1>2. CacheInv /\ CacheInv' /\ (orphan \/ DiskInv) /\ [Next]_vars => (orphan' \/ DiskInv')
  BY DiskNext, OrphanStays
<1> QED BY <1>1, <1>2, FsCacheInvariant, PTL DEF Spec

(***************************************************************************)
(* Every name in a directory leads to an allocated inode whose nlink is at *)
(* least the number of its names, at every point of every call: iput       *)
(* (fs.c:332) frees no inode that a name still leads to, unless ".." has   *)
(* led a process out of a removed directory into a removed one.            *)
(***************************************************************************)
THEOREM FsNamesCounted == Spec => []NamesCounted
<1>1. CacheInv /\ (orphan \/ DiskInv) => NamesCounted
  BY NamesFit DEF CacheInv, DiskInv, NamesCounted
<1> QED BY <1>1, FsCacheInvariant, FsDiskInvariant, PTL

(***************************************************************************)
(* The bitmap marks exactly the blocks of inodes, and none belongs to two: *)
(* balloc, bmap and itrunc (fs.c:57, 373, 408) lose and share none, with   *)
(* the same exception.                                                     *)
(***************************************************************************)
THEOREM FsBlocksOwned == Spec => []BlocksOwned
<1>1. (orphan \/ DiskInv) => BlocksOwned
  BY DEF DiskInv, BlocksOwned
<1> QED BY <1>1, FsDiskInvariant, PTL

(***************************************************************************)
(* "ilock: no type" (fs.c:310), "unlink: nlink < 1" (sysfile.c:212) and    *)
(* "freeing free block" (fs.c:91) never happen before ".." is looked up in *)
(* a removed directory whose parent has been removed too: until then the   *)
(* kernel panics only when inodes, slots or blocks are used up.            *)
(***************************************************************************)
THEOREM FsFullOrOrphan == Spec => []FullOrOrphan
<1>1. (orphan \/ DiskInv) => FullOrOrphan
  BY DEF DiskInv, FullOrOrphan
<1> QED BY <1>1, FsDiskInvariant, PTL
=============================================================================
