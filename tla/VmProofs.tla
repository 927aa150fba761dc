------------------------------ MODULE VmProofs ------------------------------
(***************************************************************************)
(* User memory, for any number of processes, pages and calls and any       *)
(* program images: every physical page is free or in exactly one place,    *)
(* and a process that runs has exactly the pages below its size.           *)
(***************************************************************************)
EXTENDS Vm, TLAPS

----------------------------------------------------------------------------
(* The inductive invariant *)

MaybeFrame == Frames \cup {0}

Tables == [dir : MaybeFrame, kpt : SUBSET Frames, pt : [Pdes -> MaybeFrame], pte : [Pages -> MaybeFrame]]

Locals == [op : {"user", "grow", "fork", "exec"}, pc : {"none", "dir", "kpt", "load", "mem", "map"},
           mem : MaybeFrame, a : Nat, size : Nat, todo : Seq(Segment), child : Procs \cup {0}]

TypeOK ==
    /\ free \subseteq Frames
    /\ state \in [Procs -> {"unused", "embryo", "alive", "zombie"}]
    /\ kstack \in [Procs -> MaybeFrame]
    /\ pgdir \in [Procs -> Tables]
    /\ sz \in [Procs -> Nat]
    /\ new \in [Procs -> Tables]
    /\ loc \in [Procs -> Locals]
    /\ panic = "none"

\* The frames that a table takes, and that it takes each for one purpose.
TableFrames(t) ==
    InUse({t.dir} \cup t.kpt \cup {t.pt[i] : i \in Pdes} \cup {t.pte[n] : n \in Pages})

Neat(t) ==
    /\ t.dir \notin t.kpt
    /\ \A i \in Pdes : t.pt[i] # 0 =>
          /\ t.pt[i] # t.dir /\ t.pt[i] \notin t.kpt
          /\ \A j \in Pdes : t.pt[j] = t.pt[i] => j = i
    /\ \A n \in Pages : t.pte[n] # 0 =>
          /\ t.pte[n] # t.dir /\ t.pte[n] \notin t.kpt
          /\ \A i \in Pdes : t.pt[i] # t.pte[n]
          /\ \A m \in Pages : t.pte[m] = t.pte[n] => m = n

\* Who has a frame: the free list, a table, a kernel stack or a page in hand.
Owners == {"free", "pgdir", "new", "kstack", "mem"} \X Procs
Own(o) ==
    CASE o[1] = "free"   -> IF o[2] = 1 THEN free ELSE {}
      [] o[1] = "pgdir"  -> TableFrames(pgdir[o[2]])
      [] o[1] = "new"    -> TableFrames(new[o[2]])
      [] o[1] = "kstack" -> InUse({kstack[o[2]]})
      [] OTHER           -> InUse({loc[o[2]].mem})

\* Every frame has one owner.
Parted ==
    \A f \in Frames : \E o \in Owners :
        f \in Own(o) /\ \A x \in Owners : f \in Own(x) => x = o

\* A table has exactly the pages below a.
Below(t, a) == \A n \in Pages : t.pte[n] # 0 <=> n * PGSIZE < a

\* What the state of a process says about its stack, its table and its locals.
StateInv(p) ==
    /\ state[p] = "unused" <=> kstack[p] = 0
    /\ state[p] \in {"unused", "embryo"} => pgdir[p] = NoTable
    /\ state[p] # "alive" => loc[p] = User
    /\ sz[p] <= HEAPLIMIT

\* A process outside a call builds nothing; it has the pages below its size or
\* has given up the first one.
UserInv(p) ==
    loc[p].op = "user" =>
        /\ loc[p] = User /\ new[p] = NoTable
        /\ state[p] = "alive" => pgdir[p].pte[0] = 0 \/ Below(pgdir[p], sz[p])

\* allocuvm and copyuvm: the pages below a are there, a moves page by page up to
\* the size, and a page is in hand only before it is mapped.
CallInv(p) ==
    loc[p].op # "user" =>
        /\ loc[p].pc # "none"
        /\ loc[p].mem # 0 <=> loc[p].pc = "map"
        /\ loc[p].pc = "map" => loc[p].a < loc[p].size
        /\ loc[p].size <= HEAPLIMIT
        /\ loc[p].pc # "load" => loc[p].a < loc[p].size + PGSIZE
        /\ \E k \in Nat : loc[p].a = k * PGSIZE

GrowInv(p) ==
    loc[p].op = "grow" =>
        /\ loc[p].pc \in {"mem", "map"} /\ new[p] = NoTable
        /\ sz[p] <= loc[p].a /\ sz[p] <= loc[p].size
        /\ Below(pgdir[p], loc[p].a)

BuildInv(p) ==
    loc[p].op \in {"fork", "exec"} =>
        /\ Below(pgdir[p], sz[p])
        /\ loc[p].pc = "dir" => new[p] = NoTable
        /\ loc[p].pc \in {"dir", "kpt"} => loc[p].a = 0
        /\ Below(new[p], IF loc[p].pc = "load" THEN loc[p].size ELSE loc[p].a)

ForkInv(p) ==
    loc[p].op = "fork" =>
        /\ loc[p].pc # "load" /\ loc[p].size = sz[p]
        /\ loc[p].child \in Procs /\ state[loc[p].child] = "embryo"

ExecInv(p) ==
    loc[p].op = "exec" /\ loc[p].pc \in {"dir", "kpt"} => loc[p].size = 0

ProcInv(p) ==
    /\ StateInv(p) /\ UserInv(p) /\ CallInv(p) /\ GrowInv(p) /\ BuildInv(p) /\ ForkInv(p)
    /\ ExecInv(p) /\ Neat(pgdir[p]) /\ Neat(new[p])

\* A child has one parent.
OneParent ==
    \A p, q \in Procs :
        loc[p].op = "fork" /\ loc[q].op = "fork" /\ loc[p].child = loc[q].child => p = q

IInv == TypeOK /\ Parted /\ OneParent /\ \A p \in Procs : ProcInv(p)
----------------------------------------------------------------------------
(* Arithmetic of pages *)

LEMMA Constants ==
    /\ NPROC \in Nat \ {0} /\ PGSIZE \in Nat \ {0} /\ NPTENTRIES \in Nat \ {0}
    /\ HEAPLIMIT \in Nat /\ 1 \in Procs /\ 0 \notin Procs /\ 0 \notin Frames
BY VmAssumption DEF Procs, Frames

LEMMA DivMod ==
    ASSUME NEW m \in Nat \ {0}, NEW a \in Nat
    PROVE  a % m \in 0 .. m - 1 /\ a \div m \in Nat /\ a = m * (a \div m) + (a % m)
OBVIOUS

LEMMA Times ==
    ASSUME NEW m \in Nat \ {0}, NEW i \in Nat, NEW j \in Nat
    PROVE  /\ i * m \in Nat /\ i * m = m * i
           /\ i < j => i * m + m <= j * m
           /\ i <= j => i * m <= j * m
<1>1. i * m \in Nat /\ i * m = m * i
  OBVIOUS
<1>2. ASSUME i < j PROVE i * m + m <= j * m
  <2>1. PICK d \in Nat : j = i + 1 + d
    <3>1. j - i - 1 \in Nat /\ j = i + 1 + (j - i - 1)
      BY <1>2
    <3> QED BY <3>1
  <2>2. j * m = i * m + m + d * m /\ d * m \in Nat
    BY <2>1
  <2> QED BY <1>1, <2>2
<1> QED BY <1>1, <1>2

\* Multiples that compare alike.
LEMMA Quotient ==
    ASSUME NEW m \in Nat \ {0}, NEW a \in Nat, NEW k \in Nat, k * m <= a, a < k * m + m
    PROVE  a \div m = k
<1> DEFINE q == a \div m  r == a % m
<1>1. r \in 0 .. m - 1 /\ q \in Nat /\ a = m * q + r
  BY DivMod
<1>2. q * m \in Nat /\ q * m = m * q /\ k * m \in Nat
  BY <1>1, Times
<1> HIDE DEF q, r
<1>3. CASE q < k
  BY <1>1, <1>2, <1>3, Times
<1>4. CASE k < q
  BY <1>1, <1>2, <1>4, Times
<1>5. q = k
  BY <1>1, <1>3, <1>4
<1> QED BY <1>5 DEF q

LEMMA DivMonotone ==
    ASSUME NEW m \in Nat \ {0}, NEW a \in Nat, NEW b \in Nat, a <= b
    PROVE  a \div m \in Nat /\ b \div m \in Nat /\ a \div m <= b \div m
<1> DEFINE q == a \div m  r == a % m  u == b \div m  v == b % m
<1>1. r \in 0 .. m - 1 /\ q \in Nat /\ a = m * q + r
  BY DivMod
<1>2. v \in 0 .. m - 1 /\ u \in Nat /\ b = m * u + v
  BY DivMod
<1>3. q * m = m * q /\ u * m = m * u /\ q * m \in Nat /\ u * m \in Nat
  BY <1>1, <1>2, Times
<1> HIDE DEF q, r, u, v
<1>4. CASE u < q
  BY <1>1, <1>2, <1>3, <1>4, Times
<1>5. q <= u
  BY <1>1, <1>2, <1>4
<1> QED BY <1>1, <1>2, <1>5 DEF q, u

\* The pages are those below HEAPLIMIT.
LEMMA PagesBelow ==
    ASSUME NEW n \in Nat
    PROVE  n \in Pages <=> n * PGSIZE < HEAPLIMIT
<1> DEFINE M == HEAPLIMIT \div PGSIZE
<1>1. M \in Nat /\ HEAPLIMIT = PGSIZE * M
  <2>1. HEAPLIMIT % PGSIZE = 0
    BY VmAssumption
  <2> QED BY <2>1, Constants, DivMod
<1>2. Pages = 0 .. M - 1
  BY DEF Pages
<1>3. M * PGSIZE = PGSIZE * M /\ n * PGSIZE \in Nat
  BY <1>1, Constants, Times
<1> HIDE DEF M
<1>4. CASE n < M
  BY <1>1, <1>2, <1>3, <1>4, Constants, Times
<1>5. CASE M <= n
  BY <1>1, <1>2, <1>3, <1>5, Constants, Times
<1> QED BY <1>1, <1>4, <1>5

LEMMA PageZero == 0 \in Pages /\ 0 \in Pdes /\ Pages \subseteq Nat
<1> DEFINE M == HEAPLIMIT \div PGSIZE
<1>1. 0 * PGSIZE = 0 /\ 0 < HEAPLIMIT
  BY VmAssumption, Constants
<1>2. 0 \in Pages
  BY <1>1, PagesBelow
<1>3. M - 1 \in Nat
  <2>1. M \in Nat
    BY Constants, DivMod
  <2>2. Pages = 0 .. M - 1
    BY DEF Pages
  <2> HIDE DEF M
  <2> QED BY <1>2, <2>1, <2>2
<1>4. (M - 1) \div NPTENTRIES \in Nat
  <2> HIDE DEF M
  <2> QED BY <1>3, Constants, DivMod
<1> QED BY <1>2, <1>4 DEF Pages, Pdes

\* An address below HEAPLIMIT at the start of a page, its page and its entry in
\* the directory.
LEMMA PageAt ==
    ASSUME NEW a \in Nat, NEW k \in Nat, a = k * PGSIZE, a < HEAPLIMIT
    PROVE  PageOf(a) = k /\ k \in Pages /\ PdeOf(a) \in Pdes
<1> DEFINE M == HEAPLIMIT \div PGSIZE
<1>1. PageOf(a) = k
  BY Constants, Quotient DEF PageOf
<1>2. k \in Pages
  BY PagesBelow
<1>3. M \in Nat /\ Pages = 0 .. M - 1 /\ Pdes = 0 .. (M - 1) \div NPTENTRIES
  BY Constants, DivMod DEF Pages, Pdes
<1> HIDE DEF M
<1>4. k <= M - 1 /\ M - 1 \in Nat
  BY <1>2, <1>3
<1>5. k \div NPTENTRIES \in Nat /\ (M - 1) \div NPTENTRIES \in Nat
      /\ k \div NPTENTRIES <= (M - 1) \div NPTENTRIES
  BY <1>4, Constants, DivMonotone
<1> QED BY <1>1, <1>2, <1>3, <1>5 DEF PdeOf

LEMMA RoundUp ==
    ASSUME NEW s \in Nat
    PROVE  /\ \E k \in Nat : PgRoundUp(s) = k * PGSIZE
           /\ PgRoundUp(s) \in Nat /\ s <= PgRoundUp(s) /\ PgRoundUp(s) < s + PGSIZE
<1> DEFINE b == s + PGSIZE - 1  q == b \div PGSIZE  r == b % PGSIZE
<1>1. PGSIZE \in Nat \ {0} /\ b \in Nat
  BY Constants
<1>2. r \in 0 .. PGSIZE - 1 /\ q \in Nat /\ b = PGSIZE * q + r
  <2> HIDE DEF b
  <2> QED BY <1>1, DivMod
<1>3. PgRoundUp(s) = q * PGSIZE
  BY DEF PgRoundUp
<1>4. q * PGSIZE = PGSIZE * q /\ q * PGSIZE \in Nat
  <2> HIDE DEF q
  <2> QED BY <1>1, <1>2, Times
<1> HIDE DEF q, r
<1> QED BY <1>1, <1>2, <1>3, <1>4

\* A page begins below a size exactly if it begins below the size rounded up.
LEMMA RoundUpPage ==
    ASSUME NEW s \in Nat, NEW n \in Nat
    PROVE  n * PGSIZE < PgRoundUp(s) <=> n * PGSIZE < s
<1>1. PICK k \in Nat : PgRoundUp(s) = k * PGSIZE
  BY RoundUp
<1>2. s <= PgRoundUp(s) /\ PgRoundUp(s) < s + PGSIZE /\ PgRoundUp(s) \in Nat
  BY RoundUp
<1>3. n * PGSIZE \in Nat /\ PGSIZE \in Nat \ {0}
  BY Constants, Times
<1>4. CASE n < k
  BY <1>1, <1>2, <1>3, <1>4, Times
<1>5. CASE k <= n
  BY <1>1, <1>2, <1>3, <1>5, Times
<1> QED BY <1>4, <1>5

\* The same for an address at the start of a page, less than a page above s.
LEMMA NextPage ==
    ASSUME NEW s \in Nat, NEW n \in Nat, NEW a \in Nat, NEW k \in Nat, a = k * PGSIZE,
           s <= a, a < s + PGSIZE
    PROVE  n * PGSIZE < a <=> n * PGSIZE < s
<1>3. n * PGSIZE \in Nat /\ PGSIZE \in Nat \ {0}
  BY Constants, Times
<1>4. CASE n < k
  BY <1>3, <1>4, Times
<1>5. CASE k <= n
  BY <1>3, <1>5, Times
<1> QED BY <1>4, <1>5

----------------------------------------------------------------------------
(* Page tables *)

LEMMA KallocFree ==
    ASSUME free # {}
    PROVE  Kalloc \in free
BY DEF Kalloc

LEMMA NoTableFacts ==
    /\ NoTable \in Tables /\ Neat(NoTable) /\ TableFrames(NoTable) = {}
    /\ NoTable.dir = 0 /\ \A n \in Pages : NoTable.pte[n] = 0
    /\ Below(NoTable, 0)
<1>1. NoTable \in Tables
  BY DEF NoTable, Tables, MaybeFrame
<1>2. Neat(NoTable)
  BY DEF NoTable, Neat
<1>3. TableFrames(NoTable) = {}
  BY DEF NoTable, TableFrames, InUse
<1>4. \A n \in Pages : n * PGSIZE \in Nat
  BY Constants, PageZero, Times
<1>5. Below(NoTable, 0)
  BY <1>4 DEF NoTable, Below
<1> QED BY <1>1, <1>2, <1>3, <1>5 DEF NoTable

LEMMA InTable ==
    ASSUME NEW t \in Tables
    PROVE  /\ TableFrames(t) \subseteq Frames
           /\ \A f \in Frames : f \in TableFrames(t) <=>
                 \/ f = t.dir \/ f \in t.kpt
                 \/ \E i \in Pdes : f = t.pt[i]
                 \/ \E n \in Pages : f = t.pte[n]
BY Constants DEF TableFrames, InUse, Tables, MaybeFrame

\* freevm frees the whole table.
LEMMA VmFramesAll ==
    ASSUME NEW t \in Tables
    PROVE  VmFrames(t) = TableFrames(t)
<1>1. ASSUME NEW n \in Pages PROVE n \in DeallocPages(HEAPLIMIT, 0)
  <2>1. n \in Nat /\ n * PGSIZE < HEAPLIMIT
    BY PageZero, PagesBelow
  <2>2. ~(n * PGSIZE < PgRoundUp(0)) /\ PgRoundUp(0) \in Nat /\ n * PGSIZE \in Nat
    <3>1. n * PGSIZE \in Nat
      BY <2>1, Constants, Times
    <3>2. ~(n * PGSIZE < 0)
      BY <3>1
    <3> QED BY <2>1, <3>1, <3>2, RoundUp, RoundUpPage
  <2> QED BY <2>1, <2>2 DEF DeallocPages
<1>2. DeallocPages(HEAPLIMIT, 0) = Pages
  BY <1>1 DEF DeallocPages
<1>3. DeallocFrames(t, HEAPLIMIT, 0) = InUse({t.pte[n] : n \in Pages})
  BY <1>2 DEF DeallocFrames
<1> QED BY <1>3 DEF VmFrames, TableFrames, InUse

LEMMA SetDir ==
    ASSUME NEW t \in Tables, Neat(t), t.dir = 0, NEW f \in Frames, f \notin TableFrames(t)
    PROVE  LET u == [t EXCEPT !.dir = f]
           IN  /\ u \in Tables /\ Neat(u) /\ TableFrames(u) = TableFrames(t) \cup {f}
               /\ u.pte = t.pte
<1> DEFINE u == [t EXCEPT !.dir = f]
<1>1. u \in Tables /\ u.dir = f /\ u.kpt = t.kpt /\ u.pt = t.pt /\ u.pte = t.pte
  BY DEF Tables, MaybeFrame
<1> HIDE DEF u
<1>2. Neat(u)
  BY <1>1, InTable, Constants DEF Neat
<1>3. ASSUME NEW g \in Frames PROVE g \in TableFrames(u) <=> g \in TableFrames(t) \cup {f}
  BY <1>1, InTable, Constants
<1>4. TableFrames(u) = TableFrames(t) \cup {f}
  BY <1>1, <1>3, InTable
<1> QED BY <1>1, <1>2, <1>4 DEF u

LEMMA AddKpt ==
    ASSUME NEW t \in Tables, Neat(t), NEW f \in Frames, f \notin TableFrames(t)
    PROVE  LET u == [t EXCEPT !.kpt = @ \cup {f}]
           IN  /\ u \in Tables /\ Neat(u) /\ TableFrames(u) = TableFrames(t) \cup {f}
               /\ u.pte = t.pte
<1> DEFINE u == [t EXCEPT !.kpt = @ \cup {f}]
<1>1. u \in Tables /\ u.dir = t.dir /\ u.kpt = t.kpt \cup {f} /\ u.pt = t.pt /\ u.pte = t.pte
  BY DEF Tables, MaybeFrame
<1> HIDE DEF u
<1>2. Neat(u)
  BY <1>1, InTable, Constants DEF Neat
<1>3. ASSUME NEW g \in Frames PROVE g \in TableFrames(u) <=> g \in TableFrames(t) \cup {f}
  BY <1>1, InTable, Constants
<1>4. TableFrames(u) = TableFrames(t) \cup {f}
  BY <1>1, <1>3, InTable
<1> QED BY <1>1, <1>2, <1>4 DEF u

LEMMA MapPageFacts ==
    ASSUME NEW t \in Tables, Neat(t), NEW a \in Nat, NEW k \in Nat, a = k * PGSIZE, a < HEAPLIMIT,
           t.pte[k] = 0, NEW f \in Frames, f \notin TableFrames(t),
           NEW pt, NeedsPt(t, a) => pt \in Frames /\ pt \notin TableFrames(t) /\ pt # f
    PROVE  LET u == MapPage(t, a, f, pt)
           IN  /\ u \in Tables /\ Neat(u)
               /\ TableFrames(u) = TableFrames(t) \cup {f} \cup (IF NeedsPt(t, a) THEN {pt} ELSE {})
               /\ u.pte = [t.pte EXCEPT ![k] = f]
<1> DEFINE u == MapPage(t, a, f, pt)
           i == PdeOf(a)
           g == IF NeedsPt(t, a) THEN pt ELSE t.pt[i]
<1>1. PageOf(a) = k /\ k \in Pages /\ i \in Pdes
  BY PageAt
<1>2. t.pt \in [Pdes -> MaybeFrame] /\ t.pte \in [Pages -> MaybeFrame]
  BY DEF Tables
<1>3. g \in MaybeFrame /\ (t.pt[i] # 0 => g = t.pt[i]) /\ (NeedsPt(t, a) <=> t.pt[i] = 0)
  BY <1>1, <1>2 DEF NeedsPt, MaybeFrame
<1>4. u.dir = t.dir /\ u.kpt = t.kpt /\ u.pt = [t.pt EXCEPT ![i] = g]
      /\ u.pte = [t.pte EXCEPT ![k] = f] /\ u \in Tables
  <2>1. u = [t EXCEPT !.pte[k] = f, !.pt[i] = g]
    BY <1>1 DEF MapPage
  <2> HIDE DEF u, i, g
  <2>2. f \in MaybeFrame
    BY DEF MaybeFrame
  <2> QED BY <1>1, <1>2, <1>3, <2>1, <2>2 DEF Tables
<1>5. NeedsPt(t, a) => g \in Frames /\ g \notin TableFrames(t) /\ g # f
  OBVIOUS
<1>6. NeedsPt(t, a) => g = pt
  OBVIOUS
<1> HIDE DEF u, i, g
<1>7. /\ u.pt[i] = g /\ \A j \in Pdes : j # i => u.pt[j] = t.pt[j]
      /\ u.pte[k] = f /\ \A n \in Pages : n # k => u.pte[n] = t.pte[n]
  BY <1>1, <1>2, <1>4
<1>8. Neat(u)
  <2>1. u.dir \notin u.kpt
    BY <1>4 DEF Neat
  <2>2. ASSUME NEW j \in Pdes, u.pt[j] # 0
        PROVE  /\ u.pt[j] # u.dir /\ u.pt[j] \notin u.kpt
               /\ \A l \in Pdes : u.pt[l] = u.pt[j] => l = j
    <3>1. CASE t.pt[i] # 0
      BY <2>2, <3>1, <1>3, <1>4, <1>7 DEF Neat
    <3>2. CASE t.pt[i] = 0
      <4>1. g \in Frames /\ g # t.dir /\ g \notin t.kpt /\ \A l \in Pdes : g # t.pt[l]
        BY <3>2, <1>3, <1>5, InTable
      <4> QED BY <2>2, <3>2, <4>1, <1>1, <1>4, <1>7 DEF Neat
    <3> QED BY <3>1, <3>2
  <2>3. ASSUME NEW n \in Pages, u.pte[n] # 0
        PROVE  /\ u.pte[n] # u.dir /\ u.pte[n] \notin u.kpt
               /\ \A l \in Pdes : u.pt[l] # u.pte[n]
               /\ \A m \in Pages : u.pte[m] = u.pte[n] => m = n
    <3>1. f # t.dir /\ f \notin t.kpt /\ \A l \in Pdes : f # t.pt[l]
      BY InTable
    <3>2. \A m \in Pages : f # t.pte[m]
      BY InTable
    <3>3. f # g
      BY <1>1, <1>3, <1>5, <3>1
    <3>4. u.pte[n] # u.dir /\ u.pte[n] \notin u.kpt
      BY <2>3, <3>1, <1>4, <1>7 DEF Neat
    <3>5. \A m \in Pages : u.pte[m] = u.pte[n] => m = n
      BY <2>3, <3>2, <1>4, <1>7 DEF Neat
    <3>6. ASSUME NEW l \in Pdes PROVE u.pt[l] # u.pte[n]
      <4>1. CASE n = k
        BY <4>1, <3>1, <3>3, <1>7
      <4>2. CASE n # k
        <5>1. u.pte[n] = t.pte[n] /\ t.pte[n] # 0 /\ t.pte[n] \in Frames
          BY <2>3, <4>2, <1>7, <1>2 DEF MaybeFrame
        <5>2. t.pt[l] # t.pte[n]
          BY <5>1 DEF Neat
        <5>3. CASE l # i
          BY <5>1, <5>2, <5>3, <1>7
        <5>4. CASE l = i /\ t.pt[i] # 0
          BY <5>1, <5>2, <5>4, <1>3, <1>7
        <5>5. CASE l = i /\ t.pt[i] = 0
          <6>1. g \notin TableFrames(t) /\ t.pte[n] \in TableFrames(t)
            BY <5>1, <5>5, <1>3, <1>5, InTable
          <6> QED BY <5>1, <5>5, <6>1, <1>7
        <5> QED BY <5>3, <5>4, <5>5
      <4> QED BY <4>1, <4>2
    <3> QED BY <3>4, <3>5, <3>6
  <2> QED BY <2>1, <2>2, <2>3 DEF Neat
<1> DEFINE G == IF NeedsPt(t, a) THEN {pt} ELSE {}
<1>9. G \subseteq Frames
  OBVIOUS
<1>10. ASSUME NEW h \in Frames
       PROVE  h \in TableFrames(u) <=> h \in TableFrames(t) \cup {f} \cup G
  <2>1. (\E n \in Pages : h = u.pte[n]) <=> h = f \/ \E n \in Pages : h = t.pte[n]
    <3>1. h # t.pte[k]
      BY Constants
    <3> QED BY <3>1, <1>1, <1>7
  <2>2. (\E l \in Pdes : h = u.pt[l]) <=> h \in G \/ \E l \in Pdes : h = t.pt[l]
    <3>1. CASE NeedsPt(t, a)
      <4>1. h # t.pt[i] /\ u.pt[i] = pt
        BY <3>1, <1>3, <1>6, <1>7, Constants
      <4> QED BY <3>1, <4>1, <1>1, <1>7
    <3>2. CASE ~NeedsPt(t, a)
      <4>1. u.pt[i] = t.pt[i]
        BY <3>2, <1>3, <1>7
      <4> QED BY <3>2, <4>1, <1>1, <1>7
    <3> QED BY <3>1, <3>2
  <2> HIDE DEF G
  <2> QED BY <2>1, <2>2, <1>4, InTable
<1>11. TableFrames(u) = TableFrames(t) \cup {f} \cup G
  <2> HIDE DEF G
  <2> QED BY <1>4, <1>9, <1>10, InTable
<1> QED BY <1>4, <1>8, <1>11 DEF u

\* deallocuvm takes the pages from size on out of a table that has the pages
\* below a, where old is not below a.
LEMMA DeallocFacts ==
    ASSUME NEW t \in Tables, Neat(t), NEW a \in Nat, Below(t, a),
           NEW old \in Nat, NEW size \in Nat, a <= old, size <= a
    PROVE  LET u == DeallocUvm(t, old, size)
           IN  /\ u \in Tables /\ Neat(u) /\ Below(u, size)
               /\ DeallocFrames(t, old, size) \subseteq TableFrames(t)
               /\ TableFrames(u) = TableFrames(t) \ DeallocFrames(t, old, size)
<1> DEFINE u == DeallocUvm(t, old, size)
           D == DeallocPages(old, size)
           F == DeallocFrames(t, old, size)
<1>1. t.pte \in [Pages -> MaybeFrame]
  BY DEF Tables
<1>2. /\ u.dir = t.dir /\ u.kpt = t.kpt /\ u.pt = t.pt
      /\ u.pte = [n \in Pages |-> IF n \in D THEN 0 ELSE t.pte[n]] /\ u \in Tables
  <2>1. u = [t EXCEPT !.pte = [n \in Pages |-> IF n \in D THEN 0 ELSE t.pte[n]]]
    BY DEF DeallocUvm
  <2>2. [n \in Pages |-> IF n \in D THEN 0 ELSE t.pte[n]] \in [Pages -> MaybeFrame]
    BY <1>1 DEF MaybeFrame
  <2> HIDE DEF u, D
  <2> QED BY <2>1, <2>2 DEF Tables
<1>3. D \subseteq Pages
  BY DEF DeallocPages
<1>4. F = {t.pte[n] : n \in D} \ {0}
  BY DEF DeallocFrames, InUse
<1>5. ASSUME NEW n \in Pages PROVE n \in D <=> size <= n * PGSIZE /\ n * PGSIZE < old
  <2>1. n * PGSIZE \in Nat /\ n \in Nat
    BY Constants, PageZero, Times
  <2>2. PgRoundUp(size) \in Nat /\ (n * PGSIZE < PgRoundUp(size) <=> n * PGSIZE < size)
    BY <2>1, RoundUp, RoundUpPage
  <2> QED BY <2>1, <2>2 DEF DeallocPages
<1> HIDE DEF u, D, F
<1>6. \A n \in Pages : u.pte[n] = IF n \in D THEN 0 ELSE t.pte[n]
  BY <1>2
<1>7. Neat(u)
  BY <1>2, <1>6 DEF Neat
<1>8. Below(u, size)
  <2> SUFFICES ASSUME NEW n \in Pages PROVE u.pte[n] # 0 <=> n * PGSIZE < size
    BY DEF Below
  <2>1. n * PGSIZE \in Nat
    BY Constants, PageZero, Times
  <2>2. t.pte[n] # 0 <=> n * PGSIZE < a
    BY DEF Below
  <2> QED BY <2>1, <2>2, <1>5, <1>6
<1>9. F \subseteq Frames /\ \A f \in F : \E n \in D : f = t.pte[n]
  BY <1>1, <1>3, <1>4 DEF MaybeFrame
<1>10. F \subseteq TableFrames(t)
  BY <1>3, <1>9, InTable
<1>11. ASSUME NEW f \in Frames PROVE f \in TableFrames(u) <=> f \in TableFrames(t) /\ f \notin F
  <2>1. f # 0
    BY Constants
  <2>2. CASE f \in F
    <3>1. PICK n \in D : f = t.pte[n]
      BY <1>9, <2>2
    <3>2. f # t.dir /\ f \notin t.kpt /\ \A i \in Pdes : f # t.pt[i]
      BY <3>1, <2>1, <1>3 DEF Neat
    <3>3. \A m \in Pages : f = t.pte[m] => m = n
      BY <3>1, <2>1, <1>3 DEF Neat
    <3>4. \A m \in Pages : f # u.pte[m]
      BY <3>1, <3>3, <2>1, <1>6
    <3> QED BY <2>2, <3>2, <3>4, <1>2, InTable
  <2>3. CASE f \notin F
    <3>1. \A n \in D : f # t.pte[n]
      BY <2>3, <2>1, <1>4
    <3>2. (\E n \in Pages : f = u.pte[n]) <=> (\E n \in Pages : f = t.pte[n])
      BY <3>1, <2>1, <1>6
    <3> QED BY <2>3, <3>2, <1>2, InTable
  <2> QED BY <2>2, <2>3
<1>12. TableFrames(u) = TableFrames(t) \ F
  BY <1>2, <1>11, InTable
<1> QED BY <1>2, <1>7, <1>8, <1>10, <1>12 DEF u, F

\* A table without pages has the pages below 0, and the other way round.
LEMMA BelowSame ==
    ASSUME NEW t, NEW u, NEW a, Below(t, a), u.pte = t.pte
    PROVE  Below(u, a)
BY DEF Below

----------------------------------------------------------------------------
(* Frames change hands *)

Free == <<"free", 1>>

LEMMA OwnAt ==
    /\ Free \in Owners /\ Own(Free) = free /\ Own(Free)' = free'
    /\ \A p \in Procs :
          /\ <<"pgdir", p>> \in Owners /\ <<"new", p>> \in Owners
          /\ <<"kstack", p>> \in Owners /\ <<"mem", p>> \in Owners
          /\ Own(<<"pgdir", p>>) = TableFrames(pgdir[p])
          /\ Own(<<"new", p>>) = TableFrames(new[p])
          /\ Own(<<"kstack", p>>) = {kstack[p]} \ {0}
          /\ Own(<<"mem", p>>) = {loc[p].mem} \ {0}
          /\ Own(<<"pgdir", p>>)' = TableFrames(pgdir'[p])
          /\ Own(<<"new", p>>)' = TableFrames(new'[p])
          /\ Own(<<"kstack", p>>)' = {kstack'[p]} \ {0}
          /\ Own(<<"mem", p>>)' = {loc'[p].mem} \ {0}
<1>1. Free \in Owners /\ Own(Free) = free /\ Own(Free)' = free'
  BY Constants DEF Own, Owners, Free
<1>2. ASSUME NEW p \in Procs
      PROVE  /\ <<"pgdir", p>> \in Owners /\ <<"new", p>> \in Owners
             /\ <<"kstack", p>> \in Owners /\ <<"mem", p>> \in Owners
  BY DEF Owners
<1>3. ASSUME NEW p \in Procs
      PROVE  /\ Own(<<"pgdir", p>>) = TableFrames(pgdir[p])
             /\ Own(<<"new", p>>) = TableFrames(new[p])
             /\ Own(<<"kstack", p>>) = {kstack[p]} \ {0}
             /\ Own(<<"mem", p>>) = {loc[p].mem} \ {0}
  BY DEF Own, InUse
<1>4. ASSUME NEW p \in Procs
      PROVE  /\ Own(<<"pgdir", p>>)' = TableFrames(pgdir'[p])
             /\ Own(<<"new", p>>)' = TableFrames(new'[p])
             /\ Own(<<"kstack", p>>)' = {kstack'[p]} \ {0}
             /\ Own(<<"mem", p>>)' = {loc'[p].mem} \ {0}
  BY DEF Own, InUse
<1> QED BY <1>1, <1>2, <1>3, <1>4

LEMMA Unmoved ==
    ASSUME NEW o \in Owners,
           o = Free => free' = free,
           o[1] = "pgdir" => pgdir'[o[2]] = pgdir[o[2]],
           o[1] = "new" => new'[o[2]] = new[o[2]],
           o[1] = "kstack" => kstack'[o[2]] = kstack[o[2]],
           o[1] = "mem" => loc'[o[2]].mem = loc[o[2]].mem
    PROVE  Own(o)' = Own(o)
<1>1. PICK k \in {"free", "pgdir", "new", "kstack", "mem"}, p \in Procs : o = <<k, p>>
  BY DEF Owners
<1>2. CASE k = "free"
  BY <1>1, <1>2 DEF Own, Free
<1>3. CASE k # "free"
  BY <1>1, <1>3, OwnAt
<1> QED BY <1>2, <1>3

\* Frames move among the owners R only, and none is lost or doubled.
LEMMA Moved ==
    ASSUME Parted, NEW R \in SUBSET Owners,
           \A o \in Owners \ R : Own(o)' = Own(o),
           \A f \in Frames : (\E o \in R : f \in Own(o)') <=> (\E o \in R : f \in Own(o)),
           \A f \in Frames : \A o, x \in R : f \in Own(o)' /\ f \in Own(x)' => x = o
    PROVE  Parted'
<1> SUFFICES ASSUME NEW f \in Frames
             PROVE  \E o \in Owners : f \in Own(o)' /\ \A x \in Owners : f \in Own(x)' => x = o
  BY DEF Parted
<1>1. PICK o \in Owners : f \in Own(o) /\ \A x \in Owners : f \in Own(x) => x = o
  BY DEF Parted
<1>2. CASE o \in R
  <2>1. PICK y \in R : f \in Own(y)'
    BY <1>1, <1>2
  <2>2. ASSUME NEW x \in Owners, f \in Own(x)' PROVE x = y
    <3>1. CASE x \in R
      BY <2>1, <2>2, <3>1
    <3>2. CASE x \notin R
      BY <1>1, <1>2, <2>2, <3>2
    <3> QED BY <3>1, <3>2
  <2> QED BY <2>1, <2>2
<1>3. CASE o \notin R
  <2>1. f \in Own(o)'
    BY <1>1, <1>3
  <2>2. ASSUME NEW x \in Owners, f \in Own(x)' PROVE x = o
    <3>1. CASE x \in R
      <4>1. PICK y \in R : f \in Own(y)
        BY <2>2, <3>1
      <4> QED BY <1>1, <1>3, <4>1
    <3>2. CASE x \notin R
      BY <1>1, <2>2, <3>2
    <3> QED BY <3>1, <3>2
  <2> QED BY <2>1, <2>2
<1> QED BY <1>2, <1>3

LEMMA OneOwner ==
    ASSUME Parted, NEW f \in Frames, NEW o \in Owners, NEW x \in Owners, f \in Own(o), f \in Own(x)
    PROVE  x = o
BY DEF Parted

\* The allocator hands out a frame that nobody else has.
LEMMA Fresh ==
    ASSUME TypeOK, Parted, NEW f \in free
    PROVE  /\ f \in Frames /\ f # 0
           /\ \A p \in Procs : /\ f \notin TableFrames(pgdir[p]) /\ f \notin TableFrames(new[p])
                               /\ f # kstack[p] /\ f # loc[p].mem
<1>1. f \in Frames /\ f # 0
  BY Constants DEF TypeOK
<1>2. f \in Own(Free)
  BY OwnAt
<1>3. ASSUME NEW p \in Procs
      PROVE  /\ f \notin TableFrames(pgdir[p]) /\ f \notin TableFrames(new[p])
             /\ f # kstack[p] /\ f # loc[p].mem
  <2>1. <<"pgdir", p>> # Free /\ <<"new", p>> # Free /\ <<"kstack", p>> # Free /\ <<"mem", p>> # Free
    BY DEF Free
  <2>2. ASSUME NEW x \in Owners, x # Free PROVE f \notin Own(x)
    BY <1>1, <1>2, <2>2, OwnAt, OneOwner
  <2>3. f \notin Own(<<"pgdir", p>>) /\ f \notin Own(<<"new", p>>)
    BY <2>1, <2>2, OwnAt
  <2>4. f \notin Own(<<"kstack", p>>) /\ f \notin Own(<<"mem", p>>)
    BY <2>1, <2>2, OwnAt
  <2> QED BY <1>1, <2>3, <2>4, OwnAt
<1> QED BY <1>1, <1>3

\* One owner takes a frame from the free list.
LEMMA Taken ==
    ASSUME Parted, NEW k \in free, NEW o \in Owners, o # Free,
           free' = free \ {k}, Own(o)' = Own(o) \cup {k},
           \A x \in Owners : x # o /\ x # Free => Own(x)' = Own(x)
    PROVE  Parted'
<1> DEFINE R == {Free, o}
<1>1. R \in SUBSET Owners /\ \A x \in Owners \ R : Own(x)' = Own(x)
  BY OwnAt
<1>2. ASSUME NEW f \in Frames PROVE (\E x \in R : f \in Own(x)') <=> (\E x \in R : f \in Own(x))
  BY OwnAt
<1>3. ASSUME NEW f \in Frames, NEW x \in R, NEW y \in R, f \in Own(x)', f \in Own(y)' PROVE y = x
  <2>1. ASSUME f \in free', f \in Own(o)' PROVE FALSE
    <3>1. f \in Own(Free) /\ f \in Own(o)
      BY <2>1, OwnAt
    <3> QED BY <3>1, OneOwner, OwnAt
  <2> QED BY <1>3, <2>1, OwnAt
<1> HIDE DEF R
<1> QED BY <1>1, <1>2, <1>3, Moved

\* Some owners give all they have to the free list.
LEMMA Given ==
    ASSUME Parted, NEW R \in SUBSET Owners, Free \notin R,
           \A f \in Frames : f \in free' <=> f \in free \/ \E x \in R : f \in Own(x),
           \A x \in R : Own(x)' = {},
           \A x \in Owners : x \notin R /\ x # Free => Own(x)' = Own(x)
    PROVE  Parted'
<1> DEFINE Q == R \cup {Free}
<1>1. Q \in SUBSET Owners /\ \A x \in Owners \ Q : Own(x)' = Own(x)
  BY OwnAt
<1>2. ASSUME NEW f \in Frames PROVE (\E x \in Q : f \in Own(x)') <=> (\E x \in Q : f \in Own(x))
  BY OwnAt
<1>3. ASSUME NEW f \in Frames, NEW x \in Q, NEW y \in Q, f \in Own(x)', f \in Own(y)' PROVE y = x
  BY <1>3
<1> HIDE DEF Q
<1> QED BY <1>1, <1>2, <1>3, Moved

----------------------------------------------------------------------------
(* The processes that a step leaves alone *)

Kept(q) ==
    /\ state'[q] = state[q] /\ kstack'[q] = kstack[q] /\ pgdir'[q] = pgdir[q]
    /\ sz'[q] = sz[q] /\ new'[q] = new[q] /\ loc'[q] = loc[q]

LEMMA KeptInv ==
    ASSUME NEW q \in Procs, ProcInv(q), Kept(q),
           loc[q].op = "fork" => state'[loc[q].child] = state[loc[q].child]
    PROVE  ProcInv(q)'
<1>1. StateInv(q)' /\ UserInv(q)'
  BY DEF ProcInv, Kept, StateInv, UserInv, Below
<1>2. CallInv(q)' /\ GrowInv(q)'
  BY DEF ProcInv, Kept, CallInv, GrowInv, Below
<1>3. BuildInv(q)' /\ ExecInv(q)'
  BY DEF ProcInv, Kept, BuildInv, ExecInv, Below
<1>4. ForkInv(q)'
  BY DEF ProcInv, Kept, ForkInv
<1>5. Neat(pgdir[q])' /\ Neat(new[q])'
  <2>1. pgdir'[q] = pgdir[q] /\ new'[q] = new[q] /\ Neat(pgdir[q]) /\ Neat(new[q])
    BY DEF ProcInv, Kept
  <2> QED BY <2>1
<1> QED BY <1>1, <1>2, <1>3, <1>4, <1>5 DEF ProcInv

\* Only processes of P change, no child of another process among them.
LEMMA OnlyThese ==
    ASSUME IInv, NEW P \in SUBSET Procs, TypeOK', Parted', OneParent',
           \A q \in P : ProcInv(q)',
           \A q \in Procs \ P : Kept(q) /\ (loc[q].op = "fork" => loc[q].child \notin P)
    PROVE  IInv'
<1> SUFFICES ASSUME NEW q \in Procs PROVE ProcInv(q)'
  BY DEF IInv
<1>1. CASE q \in P
  BY <1>1
<1>2. CASE q \notin P
  <2>1. ProcInv(q) /\ Kept(q)
    BY <1>2 DEF IInv
  <2>2. loc[q].op = "fork" => state'[loc[q].child] = state[loc[q].child]
    <3>1. loc[q].op = "fork" => loc[q].child \in Procs \ P
      BY <1>2, <2>1 DEF ProcInv, ForkInv
    <3> QED BY <3>1 DEF Kept
  <2> QED BY <2>1, <2>2, KeptInv
<1> QED BY <1>1, <1>2

\* Only p changes; a process that is not an embryo is nobody's child.
LEMMA OnlyThis ==
    ASSUME IInv, NEW p \in Procs, TypeOK', Parted', ProcInv(p)', state[p] # "embryo",
           \A q \in Procs : q # p => Kept(q),
           loc'[p].op = "fork" => loc[p].op = "fork" /\ loc'[p].child = loc[p].child
    PROVE  IInv'
<1>1. OneParent'
  <2>1. \A q \in Procs : q # p => loc'[q] = loc[q]
    BY DEF Kept
  <2>2. \A q \in Procs : loc'[q].op = "fork" => loc[q].op = "fork" /\ loc'[q].child = loc[q].child
    BY <2>1
  <2>3. OneParent
    BY DEF IInv
  <2> QED BY <2>2, <2>3 DEF OneParent
<1>2. ASSUME NEW q \in Procs, loc[q].op = "fork" PROVE loc[q].child # p
  BY <1>2 DEF IInv, ProcInv, ForkInv
<1>3. {p} \in SUBSET Procs
  OBVIOUS
<1>4. \A q \in {p} : ProcInv(q)'
  OBVIOUS
<1>5. \A q \in Procs \ {p} : Kept(q) /\ (loc[q].op = "fork" => loc[q].child \notin {p})
  BY <1>2
<1> QED BY <1>1, <1>3, <1>4, <1>5, OnlyThese

LEMMA UserFacts ==
    /\ User \in Locals /\ User.op = "user" /\ User.pc = "none" /\ User.mem = 0
    /\ User.a = 0 /\ User.size = 0 /\ User.todo = <<>> /\ User.child = 0
BY DEF User, Locals, MaybeFrame

LEMMA Types ==
    ASSUME TypeOK, NEW p \in Procs
    PROVE  /\ loc[p] \in Locals /\ loc[p].a \in Nat /\ loc[p].size \in Nat /\ loc[p].mem \in MaybeFrame
           /\ loc[p].todo \in Seq(Segment) /\ loc[p].child \in Procs \cup {0}
           /\ sz[p] \in Nat /\ pgdir[p] \in Tables /\ new[p] \in Tables /\ kstack[p] \in MaybeFrame
<1>1. loc[p] \in Locals
  BY DEF TypeOK
<1>2. sz[p] \in Nat /\ pgdir[p] \in Tables /\ new[p] \in Tables /\ kstack[p] \in MaybeFrame
  BY DEF TypeOK
<1> QED BY <1>1, <1>2 DEF Locals

\* A process outside a call, and one that is in a call.
LEMMA Running ==
    ASSUME IInv, NEW p \in Procs, Runs(p)
    PROVE  /\ state[p] = "alive" /\ loc[p] = User /\ new[p] = NoTable
           /\ Below(pgdir[p], sz[p]) /\ sz[p] \in Nat /\ sz[p] <= HEAPLIMIT
           /\ Neat(pgdir[p]) /\ pgdir[p] \in Tables /\ kstack[p] # 0
<1>1. state[p] = "alive" /\ loc[p] = User /\ pgdir[p].pte[0] # 0
  BY DEF Runs
<1>2. ProcInv(p) /\ TypeOK
  BY DEF IInv
<1>3. new[p] = NoTable /\ Below(pgdir[p], sz[p])
  BY <1>1, <1>2, UserFacts DEF ProcInv, UserInv
<1>4. sz[p] <= HEAPLIMIT /\ kstack[p] # 0 /\ Neat(pgdir[p])
  BY <1>1, <1>2 DEF ProcInv, StateInv
<1> QED BY <1>1, <1>2, <1>3, <1>4, Types

LEMMA Calling ==
    ASSUME IInv, NEW p \in Procs, loc[p].op # "user"
    PROVE  /\ state[p] = "alive" /\ kstack[p] # 0 /\ sz[p] <= HEAPLIMIT
           /\ CallInv(p) /\ GrowInv(p) /\ BuildInv(p) /\ ForkInv(p) /\ ExecInv(p)
           /\ Neat(pgdir[p]) /\ Neat(new[p])
<1>1. ProcInv(p) /\ TypeOK
  BY DEF IInv
<1>2. state[p] = "alive"
  BY <1>1, UserFacts DEF ProcInv, StateInv
<1>3. kstack[p] # 0 /\ sz[p] <= HEAPLIMIT
  BY <1>1, <1>2 DEF ProcInv, StateInv
<1> QED BY <1>1, <1>2, <1>3 DEF ProcInv

----------------------------------------------------------------------------
(* Steps that move no frame *)

LEMMA Still ==
    ASSUME Parted, free' = free, pgdir' = pgdir, new' = new, kstack' = kstack,
           \A q \in Procs : loc'[q].mem = loc[q].mem
    PROVE  Parted'
<1>1. ASSUME NEW o \in Owners PROVE Own(o)' = Own(o)
  <2>1. o[2] \in Procs
    BY DEF Owners
  <2> QED BY <2>1, Unmoved
<1> QED BY <1>1 DEF Parted

LEMMA NewLoc ==
    ASSUME TypeOK, NEW p \in Procs, NEW l, loc' = [loc EXCEPT ![p] = l]
    PROVE  /\ loc'[p] = l /\ \A q \in Procs : q # p => loc'[q] = loc[q]
           /\ l \in Locals => loc' \in [Procs -> Locals]
BY DEF TypeOK

LEMMA ExecStep ==
    ASSUME IInv, NEW p \in Procs, NEW image \in Images, Exec(p, image)
    PROVE  IInv'
<1> DEFINE l == [User EXCEPT !.op = "exec", !.pc = "dir", !.todo = image]
<1>1. Runs(p) /\ loc' = [loc EXCEPT ![p] = l]
      /\ UNCHANGED <<free, state, kstack, pgdir, sz, new, panic>>
  BY DEF Exec
<1>2. TypeOK /\ Parted /\ ProcInv(p)
  BY DEF IInv
<1>3. image \in Seq(Segment)
  BY VmAssumption
<1>4. l \in Locals /\ l.op = "exec" /\ l.pc = "dir" /\ l.mem = 0 /\ l.a = 0 /\ l.size = 0
  BY <1>3, UserFacts DEF User, Locals, MaybeFrame
<1> HIDE DEF l
<1>5. loc'[p] = l /\ loc' \in [Procs -> Locals] /\ \A q \in Procs : q # p => loc'[q] = loc[q]
  BY <1>1, <1>2, <1>4, NewLoc
<1>6. /\ state[p] = "alive" /\ loc[p] = User /\ new[p] = NoTable
      /\ Below(pgdir[p], sz[p]) /\ sz[p] <= HEAPLIMIT
  BY <1>1, Running
<1>7. TypeOK'
  BY <1>1, <1>2, <1>5 DEF TypeOK
<1>8. Parted'
  BY <1>1, <1>2, <1>4, <1>5, <1>6, UserFacts, Still
<1>9. StateInv(p)' /\ UserInv(p)' /\ GrowInv(p)' /\ ForkInv(p)' /\ ExecInv(p)'
  BY <1>1, <1>2, <1>4, <1>5, <1>6 DEF ProcInv, StateInv, UserInv, GrowInv, ForkInv, ExecInv
<1>10. CallInv(p)'
  <2>1. 0 = 0 * PGSIZE /\ 0 \in Nat /\ 0 < 0 + PGSIZE /\ 0 <= HEAPLIMIT
    BY Constants
  <2> QED BY <1>4, <1>5, <2>1 DEF CallInv
<1>11. BuildInv(p)'
  <2>1. Below(new[p], 0) /\ Below(pgdir[p], sz[p])
    BY <1>6, NoTableFacts
  <2> QED BY <1>1, <1>4, <1>5, <1>6, <2>1 DEF BuildInv, Below
<1>12. Neat(pgdir[p])' /\ Neat(new[p])'
  BY <1>1, <1>2 DEF ProcInv
<1>13. ProcInv(p)'
  BY <1>9, <1>10, <1>11, <1>12 DEF ProcInv
<1>14. \A q \in Procs : q # p => Kept(q)
  BY <1>1, <1>5 DEF Kept
<1> QED BY <1>2, <1>4, <1>5, <1>6, <1>7, <1>8, <1>13, <1>14, OnlyThis

LEMMA ExitStep ==
    ASSUME IInv, NEW p \in Procs, Exit(p)
    PROVE  IInv'
<1>1. state[p] = "alive" /\ loc[p] = User /\ state' = [state EXCEPT ![p] = "zombie"]
      /\ UNCHANGED <<free, kstack, pgdir, sz, new, loc, panic, calls>>
  BY DEF Exit
<1>2. TypeOK /\ Parted /\ ProcInv(p)
  BY DEF IInv
<1>3. state'[p] = "zombie" /\ \A q \in Procs : q # p => state'[q] = state[q]
  BY <1>1, <1>2 DEF TypeOK
<1>4. TypeOK'
  BY <1>1, <1>2 DEF TypeOK
<1>5. Parted'
  BY <1>1, <1>2, Still
<1>6. StateInv(p)' /\ UserInv(p)'
  BY <1>1, <1>2, <1>3 DEF ProcInv, StateInv, UserInv
<1>7. CallInv(p)' /\ GrowInv(p)' /\ BuildInv(p)' /\ ForkInv(p)' /\ ExecInv(p)'
  BY <1>1, UserFacts DEF CallInv, GrowInv, BuildInv, ForkInv, ExecInv
<1>8. Neat(pgdir[p])' /\ Neat(new[p])'
  BY <1>1, <1>2 DEF ProcInv
<1>9. ProcInv(p)'
  BY <1>6, <1>7, <1>8 DEF ProcInv
<1>10. \A q \in Procs : q # p => Kept(q)
  BY <1>1, <1>3 DEF Kept
<1> QED BY <1>1, <1>4, <1>5, <1>9, <1>10, UserFacts, OnlyThis

LEMMA GrowDoneStep ==
    ASSUME IInv, NEW p \in Procs, GrowDone(p)
    PROVE  IInv'
<1>1. loc[p].op = "grow" /\ loc[p].pc = "mem" /\ loc[p].a >= loc[p].size
      /\ sz' = [sz EXCEPT ![p] = loc[p].size] /\ loc' = [loc EXCEPT ![p] = User]
      /\ UNCHANGED <<free, state, kstack, pgdir, new, panic, calls>>
  BY DEF GrowDone, Allocated, At
<1>2. TypeOK /\ Parted /\ ProcInv(p)
  BY DEF IInv
<1>3. loc[p].size \in Nat /\ loc[p].a \in Nat
  BY <1>2, Types
<1>4. loc'[p] = User /\ loc' \in [Procs -> Locals] /\ \A q \in Procs : q # p => loc'[q] = loc[q]
  BY <1>1, <1>2, UserFacts, NewLoc
<1>5. sz'[p] = loc[p].size /\ sz' \in [Procs -> Nat] /\ \A q \in Procs : q # p => sz'[q] = sz[q]
  BY <1>1, <1>2, <1>3 DEF TypeOK
<1>6. state[p] = "alive" /\ CallInv(p) /\ GrowInv(p)
  BY <1>1, Calling
<1>7. Below(pgdir[p], loc[p].size)
  <2>1. PICK k \in Nat : loc[p].a = k * PGSIZE
    BY <1>1, <1>6 DEF CallInv
  <2>2. loc[p].a < loc[p].size + PGSIZE
    BY <1>1, <1>6 DEF CallInv
  <2>3. Below(pgdir[p], loc[p].a)
    BY <1>1, <1>6 DEF GrowInv
  <2>4. ASSUME NEW n \in Pages PROVE n * PGSIZE < loc[p].a <=> n * PGSIZE < loc[p].size
    BY <1>1, <1>3, <2>1, <2>2, PageZero, NextPage
  <2> QED BY <2>3, <2>4 DEF Below
<1>8. TypeOK'
  BY <1>1, <1>2, <1>4, <1>5 DEF TypeOK
<1>9. loc[p].mem = 0 /\ loc[p].size <= HEAPLIMIT /\ new[p] = NoTable
  BY <1>1, <1>6 DEF CallInv, GrowInv
<1>10. Parted'
  BY <1>1, <1>2, <1>4, <1>9, UserFacts, Still
<1>11. StateInv(p)'
  BY <1>1, <1>2, <1>5, <1>6, <1>9 DEF ProcInv, StateInv
<1>12. UserInv(p)'
  BY <1>1, <1>4, <1>5, <1>7, <1>9 DEF UserInv, Below
<1>13. CallInv(p)' /\ GrowInv(p)' /\ BuildInv(p)' /\ ForkInv(p)' /\ ExecInv(p)'
  BY <1>4, UserFacts DEF CallInv, GrowInv, BuildInv, ForkInv, ExecInv
<1>14. Neat(pgdir[p])' /\ Neat(new[p])'
  BY <1>1, <1>2 DEF ProcInv
<1>15. ProcInv(p)'
  BY <1>11, <1>12, <1>13, <1>14 DEF ProcInv
<1>16. \A q \in Procs : q # p => Kept(q)
  BY <1>1, <1>4, <1>5 DEF Kept
<1> QED BY <1>4, <1>6, <1>8, <1>10, <1>15, <1>16, UserFacts, OnlyThis

\* The steps of exec between its allocations.
LEMMA ExecMoves ==
    ASSUME IInv, NEW p \in Procs, loc[p].op = "exec", loc[p].mem = 0,
           NEW l \in Locals, loc' = [loc EXCEPT ![p] = l],
           UNCHANGED <<free, state, kstack, pgdir, sz, new, panic>>,
           l.op = "exec", l.mem = 0, l.pc \in {"load", "mem"}, l.size <= HEAPLIMIT,
           l.pc = "mem" => l.a < l.size + PGSIZE, NEW k \in Nat, l.a = k * PGSIZE,
           Below(new[p], IF l.pc = "load" THEN l.size ELSE l.a)
    PROVE  IInv'
<1>1. TypeOK /\ Parted /\ ProcInv(p)
  BY DEF IInv
<1>2. loc'[p] = l /\ loc' \in [Procs -> Locals] /\ \A q \in Procs : q # p => loc'[q] = loc[q]
  BY <1>1, NewLoc
<1>3. state[p] = "alive" /\ BuildInv(p)
  BY Calling
<1>4. TypeOK'
  BY <1>1, <1>2 DEF TypeOK
<1>5. Parted'
  BY <1>1, <1>2, Still
<1>6. StateInv(p)' /\ UserInv(p)' /\ GrowInv(p)' /\ ForkInv(p)' /\ ExecInv(p)'
  BY <1>1, <1>2, <1>3 DEF ProcInv, StateInv, UserInv, GrowInv, ForkInv, ExecInv
<1>7. CallInv(p)'
  BY <1>2 DEF CallInv
<1>8. BuildInv(p)'
  <2>1. Below(pgdir[p], sz[p])
    BY <1>3 DEF BuildInv
  <2>2. Below(pgdir[p], sz[p])'
    BY <2>1 DEF Below
  <2>3. Below(new[p], IF loc[p].pc = "load" THEN loc[p].size ELSE loc[p].a)'
    BY <1>2 DEF Below
  <2> QED BY <1>2, <2>2, <2>3 DEF BuildInv
<1>9. Neat(pgdir[p])' /\ Neat(new[p])'
  BY <1>1 DEF ProcInv
<1>10. ProcInv(p)'
  BY <1>6, <1>7, <1>8, <1>9 DEF ProcInv
<1>11. \A q \in Procs : q # p => Kept(q)
  BY <1>2 DEF Kept
<1> QED BY <1>2, <1>3, <1>4, <1>5, <1>10, <1>11, OnlyThis

LEMMA Loading ==
    ASSUME IInv, NEW p \in Procs, At(p, "load")
    PROVE  /\ loc[p].op = "exec" /\ loc[p].mem = 0 /\ loc[p].size <= HEAPLIMIT
           /\ Below(new[p], loc[p].size)
<1>1. loc[p].op # "user" /\ loc[p].pc = "load" /\ TypeOK
  BY DEF At, IInv
<1>2. CallInv(p) /\ GrowInv(p) /\ BuildInv(p) /\ ForkInv(p) /\ loc[p] \in Locals
  BY <1>1, Calling, Types
<1>3. loc[p].op = "exec"
  BY <1>1, <1>2 DEF GrowInv, ForkInv, Locals
<1> QED BY <1>1, <1>2, <1>3 DEF CallInv, BuildInv

LEMMA Large ==
    ASSUME NEW x \in Nat, NEW y \in Nat
    PROVE  Max({x, y}) \in {x, y} /\ x <= Max({x, y}) /\ y <= Max({x, y})
<1>1. \E z \in {x, y} : \A w \in {x, y} : z >= w
  <2>1. CASE x >= y
    BY <2>1
  <2>2. CASE y >= x
    BY <2>2
  <2> QED BY <2>1, <2>2
<1> QED BY <1>1 DEF Max

\* The pages below a size are those below it rounded up.
LEMMA BelowRounded ==
    ASSUME NEW t, NEW s \in Nat, Below(t, s)
    PROVE  Below(t, PgRoundUp(s))
<1>1. ASSUME NEW n \in Pages PROVE n * PGSIZE < PgRoundUp(s) <=> n * PGSIZE < s
  BY PageZero, RoundUpPage
<1> QED BY <1>1 DEF Below

\* When allocuvm or copyuvm is done the pages below the size are there.
LEMMA BelowSize ==
    ASSUME NEW t, NEW a \in Nat, NEW s \in Nat, NEW k \in Nat, a = k * PGSIZE,
           s <= a, a < s + PGSIZE, Below(t, a)
    PROVE  Below(t, s)
<1>1. ASSUME NEW n \in Pages PROVE n * PGSIZE < a <=> n * PGSIZE < s
  BY PageZero, NextPage
<1> QED BY <1>1 DEF Below

LEMMA LoadStep ==
    ASSUME IInv, NEW p \in Procs, Load(p)
    PROVE  IInv'
<1> DEFINE s == loc[p].size
           z == SizeWith(p, Head(loc[p].todo))
           l == [loc[p] EXCEPT !.pc = "mem", !.a = PgRoundUp(s), !.size = z]
<1>1. /\ At(p, "load") /\ loc[p].todo # <<>> /\ Accepts(p, Head(loc[p].todo))
      /\ loc' = [loc EXCEPT ![p] = l]
      /\ UNCHANGED <<free, state, kstack, pgdir, sz, new, panic>>
  BY DEF Load
<1>2. loc[p] \in Locals /\ s \in Nat /\ loc[p].todo \in Seq(Segment)
  BY Types DEF IInv
<1>3. /\ loc[p].op = "exec" /\ loc[p].mem = 0 /\ s <= HEAPLIMIT /\ Below(new[p], s)
  BY <1>1, Loading
<1>4. Head(loc[p].todo).end \in Nat /\ Head(loc[p].todo).end < HEAPLIMIT
  <2>1. Head(loc[p].todo) \in Segment
    BY <1>1, <1>2
  <2> QED BY <1>1, <2>1 DEF Segment, Accepts
<1>5. z \in Nat /\ z <= HEAPLIMIT /\ s <= z
  <2> DEFINE e == Head(loc[p].todo).end
  <2>1. z = Max({s, e})
    BY DEF SizeWith
  <2>2. s \in Nat /\ e \in Nat /\ s <= HEAPLIMIT /\ e <= HEAPLIMIT
    BY <1>2, <1>3, <1>4, Constants
  <2> HIDE DEF z, s, e
  <2>3. z \in {s, e} /\ s <= z
    BY <2>1, <2>2, Large
  <2> QED BY <2>2, <2>3
<1>6. PgRoundUp(s) \in Nat /\ PgRoundUp(s) < s + PGSIZE /\ Below(new[p], PgRoundUp(s))
  BY <1>2, <1>3, RoundUp, BelowRounded
<1>7. PICK k \in Nat : PgRoundUp(s) = k * PGSIZE
  BY <1>2, RoundUp
<1>8. /\ l \in Locals /\ l.op = loc[p].op /\ l.mem = loc[p].mem /\ l.pc = "mem"
      /\ l.a = PgRoundUp(s) /\ l.size = z
  <2> HIDE DEF z, s
  <2> QED BY <1>2, <1>5, <1>6 DEF Locals
<1> HIDE DEF l, z, s
<1>9. l.a < l.size + PGSIZE
  BY <1>2, <1>5, <1>6, <1>8, Constants
<1> QED BY <1>1, <1>3, <1>5, <1>6, <1>7, <1>8, <1>9, ExecMoves

LEMMA LoadedStep ==
    ASSUME IInv, NEW p \in Procs, Loaded(p)
    PROVE  IInv'
<1> DEFINE l == [loc[p] EXCEPT !.pc = "load", !.todo = Tail(@)]
<1>1. /\ loc[p].op = "exec" /\ loc[p].pc = "mem" /\ loc[p].a >= loc[p].size
      /\ loc[p].todo # <<>> /\ loc' = [loc EXCEPT ![p] = l]
      /\ UNCHANGED <<free, state, kstack, pgdir, sz, new, panic>>
  BY DEF Loaded, Allocated, At
<1>2. /\ loc[p] \in Locals /\ loc[p].todo \in Seq(Segment) /\ loc[p].a \in Nat
      /\ loc[p].size \in Nat
  BY Types DEF IInv
<1>3. CallInv(p) /\ BuildInv(p)
  BY <1>1, Calling
<1>4. /\ loc[p].mem = 0 /\ loc[p].size <= HEAPLIMIT /\ loc[p].a < loc[p].size + PGSIZE
      /\ \E k \in Nat : loc[p].a = k * PGSIZE
      /\ Below(new[p], loc[p].a)
  BY <1>1, <1>3 DEF CallInv, BuildInv
<1>5. PICK k \in Nat : loc[p].a = k * PGSIZE
  BY <1>4
<1>6. Below(new[p], loc[p].size)
  BY <1>1, <1>2, <1>4, <1>5, BelowSize
<1>7. /\ l \in Locals /\ l.op = loc[p].op /\ l.mem = loc[p].mem /\ l.pc = "load"
      /\ l.a = loc[p].a /\ l.size = loc[p].size
  <2>1. Tail(loc[p].todo) \in Seq(Segment)
    BY <1>1, <1>2
  <2> QED BY <1>2, <2>1 DEF Locals
<1> HIDE DEF l
<1> QED BY <1>1, <1>4, <1>5, <1>6, <1>7, ExecMoves

LEMMA StackStep ==
    ASSUME IInv, NEW p \in Procs, Stack(p)
    PROVE  IInv'
<1> DEFINE s == loc[p].size
           z == PgRoundUp(s) + 2 * PGSIZE
           l == [loc[p] EXCEPT !.pc = "mem", !.a = PgRoundUp(s), !.size = z]
<1>1. /\ At(p, "load") /\ z < HEAPLIMIT
      /\ loc' = [loc EXCEPT ![p] = l]
      /\ UNCHANGED <<free, state, kstack, pgdir, sz, new, panic>>
  BY DEF Stack
<1>2. loc[p] \in Locals /\ s \in Nat
  BY Types DEF IInv
<1>3. /\ loc[p].op = "exec" /\ loc[p].mem = 0 /\ Below(new[p], s)
  BY <1>1, Loading
<1>4. PgRoundUp(s) \in Nat /\ PgRoundUp(s) < s + PGSIZE /\ Below(new[p], PgRoundUp(s))
  BY <1>2, <1>3, RoundUp, BelowRounded
<1>5. PICK k \in Nat : PgRoundUp(s) = k * PGSIZE
  BY <1>2, RoundUp
<1>6. z \in Nat /\ PgRoundUp(s) < z + PGSIZE
  BY <1>4, Constants
<1>7. /\ l \in Locals /\ l.op = loc[p].op /\ l.mem = loc[p].mem /\ l.pc = "mem"
      /\ l.a = PgRoundUp(s) /\ l.size = z
  <2> HIDE DEF z, s
  <2> QED BY <1>2, <1>4, <1>6 DEF Locals
<1>8. z <= HEAPLIMIT
  BY <1>1, <1>6, Constants
<1> HIDE DEF l, z, s
<1> QED BY <1>1, <1>3, <1>4, <1>5, <1>6, <1>7, <1>8, ExecMoves

LEMMA Small ==
    ASSUME NEW m \in Nat \ {0}, NEW x \in 0 .. m - 1
    PROVE  x % m = x
OBVIOUS

\* sbrk with a positive difference: no int makes the size wrap.
LEMMA GrowUpStep ==
    ASSUME IInv, NEW p \in Procs, NEW n \in Deltas, Runs(p), n > 0,
           (sz[p] + n) % UINTMOD < HEAPLIMIT,
           loc' = [loc EXCEPT ![p] =
                      [User EXCEPT !.op = "grow", !.pc = "mem", !.size = (sz[p] + n) % UINTMOD,
                                   !.a = PgRoundUp(sz[p])]],
           UNCHANGED <<free, state, kstack, pgdir, sz, new, panic>>
    PROVE  IInv'
<1> DEFINE z == (sz[p] + n) % UINTMOD
           l == [User EXCEPT !.op = "grow", !.pc = "mem", !.size = z, !.a = PgRoundUp(sz[p])]
<1>1. TypeOK /\ Parted /\ ProcInv(p)
  BY DEF IInv
<1>2. /\ state[p] = "alive" /\ loc[p] = User /\ new[p] = NoTable
      /\ Below(pgdir[p], sz[p]) /\ sz[p] \in Nat /\ sz[p] <= HEAPLIMIT
  BY Running
<1>3. z = sz[p] + n /\ z \in Nat /\ z <= HEAPLIMIT
  <2>1. /\ UINTMOD \in Nat /\ HEAPLIMIT < UINTMOD \div 2 /\ n <= UINTMOD \div 2 - 1
        /\ HEAPLIMIT \in Nat /\ n \in Int
    BY VmAssumption
  <2>2. sz[p] + n \in 0 .. UINTMOD - 1 /\ UINTMOD \in Nat \ {0}
    BY <1>2, <2>1
  <2>3. z = sz[p] + n
    BY <2>2, Small
  <2> QED BY <1>2, <2>1, <2>2, <2>3
<1>4. /\ PgRoundUp(sz[p]) \in Nat /\ sz[p] <= PgRoundUp(sz[p]) /\ PgRoundUp(sz[p]) < sz[p] + PGSIZE
      /\ Below(pgdir[p], PgRoundUp(sz[p]))
      /\ \E k \in Nat : PgRoundUp(sz[p]) = k * PGSIZE
  BY <1>2, RoundUp, BelowRounded
<1>5. /\ l \in Locals /\ l.op = "grow" /\ l.pc = "mem" /\ l.mem = 0
      /\ l.a = PgRoundUp(sz[p]) /\ l.size = z
  <2> HIDE DEF z
  <2> QED BY <1>3, <1>4, UserFacts DEF User, Locals, MaybeFrame
<1>6. sz[p] <= z /\ PgRoundUp(sz[p]) < z + PGSIZE
  <2>1. n \in Int
    BY VmAssumption
  <2> HIDE DEF z
  <2> QED BY <1>2, <1>3, <1>4, <2>1, Constants
<1> HIDE DEF l, z
<1>7. loc'[p] = l /\ loc' \in [Procs -> Locals] /\ \A q \in Procs : q # p => loc'[q] = loc[q]
  BY <1>1, <1>5, NewLoc DEF l, z
<1>8. TypeOK'
  BY <1>1, <1>7 DEF TypeOK
<1>9. Parted'
  BY <1>1, <1>2, <1>5, <1>7, UserFacts, Still
<1>10. StateInv(p)' /\ UserInv(p)' /\ BuildInv(p)' /\ ForkInv(p)' /\ ExecInv(p)'
  BY <1>1, <1>2, <1>5, <1>7 DEF ProcInv, StateInv, UserInv, BuildInv, ForkInv, ExecInv
<1>11. CallInv(p)'
  BY <1>3, <1>4, <1>5, <1>6, <1>7 DEF CallInv
<1>12. GrowInv(p)'
  BY <1>2, <1>4, <1>5, <1>6, <1>7 DEF GrowInv, Below
<1>13. Neat(pgdir[p])' /\ Neat(new[p])'
  BY <1>1 DEF ProcInv
<1>14. ProcInv(p)'
  BY <1>10, <1>11, <1>12, <1>13 DEF ProcInv
<1>15. \A q \in Procs : q # p => Kept(q)
  BY <1>7 DEF Kept
<1> QED BY <1>2, <1>5, <1>7, <1>8, <1>9, <1>14, <1>15, OnlyThis

----------------------------------------------------------------------------
(* Steps that move frames *)

\* A negative difference gives pages back; at size 0 the size stays.
LEMMA GrowDownStep ==
    ASSUME IInv, NEW p \in Procs, NEW n \in Deltas, Runs(p),
           NEW z, z = (sz[p] + n) % UINTMOD, z < sz[p],
           free' = free \cup DeallocFrames(pgdir[p], sz[p], z),
           pgdir' = [pgdir EXCEPT ![p] = DeallocUvm(pgdir[p], sz[p], z)],
           sz' = IF z = 0 THEN sz ELSE [sz EXCEPT ![p] = z],
           UNCHANGED <<state, kstack, new, loc, panic>>
    PROVE  IInv'
<1> DEFINE F == DeallocFrames(pgdir[p], sz[p], z)
           u == DeallocUvm(pgdir[p], sz[p], z)
<1>1. TypeOK /\ Parted /\ ProcInv(p)
  BY DEF IInv
<1>2. /\ state[p] = "alive" /\ loc[p] = User /\ new[p] = NoTable
      /\ Below(pgdir[p], sz[p]) /\ sz[p] \in Nat /\ sz[p] <= HEAPLIMIT
      /\ Neat(pgdir[p]) /\ pgdir[p] \in Tables
  BY Running
<1>3. z \in Nat
  <2>1. UINTMOD \in Nat \ {0} /\ n \in Int
    BY VmAssumption
  <2>2. (sz[p] + n) % UINTMOD \in Nat
    BY <1>2, <2>1
  <2> QED BY <2>2
<1>4. /\ u \in Tables /\ Neat(u) /\ Below(u, z) /\ F \subseteq TableFrames(pgdir[p])
      /\ TableFrames(u) = TableFrames(pgdir[p]) \ F
  BY <1>2, <1>3, DeallocFacts
<1> HIDE DEF F, u
<1>5. pgdir'[p] = u /\ pgdir' \in [Procs -> Tables]
      /\ \A q \in Procs : q # p => pgdir'[q] = pgdir[q]
  BY <1>1, <1>4 DEF TypeOK, u
<1>6. F \subseteq Frames
  BY <1>2, <1>4, InTable
<1>7. sz' \in [Procs -> Nat] /\ (z # 0 => sz'[p] = z) /\ (z = 0 => sz'[p] = sz[p])
      /\ \A q \in Procs : q # p => sz'[q] = sz[q]
  BY <1>1, <1>3 DEF TypeOK
<1>8. TypeOK'
  BY <1>1, <1>5, <1>6, <1>7 DEF TypeOK, F
<1>9. Parted'
  <2> DEFINE o == <<"pgdir", p>>
             R == {Free, o}
  <2>1. o # Free /\ R \in SUBSET Owners
    BY OwnAt DEF Free
  <2>2. Own(Free) = free /\ Own(Free)' = free \cup F /\ Own(o) = TableFrames(pgdir[p])
        /\ Own(o)' = TableFrames(pgdir[p]) \ F
    BY <1>4, <1>5, OwnAt DEF F
  <2>3. ASSUME NEW x \in Owners \ R PROVE Own(x)' = Own(x)
    <3>1. x # Free /\ x # o /\ x[2] \in Procs /\ x = <<x[1], x[2]>>
      BY DEF Owners
    <3>2. x[1] = "pgdir" => pgdir'[x[2]] = pgdir[x[2]]
      BY <3>1, <1>5
    <3> QED BY <3>1, <3>2, Unmoved
  <2> HIDE DEF o
  <2>4. ASSUME NEW f \in Frames PROVE (\E x \in R : f \in Own(x)') <=> (\E x \in R : f \in Own(x))
    BY <2>2, <1>4
  <2>5. ASSUME NEW f \in Frames, f \in Own(Free)', f \in Own(o)' PROVE FALSE
    <3>1. f \in Own(Free) /\ f \in Own(o)
      BY <2>2, <2>5
    <3> QED BY <1>1, <2>1, <3>1, OneOwner
  <2>6. \A f \in Frames : \A y, x \in R : f \in Own(y)' /\ f \in Own(x)' => x = y
    BY <2>5
  <2> HIDE DEF R
  <2> QED BY <1>1, <2>1, <2>3, <2>4, <2>6, Moved
<1>10. StateInv(p)'
  BY <1>1, <1>2, <1>3, <1>5, <1>7, Constants DEF ProcInv, StateInv
<1>11. UserInv(p)'
  <2>1. pgdir'[p].pte[0] = 0 \/ Below(pgdir'[p], sz'[p])
    <3>1. CASE z # 0
      BY <3>1, <1>4, <1>5, <1>7
    <3>2. CASE z = 0
      <4>1. u.pte[0] # 0 <=> 0 * PGSIZE < 0
        BY <3>2, <1>4, PageZero DEF Below
      <4>2. ~(0 * PGSIZE < 0)
        BY Constants
      <4> QED BY <4>1, <4>2, <1>5
    <3> QED BY <3>1, <3>2
  <2>2. (pgdir[p].pte[0] = 0 \/ Below(pgdir[p], sz[p]))'
    BY <2>1
  <2> QED BY <1>2, <2>2 DEF UserInv
<1>12. CallInv(p)' /\ GrowInv(p)' /\ BuildInv(p)' /\ ForkInv(p)' /\ ExecInv(p)'
  BY <1>2, UserFacts DEF CallInv, GrowInv, BuildInv, ForkInv, ExecInv
<1>13. Neat(pgdir[p])' /\ Neat(new[p])'
  BY <1>1, <1>4, <1>5 DEF ProcInv
<1>14. ProcInv(p)'
  BY <1>10, <1>11, <1>12, <1>13 DEF ProcInv
<1>15. \A q \in Procs : q # p => Kept(q)
  BY <1>5, <1>7 DEF Kept
<1> QED BY <1>2, <1>8, <1>9, <1>14, <1>15, UserFacts, OnlyThis

LEMMA GrowStep ==
    ASSUME IInv, NEW p \in Procs, NEW n \in Deltas, Grow(p, n)
    PROVE  IInv'
<1>1. CASE n > 0
  <2>1. ~(n < 0)
    BY <1>1, VmAssumption
  <2> QED BY <1>1, <2>1, GrowUpStep DEF Grow
<1>2. CASE ~(n > 0)
  BY <1>2, GrowDownStep DEF Grow
<1> QED BY <1>1, <1>2

LEMMA ForkStep ==
    ASSUME IInv, NEW p \in Procs, NEW c \in Procs, Fork(p, c)
    PROVE  IInv'
<1> DEFINE k == Kalloc
           l == [User EXCEPT !.op = "fork", !.pc = "dir", !.size = sz[p], !.child = c]
<1>1. /\ Runs(p) /\ state[c] = "unused" /\ free # {}
      /\ state' = [state EXCEPT ![c] = "embryo"] /\ kstack' = [kstack EXCEPT ![c] = k]
      /\ free' = free \ {k} /\ loc' = [loc EXCEPT ![p] = l]
      /\ UNCHANGED <<pgdir, sz, new, panic>>
  BY DEF Fork
<1>2. TypeOK /\ Parted /\ OneParent /\ ProcInv(p) /\ ProcInv(c)
  BY DEF IInv
<1>3. /\ state[p] = "alive" /\ loc[p] = User /\ new[p] = NoTable
      /\ Below(pgdir[p], sz[p]) /\ sz[p] \in Nat /\ sz[p] <= HEAPLIMIT
  BY <1>1, Running
<1>4. p # c /\ loc[c] = User /\ pgdir[c] = NoTable /\ kstack[c] = 0
  BY <1>1, <1>2, <1>3 DEF ProcInv, StateInv
<1>5. k \in free /\ k \in Frames /\ k # 0
  BY <1>1, <1>2, KallocFree, Fresh
<1>6. /\ l \in Locals /\ l.op = "fork" /\ l.pc = "dir" /\ l.mem = 0 /\ l.a = 0
      /\ l.size = sz[p] /\ l.child = c
  BY <1>3, UserFacts DEF User, Locals, MaybeFrame
<1> HIDE DEF l, k
<1>7. loc'[p] = l /\ loc' \in [Procs -> Locals] /\ \A q \in Procs : q # p => loc'[q] = loc[q]
  BY <1>1, <1>2, <1>6, NewLoc
<1>8. /\ state'[c] = "embryo" /\ \A q \in Procs : q # c => state'[q] = state[q]
      /\ kstack'[c] = k /\ \A q \in Procs : q # c => kstack'[q] = kstack[q]
  BY <1>1, <1>2 DEF TypeOK
<1>9. TypeOK'
  BY <1>1, <1>2, <1>5, <1>7 DEF TypeOK, MaybeFrame
<1>10. Parted'
  <2> DEFINE o == <<"kstack", c>>
  <2>1. o # Free /\ o \in Owners /\ Own(o) = {} /\ Own(o)' = {k}
    BY <1>4, <1>5, <1>8, OwnAt DEF Free
  <2>2. ASSUME NEW x \in Owners, x # o, x # Free PROVE Own(x)' = Own(x)
    <3>1. x[2] \in Procs /\ x = <<x[1], x[2]>>
      BY DEF Owners
    <3>2. x[1] = "kstack" => kstack'[x[2]] = kstack[x[2]]
      BY <2>2, <3>1, <1>8
    <3>3. loc'[x[2]].mem = loc[x[2]].mem
      BY <3>1, <1>3, <1>6, <1>7, UserFacts
    <3> QED BY <2>2, <3>1, <3>2, <3>3, <1>1, Unmoved
  <2> HIDE DEF o
  <2>3. Own(o)' = Own(o) \cup {k}
    BY <2>1
  <2> QED BY <1>1, <1>2, <1>5, <2>1, <2>2, <2>3, Taken
<1>11. OneParent'
  <2>1. \A q \in Procs : loc[q].op = "fork" => loc[q].child # c
    BY <1>1 DEF IInv, ProcInv, ForkInv
  <2> QED BY <2>1, <1>2, <1>6, <1>7 DEF OneParent
<1>12. ProcInv(p)'
  <2>1. StateInv(p)' /\ UserInv(p)' /\ GrowInv(p)' /\ ExecInv(p)'
    BY <1>1, <1>2, <1>3, <1>4, <1>6, <1>7, <1>8
       DEF ProcInv, StateInv, UserInv, GrowInv, ExecInv
  <2>2. CallInv(p)'
    <3>1. 0 = 0 * PGSIZE /\ 0 \in Nat /\ 0 < sz[p] + PGSIZE
      BY <1>3, Constants
    <3> QED BY <1>3, <1>6, <1>7, <3>1 DEF CallInv
  <2>3. BuildInv(p)'
    <3>1. Below(new[p], 0)
      BY <1>3, NoTableFacts
    <3> QED BY <1>1, <1>3, <1>6, <1>7, <3>1 DEF BuildInv, Below
  <2>4. ForkInv(p)'
    BY <1>1, <1>6, <1>7, <1>8 DEF ForkInv
  <2>5. Neat(pgdir[p])' /\ Neat(new[p])'
    BY <1>1, <1>2 DEF ProcInv
  <2> QED BY <2>1, <2>2, <2>3, <2>4, <2>5 DEF ProcInv
<1>13. ProcInv(c)'
  <2>1. loc'[c] = User
    BY <1>4, <1>7
  <2>2. new[c] = NoTable
    BY <1>2, <1>4, UserFacts DEF ProcInv, UserInv
  <2>3. StateInv(c)' /\ UserInv(c)'
    BY <1>1, <1>2, <1>4, <1>5, <1>8, <2>1, <2>2 DEF ProcInv, StateInv, UserInv
  <2>4. CallInv(c)' /\ GrowInv(c)' /\ BuildInv(c)' /\ ForkInv(c)' /\ ExecInv(c)'
    BY <2>1, UserFacts DEF CallInv, GrowInv, BuildInv, ForkInv, ExecInv
  <2>5. Neat(pgdir[c])' /\ Neat(new[c])'
    BY <1>1, <1>2 DEF ProcInv
  <2> QED BY <2>3, <2>4, <2>5 DEF ProcInv
<1>14. ASSUME NEW q \in Procs \ {p, c}
       PROVE  Kept(q) /\ (loc[q].op = "fork" => loc[q].child \notin {p, c})
  <2>1. Kept(q)
    BY <1>1, <1>7, <1>8 DEF Kept
  <2>2. loc[q].op = "fork" => state[loc[q].child] = "embryo"
    BY DEF IInv, ProcInv, ForkInv
  <2> QED BY <2>1, <2>2, <1>1, <1>3
<1>15. {p, c} \in SUBSET Procs /\ \A q \in {p, c} : ProcInv(q)'
  BY <1>12, <1>13
<1> QED BY <1>9, <1>10, <1>11, <1>14, <1>15, OnlyThese

LEMMA WaitStep ==
    ASSUME IInv, NEW p \in Procs, NEW c \in Procs, Wait(p, c)
    PROVE  IInv'
<1>1. /\ state[c] = "zombie" /\ free' = free \cup {kstack[c]} \cup VmFrames(pgdir[c])
      /\ state' = [state EXCEPT ![c] = "unused"] /\ kstack' = [kstack EXCEPT ![c] = 0]
      /\ pgdir' = [pgdir EXCEPT ![c] = NoTable] /\ sz' = [sz EXCEPT ![c] = 0]
      /\ UNCHANGED <<new, loc, panic>>
  BY DEF Wait
<1>2. TypeOK /\ Parted /\ ProcInv(c)
  BY DEF IInv
<1>3. loc[c] = User /\ new[c] = NoTable /\ kstack[c] # 0
  <2>1. loc[c] = User /\ kstack[c] # 0
    BY <1>1, <1>2 DEF ProcInv, StateInv
  <2> QED BY <1>2, <2>1, UserFacts DEF ProcInv, UserInv
<1>4. /\ pgdir[c] \in Tables /\ kstack[c] \in Frames /\ VmFrames(pgdir[c]) = TableFrames(pgdir[c])
      /\ TableFrames(pgdir[c]) \subseteq Frames
  BY <1>2, <1>3, Types, VmFramesAll, InTable DEF MaybeFrame
<1>5. /\ state'[c] = "unused" /\ kstack'[c] = 0 /\ pgdir'[c] = NoTable /\ sz'[c] = 0
      /\ \A q \in Procs : q # c => /\ state'[q] = state[q] /\ kstack'[q] = kstack[q]
                                   /\ pgdir'[q] = pgdir[q] /\ sz'[q] = sz[q]
  BY <1>1, <1>2 DEF TypeOK
<1>6. TypeOK'
  <2>1. free' \subseteq Frames
    BY <1>1, <1>2, <1>4 DEF TypeOK
  <2>2. pgdir' \in [Procs -> Tables]
    BY <1>1, <1>2, NoTableFacts DEF TypeOK
  <2> QED BY <1>1, <1>2, <2>1, <2>2 DEF TypeOK, MaybeFrame
<1>7. Parted'
  <2> DEFINE o == <<"pgdir", c>>
             y == <<"kstack", c>>
             R == {o, y}
  <2>1. Free \notin R /\ R \in SUBSET Owners
    BY OwnAt DEF Free
  <2>2. /\ Own(o) = TableFrames(pgdir[c]) /\ Own(y) = {kstack[c]}
        /\ Own(o)' = {} /\ Own(y)' = {}
    BY <1>3, <1>5, OwnAt, NoTableFacts
  <2>3. ASSUME NEW x \in Owners, x \notin R, x # Free PROVE Own(x)' = Own(x)
    <3>1. x[2] \in Procs /\ x = <<x[1], x[2]>>
      BY DEF Owners
    <3>2. x[1] = "pgdir" => pgdir'[x[2]] = pgdir[x[2]]
      BY <2>3, <3>1, <1>5
    <3>3. x[1] = "kstack" => kstack'[x[2]] = kstack[x[2]]
      BY <2>3, <3>1, <1>5
    <3> QED BY <2>3, <3>1, <3>2, <3>3, <1>1, Unmoved
  <2> HIDE DEF o, y
  <2>4. \A f \in Frames : f \in free' <=> f \in free \/ \E x \in R : f \in Own(x)
    BY <2>2, <1>1, <1>4
  <2>5. \A x \in R : Own(x)' = {}
    BY <2>2
  <2> HIDE DEF R
  <2> QED BY <1>2, <2>1, <2>3, <2>4, <2>5, Given
<1>8. StateInv(c)' /\ UserInv(c)'
  BY <1>1, <1>3, <1>5, Constants DEF StateInv, UserInv
<1>9. CallInv(c)' /\ GrowInv(c)' /\ BuildInv(c)' /\ ForkInv(c)' /\ ExecInv(c)'
  BY <1>1, <1>3, UserFacts DEF CallInv, GrowInv, BuildInv, ForkInv, ExecInv
<1>10. Neat(pgdir[c])' /\ Neat(new[c])'
  <2>1. pgdir'[c] = NoTable /\ new'[c] = NoTable
    BY <1>1, <1>3, <1>5
  <2> QED BY <2>1, NoTableFacts
<1>11. ProcInv(c)'
  BY <1>8, <1>9, <1>10 DEF ProcInv
<1>12. \A q \in Procs : q # c => Kept(q)
  BY <1>1, <1>5 DEF Kept
<1>13. state[c] # "embryo" /\ loc'[c].op # "fork"
  BY <1>1, <1>3, UserFacts
<1> QED BY <1>6, <1>7, <1>11, <1>12, <1>13, OnlyThis

\* setupkvm gives the table t, which has no pages yet, to p.
LEMMA KvmStep ==
    ASSUME IInv, NEW p \in Procs, loc[p].op \in {"fork", "exec"}, loc[p].pc \in {"dir", "kpt"},
           free # {}, free' = free \ {Kalloc}, NEW t \in Tables, new' = [new EXCEPT ![p] = t],
           Neat(t), TableFrames(t) = TableFrames(new[p]) \cup {Kalloc}, t.pte = new[p].pte,
           NEW l \in Locals, loc' = [loc EXCEPT ![p] = l],
           l.op = loc[p].op, l.mem = loc[p].mem, l.a = loc[p].a, l.size = loc[p].size,
           l.child = loc[p].child, l.pc \in {"kpt", "load", "mem"},
           l.pc = "load" => l.op = "exec",
           UNCHANGED <<state, kstack, pgdir, sz, panic>>
    PROVE  IInv'
<1> DEFINE k == Kalloc
<1>1. TypeOK /\ Parted /\ ProcInv(p)
  BY DEF IInv
<1>2. loc'[p] = l /\ loc' \in [Procs -> Locals] /\ \A q \in Procs : q # p => loc'[q] = loc[q]
  BY <1>1, NewLoc
<1>3. new'[p] = t /\ new' \in [Procs -> Tables] /\ \A q \in Procs : q # p => new'[q] = new[q]
  BY <1>1 DEF TypeOK
<1>4. state[p] = "alive" /\ CallInv(p) /\ BuildInv(p) /\ ForkInv(p) /\ ExecInv(p) /\ Neat(pgdir[p])
  BY Calling
<1>5. k \in free
  BY KallocFree
<1> HIDE DEF k
<1>6. TypeOK'
  BY <1>1, <1>2, <1>3 DEF TypeOK
<1>7. Parted'
  <2> DEFINE o == <<"new", p>>
  <2>1. o # Free /\ o \in Owners /\ Own(o) = TableFrames(new[p]) /\ Own(o)' = TableFrames(t)
    BY <1>3, OwnAt DEF Free
  <2>2. ASSUME NEW x \in Owners, x # o, x # Free PROVE Own(x)' = Own(x)
    <3>1. x[2] \in Procs /\ x = <<x[1], x[2]>>
      BY DEF Owners
    <3>2. x[1] = "new" => new'[x[2]] = new[x[2]]
      BY <2>2, <3>1, <1>3
    <3>3. loc'[x[2]].mem = loc[x[2]].mem
      BY <3>1, <1>2
    <3> QED BY <2>2, <3>1, <3>2, <3>3, Unmoved
  <2> HIDE DEF o
  <2>3. Own(o)' = Own(o) \cup {k} /\ free' = free \ {k}
    BY <2>1 DEF k
  <2> QED BY <1>1, <1>5, <2>1, <2>2, <2>3, Taken
<1>8. StateInv(p)' /\ UserInv(p)' /\ GrowInv(p)' /\ ForkInv(p)' /\ ExecInv(p)'
  BY <1>1, <1>2, <1>4 DEF ProcInv, StateInv, UserInv, GrowInv, ForkInv, ExecInv
<1>9. CallInv(p)'
  BY <1>2, <1>4 DEF CallInv
<1>10. BuildInv(p)'
  <2>1. loc[p].a = 0 /\ Below(new[p], 0) /\ Below(pgdir[p], sz[p])
    BY <1>4 DEF BuildInv
  <2>2. Below(t, 0) /\ Below(pgdir'[p], sz'[p])
    BY <2>1, BelowSame
  <2>3. l.pc = "load" => loc[p].size = 0
    BY <1>4 DEF ExecInv
  <2>4. (Below(pgdir[p], sz[p]))'
    BY <2>2
  <2>5. (Below(new[p], IF loc[p].pc = "load" THEN loc[p].size ELSE loc[p].a))'
    BY <2>1, <2>2, <2>3, <1>2, <1>3
  <2> QED BY <1>2, <2>1, <2>4, <2>5 DEF BuildInv
<1>11. Neat(pgdir[p])' /\ Neat(new[p])'
  BY <1>3, <1>4
<1>12. ProcInv(p)'
  BY <1>8, <1>9, <1>10, <1>11 DEF ProcInv
<1>13. \A q \in Procs : q # p => Kept(q)
  BY <1>2, <1>3 DEF Kept
<1>14. state[p] # "embryo" /\ (loc'[p].op = "fork" => loc[p].op = "fork" /\ loc'[p].child = loc[p].child)
  BY <1>2, <1>4
<1> QED BY <1>6, <1>7, <1>12, <1>13, <1>14, OnlyThis

\* Only fork and exec call setupkvm.
LEMMA InSetup ==
    ASSUME IInv, NEW p \in Procs, At(p, "dir") \/ At(p, "kpt")
    PROVE  /\ loc[p].op \in {"fork", "exec"} /\ loc[p].pc \in {"dir", "kpt"}
           /\ loc[p] \in Locals /\ new[p] \in Tables /\ Neat(new[p])
<1>1. loc[p].op # "user" /\ loc[p].pc \in {"dir", "kpt"} /\ TypeOK
  BY DEF At, IInv
<1>2. GrowInv(p) /\ Neat(new[p]) /\ loc[p] \in Locals /\ new[p] \in Tables
  BY <1>1, Calling, Types
<1> QED BY <1>1, <1>2 DEF GrowInv, Locals

LEMMA KvmDirStep ==
    ASSUME IInv, NEW p \in Procs, KvmDir(p)
    PROVE  IInv'
<1> DEFINE k == Kalloc
           t == [new[p] EXCEPT !.dir = k]
           l == [loc[p] EXCEPT !.pc = "kpt"]
<1>1. /\ At(p, "dir") /\ free # {} /\ new' = [new EXCEPT ![p] = t] /\ free' = free \ {k}
      /\ loc' = [loc EXCEPT ![p] = l] /\ UNCHANGED <<state, kstack, pgdir, sz, panic>>
  BY DEF KvmDir
<1>2. /\ loc[p].op \in {"fork", "exec"} /\ loc[p].pc = "dir"
      /\ loc[p] \in Locals /\ new[p] \in Tables /\ Neat(new[p])
  BY <1>1, InSetup DEF At
<1>3. new[p] = NoTable
  BY <1>2, Calling DEF BuildInv
<1>4. k \in Frames /\ k \notin TableFrames(new[p])
  BY <1>1, KallocFree, Fresh DEF IInv
<1>5. t \in Tables /\ Neat(t) /\ TableFrames(t) = TableFrames(new[p]) \cup {k} /\ t.pte = new[p].pte
  BY <1>2, <1>3, <1>4, NoTableFacts, SetDir
<1>6. /\ l \in Locals /\ l.op = loc[p].op /\ l.mem = loc[p].mem /\ l.a = loc[p].a
      /\ l.size = loc[p].size /\ l.child = loc[p].child /\ l.pc = "kpt"
  BY <1>2 DEF Locals
<1> HIDE DEF l, t
<1> QED BY <1>1, <1>2, <1>5, <1>6, KvmStep

LEMMA KvmPtStep ==
    ASSUME IInv, NEW p \in Procs, KvmPt(p)
    PROVE  IInv'
<1> DEFINE k == Kalloc
           t == [new[p] EXCEPT !.kpt = @ \cup {k}]
           c == CASE Cardinality(new'[p].kpt) < NKPT -> "kpt"
                  [] loc[p].op = "exec" -> "load"
                  [] OTHER -> "mem"
           l == [loc[p] EXCEPT !.pc = c]
<1>1. /\ At(p, "kpt") /\ free # {} /\ new' = [new EXCEPT ![p] = t] /\ free' = free \ {k}
      /\ loc' = [loc EXCEPT ![p] = l] /\ UNCHANGED <<state, kstack, pgdir, sz, panic>>
  BY DEF KvmPt
<1>2. /\ loc[p].op \in {"fork", "exec"} /\ loc[p].pc \in {"dir", "kpt"}
      /\ loc[p] \in Locals /\ new[p] \in Tables /\ Neat(new[p])
  BY <1>1, InSetup
<1>3. c \in {"kpt", "load", "mem"} /\ (c = "load" => loc[p].op = "exec")
  OBVIOUS
<1>4. k \in Frames /\ k \notin TableFrames(new[p])
  BY <1>1, KallocFree, Fresh DEF IInv
<1>5. t \in Tables /\ Neat(t) /\ TableFrames(t) = TableFrames(new[p]) \cup {k} /\ t.pte = new[p].pte
  BY <1>2, <1>4, AddKpt
<1>6. /\ l \in Locals /\ l.op = loc[p].op /\ l.mem = loc[p].mem /\ l.a = loc[p].a
      /\ l.size = loc[p].size /\ l.child = loc[p].child /\ l.pc = c
  <2> HIDE DEF c
  <2> QED BY <1>2, <1>3 DEF Locals
<1> HIDE DEF l, t, c
<1> QED BY <1>1, <1>2, <1>3, <1>5, <1>6, KvmStep

\* Inside allocuvm or copyuvm the address is that of a page of the table, which
\* is not mapped yet.
LEMMA AtPage ==
    ASSUME IInv, NEW p \in Procs, At(p, "mem") \/ At(p, "map"), loc[p].a < loc[p].size
    PROVE  /\ loc[p].op # "user" /\ loc[p].pc \in {"mem", "map"}
           /\ Table(p) \in Tables /\ Neat(Table(p)) /\ Below(Table(p), loc[p].a)
           /\ \E k \in Pages : /\ loc[p].a = k * PGSIZE /\ loc[p].a < HEAPLIMIT
                               /\ PageOf(loc[p].a) = k /\ Table(p).pte[k] = 0
<1>1. loc[p].op # "user" /\ loc[p].pc \in {"mem", "map"} /\ TypeOK
  BY DEF At, IInv
<1>2. /\ CallInv(p) /\ GrowInv(p) /\ BuildInv(p) /\ Neat(pgdir[p]) /\ Neat(new[p])
      /\ loc[p] \in Locals /\ loc[p].a \in Nat /\ loc[p].size \in Nat
      /\ pgdir[p] \in Tables /\ new[p] \in Tables
  BY <1>1, Calling, Types
<1>3. PICK k \in Nat : loc[p].a = k * PGSIZE
  BY <1>1, <1>2 DEF CallInv
<1>4. loc[p].a < HEAPLIMIT
  BY <1>1, <1>2, Constants DEF CallInv
<1>5. PageOf(loc[p].a) = k /\ k \in Pages
  BY <1>2, <1>3, <1>4, PageAt
<1>6. Table(p) \in Tables /\ Neat(Table(p)) /\ Below(Table(p), loc[p].a)
  <2>1. CASE loc[p].op = "grow"
    BY <1>2, <2>1 DEF Table, GrowInv
  <2>2. CASE loc[p].op # "grow"
    <3>1. loc[p].op \in {"fork", "exec"}
      BY <1>1, <1>2, <2>2 DEF Locals
    <3> QED BY <1>1, <1>2, <2>2, <3>1 DEF Table, BuildInv
  <2> QED BY <2>1, <2>2
<1>7. Table(p).pte[k] = 0
  <2>1. ~(k * PGSIZE < loc[p].a)
    BY <1>2, <1>3
  <2> QED BY <1>5, <1>6, <2>1 DEF Below
<1> QED BY <1>1, <1>3, <1>4, <1>5, <1>6, <1>7

LEMMA MemStep ==
    ASSUME IInv, NEW p \in Procs, Mem(p)
    PROVE  IInv'
<1> DEFINE f == Kalloc
           l == [loc[p] EXCEPT !.mem = f, !.pc = "map"]
<1>1. /\ At(p, "mem") /\ loc[p].a < loc[p].size
      /\ UNCHANGED <<state, kstack, pgdir, sz, new, calls>>
  BY DEF Mem
<1>2. TypeOK /\ Parted /\ ProcInv(p)
  BY DEF IInv
<1>3. loc[p].op # "user" /\ loc[p].pc = "mem" /\ loc[p] \in Locals
  BY <1>1, <1>2, Types DEF At
<1>4. state[p] = "alive" /\ CallInv(p) /\ GrowInv(p) /\ BuildInv(p) /\ ForkInv(p) /\ ExecInv(p)
  BY <1>3, Calling
<1>5. PICK k \in Pages : loc[p].a = k * PGSIZE /\ PageOf(loc[p].a) = k
  BY <1>1, AtPage
<1>6. ~Missing(p)
  BY <1>1, <1>4, <1>5 DEF BuildInv, ForkInv, Below, Missing
<1>f. free # {}
  BY <1>6 DEF Mem
<1>7. loc' = [loc EXCEPT ![p] = l] /\ free' = free \ {f} /\ UNCHANGED panic
  BY <1>6 DEF Mem
<1>8. f \in free /\ f \in Frames /\ f # 0
  BY <1>2, <1>f, KallocFree, Fresh
<1>9. /\ l \in Locals /\ l.op = loc[p].op /\ l.mem = f /\ l.a = loc[p].a
      /\ l.size = loc[p].size /\ l.child = loc[p].child /\ l.pc = "map"
  <2>1. f \in MaybeFrame
    BY <1>8 DEF MaybeFrame
  <2> HIDE DEF f
  <2> QED BY <1>3, <2>1 DEF Locals
<1> HIDE DEF l, f
<1>10. loc'[p] = l /\ loc' \in [Procs -> Locals] /\ \A q \in Procs : q # p => loc'[q] = loc[q]
  BY <1>2, <1>7, <1>9, NewLoc
<1>11. TypeOK'
  BY <1>1, <1>2, <1>7, <1>10 DEF TypeOK
<1>12. Parted'
  <2> DEFINE o == <<"mem", p>>
  <2>1. loc[p].mem = 0
    BY <1>3, <1>4 DEF CallInv
  <2>2. o # Free /\ o \in Owners /\ Own(o) = {} /\ Own(o)' = {f}
    BY <2>1, <1>8, <1>9, <1>10, OwnAt DEF Free
  <2>3. ASSUME NEW x \in Owners, x # o, x # Free PROVE Own(x)' = Own(x)
    <3>1. x[2] \in Procs /\ x = <<x[1], x[2]>>
      BY DEF Owners
    <3>2. x[1] = "mem" => loc'[x[2]].mem = loc[x[2]].mem
      BY <2>3, <3>1, <1>10
    <3> QED BY <2>3, <3>1, <3>2, <1>1, Unmoved
  <2> HIDE DEF o
  <2>4. Own(o)' = Own(o) \cup {f}
    BY <2>2
  <2> QED BY <1>2, <1>7, <1>8, <2>2, <2>3, <2>4, Taken
<1>13. StateInv(p)' /\ UserInv(p)' /\ ForkInv(p)' /\ ExecInv(p)'
  BY <1>1, <1>2, <1>3, <1>4, <1>9, <1>10 DEF ProcInv, StateInv, UserInv, ForkInv, ExecInv
<1>14. CallInv(p)'
  BY <1>1, <1>3, <1>4, <1>8, <1>9, <1>10 DEF CallInv
<1>15. GrowInv(p)' /\ BuildInv(p)'
  BY <1>1, <1>3, <1>4, <1>9, <1>10 DEF GrowInv, BuildInv, Below
<1>16. Neat(pgdir[p])' /\ Neat(new[p])'
  BY <1>1, <1>2 DEF ProcInv
<1>17. ProcInv(p)'
  BY <1>13, <1>14, <1>15, <1>16 DEF ProcInv
<1>18. \A q \in Procs : q # p => Kept(q)
  BY <1>1, <1>10 DEF Kept
<1>19. state[p] # "embryo" /\ (loc'[p].op = "fork" => loc[p].op = "fork" /\ loc'[p].child = loc[p].child)
  BY <1>4, <1>9, <1>10
<1> QED BY <1>11, <1>12, <1>17, <1>18, <1>19, OnlyThis

\* What mappages makes of the table of p.
LEMMA Mapped ==
    ASSUME IInv, NEW p \in Procs, At(p, "map"), NeedsPt(Table(p), loc[p].a) => free # {}
    PROVE  LET t == Table(p)
               a == loc[p].a
               u == MapPage(t, a, loc[p].mem, IF free = {} THEN 0 ELSE Kalloc)
           IN  /\ t.pte[PageOf(a)] = 0 /\ u \in Tables /\ Neat(u) /\ Below(u, a + PGSIZE)
               /\ TableFrames(u) = TableFrames(t) \cup {loc[p].mem}
                                   \cup (IF NeedsPt(t, a) THEN {Kalloc} ELSE {})
<1> DEFINE t == Table(p)
           a == loc[p].a
           f == loc[p].mem
           g == IF free = {} THEN 0 ELSE Kalloc
           u == MapPage(t, a, f, g)
<1>1. TypeOK /\ Parted /\ loc[p].op # "user" /\ loc[p].pc = "map"
  BY DEF IInv, At
<1>2. CallInv(p) /\ f \in MaybeFrame /\ a \in Nat
  BY <1>1, Calling, Types
<1>3. loc[p].a < loc[p].size /\ f # 0
  BY <1>1, <1>2 DEF CallInv
<1>4. f \in Frames
  BY <1>2, <1>3 DEF MaybeFrame
<1>5. t \in Tables /\ Neat(t) /\ Below(t, a)
  BY <1>3, AtPage
<1>6. PICK k \in Pages : a = k * PGSIZE /\ a < HEAPLIMIT /\ PageOf(a) = k /\ t.pte[k] = 0
  BY <1>3, AtPage
<1>7. k \in Nat
  BY PageZero
<1>8. f \notin TableFrames(t)
  <2> SUFFICES ASSUME f \in TableFrames(t) PROVE FALSE
    OBVIOUS
  <2>1. f \in Own(<<"mem", p>>)
    <3>1. Own(<<"mem", p>>) = {f} \ {0}
      BY OwnAt
    <3> QED BY <1>3, <3>1
  <2>2. f \in Own(<<"pgdir", p>>) \/ f \in Own(<<"new", p>>)
    BY OwnAt DEF Table
  <2>3. <<"mem", p>> # <<"pgdir", p>> /\ <<"mem", p>> # <<"new", p>>
    OBVIOUS
  <2> HIDE DEF f, t
  <2> QED BY <1>1, <1>4, <2>1, <2>2, <2>3, OneOwner, OwnAt
<1>9. NeedsPt(t, a) => g = Kalloc /\ g \in Frames /\ g \notin TableFrames(t) /\ g # f
  <2> SUFFICES ASSUME free # {}
               PROVE  g = Kalloc /\ g \in Frames /\ g \notin TableFrames(t) /\ g # f
    OBVIOUS
  <2>1. g = Kalloc /\ g \in free
    BY KallocFree
  <2>2. /\ g \in Frames /\ g \notin TableFrames(pgdir[p]) /\ g \notin TableFrames(new[p])
        /\ g # loc[p].mem
    BY <1>1, <2>1, Fresh
  <2> QED BY <2>1, <2>2 DEF Table
<1>10. /\ u \in Tables /\ Neat(u)
       /\ TableFrames(u) = TableFrames(t) \cup {f} \cup (IF NeedsPt(t, a) THEN {g} ELSE {})
       /\ u.pte = [t.pte EXCEPT ![k] = f]
  <2> HIDE DEF t, a, f, g
  <2> QED BY <1>2, <1>4, <1>5, <1>6, <1>7, <1>8, <1>9, MapPageFacts
<1>11. Below(u, a + PGSIZE)
  <2> SUFFICES ASSUME NEW n \in Pages PROVE u.pte[n] # 0 <=> n * PGSIZE < a + PGSIZE
    BY DEF Below
  <2>1. n \in Nat /\ n * PGSIZE \in Nat /\ PGSIZE \in Nat \ {0} /\ a + PGSIZE = (k + 1) * PGSIZE
    BY <1>6, <1>7, PageZero, Constants, Times
  <2>2. t.pte \in [Pages -> MaybeFrame]
    BY <1>5 DEF Tables
  <2>3. t.pte[n] # 0 <=> n * PGSIZE < a
    BY <1>5 DEF Below
  <2> HIDE DEF t, a, f, g, u
  <2>4. CASE n = k
    BY <1>3, <1>10, <2>1, <2>2, <2>4, <1>2, <1>6
  <2>5. CASE n < k
    <3>1. n * PGSIZE + PGSIZE <= k * PGSIZE
      BY <1>7, <2>1, <2>5, Times
    <3>2. u.pte[n] = t.pte[n]
      BY <1>7, <1>10, <2>1, <2>2, <2>5
    <3> QED BY <1>2, <1>6, <2>1, <2>3, <3>1, <3>2
  <2>6. CASE k < n
    <3>1. k * PGSIZE + PGSIZE <= n * PGSIZE
      BY <1>7, <2>1, <2>6, Times
    <3>2. u.pte[n] = t.pte[n]
      BY <1>7, <1>10, <2>1, <2>2, <2>6
    <3> QED BY <1>2, <1>6, <2>1, <2>3, <3>1, <3>2
  <2> QED BY <1>7, <2>1, <2>4, <2>5, <2>6
<1>12. TableFrames(u) = TableFrames(t) \cup {f} \cup (IF NeedsPt(t, a) THEN {Kalloc} ELSE {})
  <2> HIDE DEF t, a, f, u
  <2> QED BY <1>9, <1>10
<1> QED BY <1>6, <1>10, <1>11, <1>12

LEMMA MapStep ==
    ASSUME IInv, NEW p \in Procs, Map(p)
    PROVE  IInv'
<1> DEFINE t == Table(p)
           a == loc[p].a
           f == loc[p].mem
           u == MapPage(t, a, f, IF free = {} THEN 0 ELSE Kalloc)
           G == IF NeedsPt(t, a) THEN {Kalloc} ELSE {}
           l == [loc[p] EXCEPT !.mem = 0, !.pc = "mem", !.a = @ + PGSIZE]
<1>1. At(p, "map") /\ (NeedsPt(t, a) => free # {}) /\ UNCHANGED <<state, kstack, sz, calls>>
  BY DEF Map
<1>2. TypeOK /\ Parted /\ ProcInv(p) /\ loc[p].op # "user" /\ loc[p].pc = "map"
  BY <1>1 DEF IInv, At
<1>3. /\ t.pte[PageOf(a)] = 0 /\ u \in Tables /\ Neat(u) /\ Below(u, a + PGSIZE)
      /\ TableFrames(u) = TableFrames(t) \cup {f} \cup G
  BY <1>1, Mapped
<1>4. free' = free \ G
  BY <1>3 DEF Map
<1>5. SetTable(p, u) /\ loc' = [loc EXCEPT ![p] = l] /\ UNCHANGED panic
  BY <1>3 DEF Map
<1>6. /\ state[p] = "alive" /\ CallInv(p) /\ GrowInv(p) /\ BuildInv(p) /\ ForkInv(p) /\ ExecInv(p)
      /\ loc[p] \in Locals /\ a \in Nat /\ f \in MaybeFrame /\ loc[p].size \in Nat
  BY <1>2, Calling, Types
<1>7. f # 0 /\ f \in Frames /\ a < loc[p].size
  BY <1>2, <1>6 DEF CallInv, MaybeFrame
<1>8. G \subseteq free
  BY <1>1, KallocFree
<1>9. /\ l \in Locals /\ l.op = loc[p].op /\ l.mem = 0 /\ l.a = a + PGSIZE
      /\ l.size = loc[p].size /\ l.child = loc[p].child /\ l.pc = "mem"
  <2>1. a + PGSIZE \in Nat /\ 0 \in MaybeFrame
    BY <1>6, Constants DEF MaybeFrame
  <2> QED BY <1>6, <2>1 DEF Locals
<1>10. PICK o \in Owners :
          /\ o # Free /\ o # <<"mem", p>> /\ Own(o) = TableFrames(t)
          /\ loc[p].op = "grow" => o = <<"pgdir", p>>
          /\ loc[p].op # "grow" => o = <<"new", p>>
  <2>1. CASE loc[p].op = "grow"
    <3>1. <<"pgdir", p>> # Free /\ <<"pgdir", p>> # <<"mem", p>> /\ t = pgdir[p]
      BY <2>1 DEF Free, Table
    <3> HIDE DEF t
    <3> QED BY <2>1, <3>1, OwnAt
  <2>2. CASE loc[p].op # "grow"
    <3>1. <<"new", p>> # Free /\ <<"new", p>> # <<"mem", p>> /\ t = new[p]
      BY <2>2 DEF Free, Table
    <3> HIDE DEF t
    <3> QED BY <2>2, <3>1, OwnAt
  <2> QED BY <2>1, <2>2
<1>11. /\ loc[p].op = "grow" => pgdir' = [pgdir EXCEPT ![p] = u] /\ new' = new
       /\ loc[p].op # "grow" => new' = [new EXCEPT ![p] = u] /\ pgdir' = pgdir
  BY <1>5 DEF SetTable
<1> HIDE DEF l, u, G
<1>12. loc'[p] = l /\ loc' \in [Procs -> Locals] /\ \A q \in Procs : q # p => loc'[q] = loc[q]
  BY <1>2, <1>5, <1>9, NewLoc
<1>13. /\ pgdir' \in [Procs -> Tables] /\ new' \in [Procs -> Tables]
       /\ \A q \in Procs : q # p => pgdir'[q] = pgdir[q] /\ new'[q] = new[q]
       /\ loc[p].op = "grow" => pgdir'[p] = u /\ new'[p] = new[p]
       /\ loc[p].op # "grow" => new'[p] = u /\ pgdir'[p] = pgdir[p]
  BY <1>2, <1>3, <1>11 DEF TypeOK
<1>14. TypeOK'
  BY <1>1, <1>2, <1>4, <1>5, <1>12, <1>13 DEF TypeOK
<1>15. Own(o)' = TableFrames(u)
  <2>1. CASE loc[p].op = "grow"
    BY <2>1, <1>10, <1>13, OwnAt
  <2>2. CASE loc[p].op # "grow"
    BY <2>2, <1>10, <1>13, OwnAt
  <2> QED BY <2>1, <2>2
<1>16. Parted'
  <2> DEFINE m == <<"mem", p>>
             R == {Free, o, m}
  <2>1. m # Free /\ m # o /\ R \in SUBSET Owners
    BY <1>10, OwnAt DEF Free
  <2>2. Own(Free) = free /\ Own(Free)' = free \ G
    BY <1>4, OwnAt
  <2>3. Own(m) = {f} /\ Own(m)' = {}
    BY <1>7, <1>9, <1>12, OwnAt
  <2>4. Own(o) = TableFrames(t) /\ Own(o)' = TableFrames(t) \cup {f} \cup G
    BY <1>3, <1>10, <1>15
  <2>5. ASSUME NEW x \in Owners \ R PROVE Own(x)' = Own(x)
    <3>1. x # Free /\ x # o /\ x # m /\ x[2] \in Procs /\ x = <<x[1], x[2]>>
      BY DEF Owners
    <3>2. x[1] = "pgdir" => pgdir'[x[2]] = pgdir[x[2]]
      BY <3>1, <1>10, <1>13
    <3>3. x[1] = "new" => new'[x[2]] = new[x[2]]
      BY <3>1, <1>10, <1>13
    <3>4. x[1] = "mem" => loc'[x[2]].mem = loc[x[2]].mem
      BY <3>1, <1>12
    <3> QED BY <3>1, <3>2, <3>3, <3>4, <1>1, Unmoved
  <2> HIDE DEF m
  <2>6. ASSUME NEW h \in Frames PROVE (\E x \in R : h \in Own(x)') <=> (\E x \in R : h \in Own(x))
    BY <2>2, <2>3, <2>4, <1>8
  <2>7. ASSUME NEW h \in Frames, h \in Own(Free)', h \in Own(o)' PROVE FALSE
    <3>1. h \in Own(Free)
      BY <2>2, <2>7
    <3>2. h \in Own(o) \/ h \in Own(m)
      BY <2>2, <2>3, <2>4, <2>7
    <3> QED BY <3>1, <3>2, <2>1, <1>2, <1>10, OneOwner
  <2>8. \A h \in Frames : \A y, x \in R : h \in Own(y)' /\ h \in Own(x)' => x = y
    BY <2>3, <2>7
  <2> HIDE DEF R
  <2> QED BY <1>2, <2>1, <2>5, <2>6, <2>8, Moved
<1>17. StateInv(p)' /\ UserInv(p)' /\ ForkInv(p)' /\ ExecInv(p)'
  BY <1>1, <1>2, <1>6, <1>9, <1>12 DEF ProcInv, StateInv, UserInv, ForkInv, ExecInv
<1>18. CallInv(p)'
  <2>1. PICK k \in Nat : a = k * PGSIZE
    BY <1>2, <1>6 DEF CallInv
  <2>2. a + PGSIZE = (k + 1) * PGSIZE /\ k + 1 \in Nat
    BY <2>1, Constants
  <2>3. a + PGSIZE < loc[p].size + PGSIZE /\ loc[p].size <= HEAPLIMIT
    BY <1>2, <1>6, <1>7, Constants DEF CallInv
  <2> QED BY <1>2, <1>9, <1>12, <2>2, <2>3 DEF CallInv
<1>19. GrowInv(p)'
  <2> SUFFICES ASSUME loc[p].op = "grow" PROVE GrowInv(p)'
    BY <1>9, <1>12 DEF GrowInv
  <2>1. new[p] = NoTable /\ sz[p] <= a /\ sz[p] <= loc[p].size
    BY <1>6 DEF GrowInv
  <2>2. sz'[p] <= a + PGSIZE /\ sz'[p] <= loc[p].size
    BY <1>1, <1>2, <1>6, <2>1, Types, Constants
  <2>3. pgdir'[p] = u /\ new'[p] = NoTable /\ Below(u, a + PGSIZE)
    BY <1>3, <1>13, <2>1 DEF u
  <2>4. Below(pgdir[p], loc[p].a)'
    BY <2>3, <1>9, <1>12
  <2> QED BY <1>9, <1>12, <2>2, <2>3, <2>4 DEF GrowInv
<1>20. BuildInv(p)'
  <2> SUFFICES ASSUME loc[p].op \in {"fork", "exec"} PROVE BuildInv(p)'
    BY <1>9, <1>12 DEF BuildInv
  <2>1. new'[p] = u /\ pgdir'[p] = pgdir[p] /\ sz'[p] = sz[p] /\ Below(u, a + PGSIZE)
    BY <1>1, <1>3, <1>13 DEF u
  <2>2. Below(pgdir[p], sz[p])
    BY <1>6 DEF BuildInv
  <2>3. Below(pgdir[p], sz[p])'
    BY <2>1, <2>2
  <2>4. Below(new[p], IF loc[p].pc = "load" THEN loc[p].size ELSE loc[p].a)'
    BY <2>1, <1>9, <1>12
  <2> QED BY <1>9, <1>12, <2>3, <2>4 DEF BuildInv
<1>21. Neat(pgdir[p])' /\ Neat(new[p])'
  <2>1. Neat(pgdir[p]) /\ Neat(new[p]) /\ Neat(u)
    BY <1>2, <1>3 DEF ProcInv, u
  <2>2. Neat(pgdir'[p]) /\ Neat(new'[p])
    BY <2>1, <1>13
  <2> QED BY <2>2
<1>22. ProcInv(p)'
  BY <1>17, <1>18, <1>19, <1>20, <1>21 DEF ProcInv
<1>23. \A q \in Procs : q # p => Kept(q)
  BY <1>1, <1>12, <1>13 DEF Kept
<1>24. state[p] # "embryo" /\ (loc'[p].op = "fork" => loc[p].op = "fork" /\ loc'[p].child = loc[p].child)
  BY <1>6, <1>9, <1>12
<1> QED BY <1>14, <1>16, <1>22, <1>23, <1>24, OnlyThis

\* sbrk fails: the pages from the old size on are given back.
LEMMA GrowFails ==
    ASSUME IInv, NEW p \in Procs, loc[p].op = "grow", loc[p].a < loc[p].size, Fails(p)
    PROVE  IInv'
<1> DEFINE F == DeallocFrames(pgdir[p], loc[p].size, sz[p])
           u == DeallocUvm(pgdir[p], loc[p].size, sz[p])
           m == loc[p].mem
<1>1. /\ free' = free \cup ({m} \ {0}) \cup F /\ pgdir' = [pgdir EXCEPT ![p] = u]
      /\ loc' = [loc EXCEPT ![p] = User] /\ UNCHANGED <<new, state, kstack, sz, panic>>
  BY DEF Fails, Returned, Undone, SetTable, InUse
<1>2. TypeOK /\ Parted /\ ProcInv(p)
  BY DEF IInv
<1>3. /\ state[p] = "alive" /\ CallInv(p) /\ GrowInv(p) /\ Neat(pgdir[p])
      /\ loc[p].a \in Nat /\ loc[p].size \in Nat /\ sz[p] \in Nat /\ pgdir[p] \in Tables
      /\ m \in MaybeFrame
  BY <1>2, Calling, Types
<1>4. new[p] = NoTable /\ sz[p] <= loc[p].a /\ Below(pgdir[p], loc[p].a)
  BY <1>3 DEF GrowInv
<1>5. /\ u \in Tables /\ Neat(u) /\ Below(u, sz[p]) /\ F \subseteq TableFrames(pgdir[p])
      /\ TableFrames(u) = TableFrames(pgdir[p]) \ F
  BY <1>3, <1>4, DeallocFacts
<1>6. F \subseteq Frames /\ {m} \ {0} \subseteq Frames
  BY <1>3, <1>5, InTable DEF MaybeFrame
<1> HIDE DEF F, u
<1>7. pgdir'[p] = u /\ pgdir' \in [Procs -> Tables]
      /\ \A q \in Procs : q # p => pgdir'[q] = pgdir[q]
  BY <1>1, <1>2, <1>5 DEF TypeOK
<1>8. loc'[p] = User /\ loc' \in [Procs -> Locals] /\ \A q \in Procs : q # p => loc'[q] = loc[q]
  BY <1>1, <1>2, UserFacts, NewLoc
<1>9. TypeOK'
  <2>1. free' \subseteq Frames
    BY <1>1, <1>2, <1>6 DEF TypeOK
  <2> QED BY <1>1, <1>2, <1>7, <1>8, <2>1 DEF TypeOK
<1>10. Parted'
  <2> DEFINE o == <<"pgdir", p>>
             w == <<"mem", p>>
             R == {Free, o, w}
  <2>1. o # Free /\ w # Free /\ o # w /\ R \in SUBSET Owners
    BY OwnAt DEF Free
  <2>2. Own(Free) = free /\ Own(Free)' = free \cup ({m} \ {0}) \cup F
    BY <1>1, OwnAt
  <2>3. Own(o) = TableFrames(pgdir[p]) /\ Own(o)' = TableFrames(pgdir[p]) \ F
    BY <1>5, <1>7, OwnAt
  <2>4. Own(w) = {m} \ {0} /\ Own(w)' = {}
    BY <1>8, UserFacts, OwnAt
  <2>5. ASSUME NEW x \in Owners \ R PROVE Own(x)' = Own(x)
    <3>1. x # Free /\ x # o /\ x # w /\ x[2] \in Procs /\ x = <<x[1], x[2]>>
      BY DEF Owners
    <3>2. x[1] = "pgdir" => pgdir'[x[2]] = pgdir[x[2]]
      BY <3>1, <1>7
    <3>3. x[1] = "mem" => loc'[x[2]].mem = loc[x[2]].mem
      BY <3>1, <1>8
    <3> QED BY <3>1, <3>2, <3>3, <1>1, Unmoved
  <2> HIDE DEF o, w, m
  <2>6. ASSUME NEW h \in Frames PROVE (\E x \in R : h \in Own(x)') <=> (\E x \in R : h \in Own(x))
    BY <2>2, <2>3, <2>4, <1>5
  <2>7. ASSUME NEW h \in Frames, h \in Own(Free)', h \in Own(o)' PROVE FALSE
    <3>1. h \in Own(o) /\ (h \in Own(Free) \/ h \in Own(w))
      BY <2>2, <2>3, <2>4, <2>7
    <3>2. o \in Owners /\ w \in Owners /\ Free \in Owners
      BY <2>1
    <3> QED BY <3>1, <3>2, <2>1, <1>2, OneOwner
  <2>8. \A h \in Frames : \A y, x \in R : h \in Own(y)' /\ h \in Own(x)' => x = y
    BY <2>4, <2>7
  <2> HIDE DEF R
  <2> QED BY <1>2, <2>1, <2>5, <2>6, <2>8, Moved
<1>11. StateInv(p)'
  BY <1>1, <1>2, <1>3 DEF ProcInv, StateInv
<1>12. UserInv(p)'
  <2>1. Below(pgdir[p], sz[p])'
    BY <1>1, <1>5, <1>7
  <2> QED BY <1>1, <1>4, <1>8, <2>1 DEF UserInv
<1>13. CallInv(p)' /\ GrowInv(p)' /\ BuildInv(p)' /\ ForkInv(p)' /\ ExecInv(p)'
  BY <1>8, UserFacts DEF CallInv, GrowInv, BuildInv, ForkInv, ExecInv
<1>14. Neat(pgdir[p])' /\ Neat(new[p])'
  <2>1. Neat(pgdir'[p]) /\ Neat(new'[p])
    BY <1>1, <1>2, <1>5, <1>7 DEF ProcInv
  <2> QED BY <2>1
<1>15. ProcInv(p)'
  BY <1>11, <1>12, <1>13, <1>14 DEF ProcInv
<1>16. \A q \in Procs : q # p => Kept(q)
  BY <1>1, <1>7, <1>8 DEF Kept
<1>17. state[p] # "embryo" /\ loc'[p].op # "fork"
  BY <1>3, <1>8, UserFacts
<1> QED BY <1>9, <1>10, <1>15, <1>16, <1>17, OnlyThis

\* A process that gave up fork or exec, or finished it, is as before the call.
LEMMA BackToUser ==
    ASSUME IInv, NEW p \in Procs, state'[p] = "alive", kstack'[p] = kstack[p], kstack[p] # 0,
           loc'[p] = User, new'[p] = NoTable, Neat(pgdir'[p]), Below(pgdir'[p], sz'[p]),
           sz'[p] <= HEAPLIMIT
    PROVE  ProcInv(p)'
<1>1. StateInv(p)'
  BY DEF StateInv
<1>2. Below(pgdir[p], sz[p])' /\ Neat(pgdir[p])'
  OBVIOUS
<1>3. UserInv(p)'
  BY <1>2 DEF UserInv
<1>4. CallInv(p)' /\ GrowInv(p)' /\ BuildInv(p)' /\ ForkInv(p)' /\ ExecInv(p)'
  BY UserFacts DEF CallInv, GrowInv, BuildInv, ForkInv, ExecInv
<1>5. Neat(new'[p])
  BY NoTableFacts
<1>6. Neat(new[p])'
  BY <1>5
<1> QED BY <1>1, <1>2, <1>3, <1>4, <1>6 DEF ProcInv

\* exec fails: the table it was building and the page in hand are given back.
LEMMA ExecFails ==
    ASSUME IInv, NEW p \in Procs, loc[p].op = "exec", Fails(p)
    PROVE  IInv'
<1> DEFINE m == loc[p].mem
<1>1. /\ free' = free \cup ({m} \ {0}) \cup VmFrames(new[p]) /\ new' = [new EXCEPT ![p] = NoTable]
      /\ loc' = [loc EXCEPT ![p] = User] /\ UNCHANGED <<pgdir, state, kstack, sz, panic>>
  BY DEF Fails, Returned, Undone, SetTable, InUse
<1>2. TypeOK /\ Parted /\ ProcInv(p)
  BY DEF IInv
<1>3. /\ state[p] = "alive" /\ BuildInv(p) /\ Neat(pgdir[p]) /\ kstack[p] # 0
      /\ sz[p] <= HEAPLIMIT /\ new[p] \in Tables /\ m \in MaybeFrame
  BY <1>2, Calling, Types
<1>4. VmFrames(new[p]) = TableFrames(new[p]) /\ TableFrames(new[p]) \subseteq Frames
      /\ {m} \ {0} \subseteq Frames
  BY <1>3, VmFramesAll, InTable DEF MaybeFrame
<1>5. new'[p] = NoTable /\ new' \in [Procs -> Tables] /\ \A q \in Procs : q # p => new'[q] = new[q]
  BY <1>1, <1>2, NoTableFacts DEF TypeOK
<1>6. loc'[p] = User /\ loc' \in [Procs -> Locals] /\ \A q \in Procs : q # p => loc'[q] = loc[q]
  BY <1>1, <1>2, UserFacts, NewLoc
<1>7. TypeOK'
  <2>1. free' \subseteq Frames
    BY <1>1, <1>2, <1>4 DEF TypeOK
  <2> QED BY <1>1, <1>2, <1>5, <1>6, <2>1 DEF TypeOK
<1>8. Parted'
  <2> DEFINE o == <<"new", p>>
             w == <<"mem", p>>
             R == {o, w}
  <2>1. Free \notin R /\ R \in SUBSET Owners
    BY OwnAt DEF Free
  <2>2. Own(o) = TableFrames(new[p]) /\ Own(o)' = {}
    BY <1>5, OwnAt, NoTableFacts
  <2>3. Own(w) = {m} \ {0} /\ Own(w)' = {}
    BY <1>6, UserFacts, OwnAt
  <2>4. ASSUME NEW x \in Owners, x \notin R, x # Free PROVE Own(x)' = Own(x)
    <3>1. x[2] \in Procs /\ x = <<x[1], x[2]>>
      BY DEF Owners
    <3>2. x[1] = "new" => new'[x[2]] = new[x[2]]
      BY <2>4, <3>1, <1>5
    <3>3. x[1] = "mem" => loc'[x[2]].mem = loc[x[2]].mem
      BY <2>4, <3>1, <1>6
    <3> QED BY <2>4, <3>1, <3>2, <3>3, <1>1, Unmoved
  <2> HIDE DEF o, w, m
  <2>5. \A f \in Frames : f \in free' <=> f \in free \/ \E x \in R : f \in Own(x)
    BY <2>2, <2>3, <1>1, <1>4
  <2>6. \A x \in R : Own(x)' = {}
    BY <2>2, <2>3
  <2> HIDE DEF R
  <2> QED BY <1>2, <2>1, <2>4, <2>5, <2>6, Given
<1>9. Below(pgdir[p], sz[p])
  BY <1>3 DEF BuildInv
<1>10. ProcInv(p)'
  BY <1>1, <1>3, <1>5, <1>6, <1>9, BackToUser
<1>11. \A q \in Procs : q # p => Kept(q)
  BY <1>1, <1>5, <1>6 DEF Kept
<1>12. state[p] # "embryo" /\ loc'[p].op # "fork"
  BY <1>3, <1>6, UserFacts
<1> QED BY <1>7, <1>8, <1>10, <1>11, <1>12, OnlyThis

\* The parent leaves fork: only it and its child change.
LEMMA ForkOver ==
    ASSUME IInv, NEW p \in Procs, NEW c \in Procs, loc[p].op = "fork", loc[p].child = c,
           loc'[p] = User, \A q \in Procs : q # p => loc'[q] = loc[q],
           TypeOK', Parted', ProcInv(p)', ProcInv(c)',
           \A q \in Procs \ {p, c} : Kept(q)
    PROVE  IInv'
<1>1. OneParent /\ state[p] = "alive"
  BY Calling DEF IInv
<1>2. OneParent'
  <2>1. \A q \in Procs : loc'[q].op = "fork" => loc'[q] = loc[q]
    BY UserFacts
  <2> QED BY <1>1, <2>1 DEF OneParent
<1>3. ASSUME NEW q \in Procs \ {p, c}, loc[q].op = "fork" PROVE loc[q].child \notin {p, c}
  <2>1. loc[q].child # c
    BY <1>1, <1>3 DEF OneParent
  <2>2. state[loc[q].child] = "embryo"
    BY <1>3 DEF IInv, ProcInv, ForkInv
  <2> QED BY <1>1, <2>1, <2>2
<1>4. {p, c} \in SUBSET Procs /\ \A q \in {p, c} : ProcInv(q)'
  OBVIOUS
<1> QED BY <1>2, <1>3, <1>4, OnlyThese

LEMMA Child ==
    ASSUME IInv, NEW p \in Procs, loc[p].op = "fork"
    PROVE  LET c == loc[p].child
           IN  /\ c \in Procs /\ c # p /\ state[c] = "embryo" /\ loc[c] = User
               /\ new[c] = NoTable /\ pgdir[c] = NoTable /\ kstack[c] \in Frames /\ kstack[c] # 0
               /\ sz[c] <= HEAPLIMIT /\ sz[p] = loc[p].size
<1> DEFINE c == loc[p].child
<1>1. state[p] = "alive" /\ ForkInv(p)
  BY Calling
<1>2. c \in Procs /\ state[c] = "embryo" /\ sz[p] = loc[p].size
  BY <1>1 DEF ForkInv
<1> HIDE DEF c
<1>3. ProcInv(c) /\ TypeOK
  BY <1>2 DEF IInv
<1>4. loc[c] = User /\ pgdir[c] = NoTable /\ kstack[c] # 0 /\ sz[c] <= HEAPLIMIT
  BY <1>2, <1>3 DEF ProcInv, StateInv
<1>5. new[c] = NoTable
  BY <1>3, <1>4, UserFacts DEF ProcInv, UserInv
<1>6. kstack[c] \in Frames
  BY <1>2, <1>3, <1>4, Types DEF MaybeFrame
<1> QED BY <1>1, <1>2, <1>4, <1>5, <1>6 DEF c

\* fork fails: the child's stack goes back too, and the child is unused again.
LEMMA ForkFails ==
    ASSUME IInv, NEW p \in Procs, loc[p].op = "fork", Fails(p)
    PROVE  IInv'
<1> DEFINE m == loc[p].mem
<1>1. PICK c \in Procs : c = loc[p].child
  BY Child
<1>2. /\ free' = free \cup ({m} \ {0}) \cup {kstack[c]} \cup VmFrames(new[p])
      /\ new' = [new EXCEPT ![p] = NoTable]
      /\ state' = [state EXCEPT ![c] = "unused"] /\ kstack' = [kstack EXCEPT ![c] = 0]
      /\ loc' = [loc EXCEPT ![p] = User] /\ UNCHANGED <<pgdir, sz, panic>>
  BY <1>1 DEF Fails, Returned, Undone, SetTable, InUse
<1>3. TypeOK /\ Parted /\ ProcInv(p) /\ ProcInv(c)
  BY DEF IInv
<1>4. /\ state[p] = "alive" /\ BuildInv(p) /\ Neat(pgdir[p]) /\ kstack[p] # 0
      /\ sz[p] <= HEAPLIMIT /\ new[p] \in Tables /\ m \in MaybeFrame
  BY <1>3, Calling, Types
<1>5. /\ c # p /\ state[c] = "embryo" /\ loc[c] = User /\ new[c] = NoTable
      /\ pgdir[c] = NoTable /\ kstack[c] \in Frames /\ kstack[c] # 0 /\ sz[c] <= HEAPLIMIT
  BY <1>1, Child
<1>6. VmFrames(new[p]) = TableFrames(new[p]) /\ TableFrames(new[p]) \subseteq Frames
      /\ {m} \ {0} \subseteq Frames
  BY <1>4, VmFramesAll, InTable DEF MaybeFrame
<1>7. new'[p] = NoTable /\ new' \in [Procs -> Tables] /\ \A q \in Procs : q # p => new'[q] = new[q]
  BY <1>2, <1>3, NoTableFacts DEF TypeOK
<1>8. loc'[p] = User /\ loc' \in [Procs -> Locals] /\ \A q \in Procs : q # p => loc'[q] = loc[q]
  BY <1>2, <1>3, UserFacts, NewLoc
<1>9. /\ state'[c] = "unused" /\ \A q \in Procs : q # c => state'[q] = state[q]
      /\ kstack'[c] = 0 /\ \A q \in Procs : q # c => kstack'[q] = kstack[q]
  BY <1>2, <1>3 DEF TypeOK
<1>10. TypeOK'
  <2>1. free' \subseteq Frames
    BY <1>2, <1>3, <1>5, <1>6 DEF TypeOK
  <2> QED BY <1>2, <1>3, <1>7, <1>8, <2>1 DEF TypeOK, MaybeFrame
<1>11. Parted'
  <2> DEFINE o == <<"new", p>>
             w == <<"mem", p>>
             y == <<"kstack", c>>
             R == {o, w, y}
  <2>1. Free \notin R /\ R \in SUBSET Owners
    BY OwnAt DEF Free
  <2>2. Own(o) = TableFrames(new[p]) /\ Own(o)' = {}
    BY <1>7, OwnAt, NoTableFacts
  <2>3. Own(w) = {m} \ {0} /\ Own(w)' = {}
    BY <1>8, UserFacts, OwnAt
  <2>4. Own(y) = {kstack[c]} /\ Own(y)' = {}
    BY <1>5, <1>9, OwnAt
  <2>5. ASSUME NEW x \in Owners, x \notin R, x # Free PROVE Own(x)' = Own(x)
    <3>1. x[2] \in Procs /\ x = <<x[1], x[2]>>
      BY DEF Owners
    <3>2. x[1] = "new" => new'[x[2]] = new[x[2]]
      BY <2>5, <3>1, <1>7
    <3>3. x[1] = "mem" => loc'[x[2]].mem = loc[x[2]].mem
      BY <2>5, <3>1, <1>8
    <3>4. x[1] = "kstack" => kstack'[x[2]] = kstack[x[2]]
      BY <2>5, <3>1, <1>9
    <3> QED BY <2>5, <3>1, <3>2, <3>3, <3>4, <1>2, Unmoved
  <2> HIDE DEF o, w, y, m
  <2>6. \A f \in Frames : f \in free' <=> f \in free \/ \E x \in R : f \in Own(x)
    BY <2>2, <2>3, <2>4, <1>2, <1>6
  <2>7. \A x \in R : Own(x)' = {}
    BY <2>2, <2>3, <2>4
  <2> HIDE DEF R
  <2> QED BY <1>3, <2>1, <2>5, <2>6, <2>7, Given
<1>12. ProcInv(p)'
  <2>1. Below(pgdir[p], sz[p])
    BY <1>4 DEF BuildInv
  <2> QED BY <1>2, <1>4, <1>5, <1>7, <1>8, <1>9, <2>1, BackToUser
<1>13. ProcInv(c)'
  <2>1. loc'[c] = User /\ new'[c] = NoTable /\ pgdir'[c] = NoTable
    BY <1>2, <1>5, <1>7, <1>8
  <2>2. StateInv(c)' /\ UserInv(c)'
    BY <1>2, <1>5, <1>9, <2>1 DEF StateInv, UserInv
  <2>3. CallInv(c)' /\ GrowInv(c)' /\ BuildInv(c)' /\ ForkInv(c)' /\ ExecInv(c)'
    BY <2>1, UserFacts DEF CallInv, GrowInv, BuildInv, ForkInv, ExecInv
  <2>4. Neat(pgdir[c])' /\ Neat(new[c])'
    BY <2>1, NoTableFacts
  <2> QED BY <2>2, <2>3, <2>4 DEF ProcInv
<1>14. \A q \in Procs \ {p, c} : Kept(q)
  BY <1>2, <1>7, <1>8, <1>9 DEF Kept
<1> QED BY <1>1, <1>8, <1>10, <1>11, <1>12, <1>13, <1>14, ForkOver

LEMMA OutOfMemoryStep ==
    ASSUME IInv, NEW p \in Procs, OutOfMemory(p)
    PROVE  IInv'
<1>1. /\ Fails(p) /\ loc[p].op # "user"
      /\ \/ loc[p].pc \in {"dir", "kpt", "map"}
         \/ loc[p].pc = "mem" /\ loc[p].a < loc[p].size
  BY DEF OutOfMemory, At
<1>2. CallInv(p) /\ GrowInv(p) /\ loc[p] \in Locals
  BY <1>1, Calling, Types DEF IInv
<1>3. CASE loc[p].op = "grow"
  <2>1. loc[p].a < loc[p].size
    BY <1>1, <1>2, <1>3 DEF CallInv, GrowInv
  <2> QED BY <1>1, <1>3, <2>1, GrowFails
<1>4. CASE loc[p].op = "fork"
  BY <1>1, <1>4, ForkFails
<1>5. CASE loc[p].op = "exec"
  BY <1>1, <1>5, ExecFails
<1> QED BY <1>1, <1>2, <1>3, <1>4, <1>5 DEF Locals

LEMMA ExecBadStep ==
    ASSUME IInv, NEW p \in Procs, ExecBad(p)
    PROVE  IInv'
<1>1. Fails(p) /\ (At(p, "load") \/ loc[p].op = "exec")
  BY DEF ExecBad, Allocated
<1>2. loc[p].op = "exec"
  BY <1>1, Loading
<1> QED BY <1>1, <1>2, ExecFails

LEMMA ForkDoneStep ==
    ASSUME IInv, NEW p \in Procs, ForkDone(p)
    PROVE  IInv'
<1>1. loc[p].op = "fork" /\ loc[p].pc = "mem" /\ loc[p].a >= loc[p].size
  BY DEF ForkDone, Allocated, At
<1>2. PICK c \in Procs : c = loc[p].child
  BY <1>1, Child
<1>3. /\ pgdir' = [pgdir EXCEPT ![c] = new[p]] /\ sz' = [sz EXCEPT ![c] = sz[p]]
      /\ state' = [state EXCEPT ![c] = "alive"] /\ new' = [new EXCEPT ![p] = NoTable]
      /\ loc' = [loc EXCEPT ![p] = User] /\ UNCHANGED <<free, kstack, panic>>
  BY <1>2 DEF ForkDone
<1>4. TypeOK /\ Parted /\ ProcInv(p) /\ ProcInv(c)
  BY DEF IInv
<1>5. /\ state[p] = "alive" /\ CallInv(p) /\ BuildInv(p) /\ Neat(pgdir[p]) /\ Neat(new[p])
      /\ kstack[p] # 0 /\ sz[p] <= HEAPLIMIT /\ new[p] \in Tables /\ sz[p] \in Nat
      /\ loc[p].a \in Nat
  BY <1>1, <1>4, Calling, Types
<1>6. /\ c # p /\ state[c] = "embryo" /\ loc[c] = User /\ new[c] = NoTable
      /\ pgdir[c] = NoTable /\ kstack[c] # 0 /\ sz[p] = loc[p].size
  BY <1>1, <1>2, Child
<1>7. new'[p] = NoTable /\ new' \in [Procs -> Tables] /\ \A q \in Procs : q # p => new'[q] = new[q]
  BY <1>3, <1>4, NoTableFacts DEF TypeOK
<1>8. loc'[p] = User /\ loc' \in [Procs -> Locals] /\ \A q \in Procs : q # p => loc'[q] = loc[q]
  BY <1>3, <1>4, UserFacts, NewLoc
<1>9. /\ pgdir'[c] = new[p] /\ sz'[c] = sz[p] /\ state'[c] = "alive"
      /\ \A q \in Procs : q # c => pgdir'[q] = pgdir[q] /\ sz'[q] = sz[q] /\ state'[q] = state[q]
  BY <1>3, <1>4 DEF TypeOK
<1>10. TypeOK'
  BY <1>3, <1>4, <1>5, <1>7, <1>8 DEF TypeOK
<1>11. loc[p].mem = 0 /\ loc[p].a < loc[p].size + PGSIZE /\ \E k \in Nat : loc[p].a = k * PGSIZE
  BY <1>1, <1>5 DEF CallInv
<1>12. Below(pgdir[p], sz[p]) /\ Below(new[p], loc[p].a)
  BY <1>1, <1>5 DEF BuildInv
<1>13. Below(new[p], sz[p])
  BY <1>1, <1>5, <1>6, <1>11, <1>12, BelowSize
<1>14. Parted'
  <2> DEFINE o == <<"new", p>>
             y == <<"pgdir", c>>
             R == {o, y}
  <2>1. o # y /\ Free \notin R /\ R \in SUBSET Owners
    BY OwnAt DEF Free
  <2>2. Own(o) = TableFrames(new[p]) /\ Own(o)' = {}
    BY <1>7, OwnAt, NoTableFacts
  <2>3. Own(y) = {} /\ Own(y)' = TableFrames(new[p])
    BY <1>6, <1>9, OwnAt, NoTableFacts
  <2>4. ASSUME NEW x \in Owners \ R PROVE Own(x)' = Own(x)
    <3>1. x \notin R /\ x[2] \in Procs /\ x = <<x[1], x[2]>>
      BY DEF Owners
    <3>2. x[1] = "new" => new'[x[2]] = new[x[2]]
      BY <3>1, <1>7
    <3>3. x[1] = "pgdir" => pgdir'[x[2]] = pgdir[x[2]]
      BY <3>1, <1>9
    <3>4. loc'[x[2]].mem = loc[x[2]].mem
      BY <3>1, <1>8, <1>11, UserFacts
    <3> QED BY <3>1, <3>2, <3>3, <3>4, <1>3, Unmoved
  <2> HIDE DEF o, y
  <2>5. \A f \in Frames : (\E x \in R : f \in Own(x)') <=> (\E x \in R : f \in Own(x))
    BY <2>2, <2>3
  <2>6. \A f \in Frames : \A z, x \in R : f \in Own(z)' /\ f \in Own(x)' => x = z
    BY <2>2
  <2> HIDE DEF R
  <2> QED BY <1>4, <2>1, <2>4, <2>5, <2>6, Moved
<1>15. ProcInv(p)'
  BY <1>3, <1>5, <1>6, <1>7, <1>8, <1>9, <1>12, BackToUser
<1>16. ProcInv(c)'
  BY <1>3, <1>5, <1>6, <1>7, <1>8, <1>9, <1>13, BackToUser
<1>17. \A q \in Procs \ {p, c} : Kept(q)
  BY <1>3, <1>7, <1>8, <1>9 DEF Kept
<1> QED BY <1>1, <1>2, <1>8, <1>10, <1>14, <1>15, <1>16, <1>17, ForkOver

LEMMA CommitStep ==
    ASSUME IInv, NEW p \in Procs, Commit(p)
    PROVE  IInv'
<1>1. /\ loc[p].op = "exec" /\ loc[p].pc = "mem" /\ loc[p].a >= loc[p].size
      /\ free' = free \cup VmFrames(pgdir[p]) /\ pgdir' = [pgdir EXCEPT ![p] = new[p]]
      /\ sz' = [sz EXCEPT ![p] = loc[p].size] /\ new' = [new EXCEPT ![p] = NoTable]
      /\ loc' = [loc EXCEPT ![p] = User] /\ UNCHANGED <<state, kstack, panic>>
  BY DEF Commit, Allocated, At
<1>2. TypeOK /\ Parted
  BY DEF IInv
<1>3. /\ state[p] = "alive" /\ CallInv(p) /\ BuildInv(p) /\ Neat(new[p]) /\ kstack[p] # 0
      /\ new[p] \in Tables /\ pgdir[p] \in Tables /\ loc[p].a \in Nat /\ loc[p].size \in Nat
  BY <1>1, <1>2, Calling, Types
<1>4. VmFrames(pgdir[p]) = TableFrames(pgdir[p]) /\ TableFrames(pgdir[p]) \subseteq Frames
  BY <1>3, VmFramesAll, InTable
<1>5. new'[p] = NoTable /\ new' \in [Procs -> Tables] /\ \A q \in Procs : q # p => new'[q] = new[q]
  BY <1>1, <1>2, NoTableFacts DEF TypeOK
<1>6. loc'[p] = User /\ loc' \in [Procs -> Locals] /\ \A q \in Procs : q # p => loc'[q] = loc[q]
  BY <1>1, <1>2, UserFacts, NewLoc
<1>7. /\ pgdir'[p] = new[p] /\ sz'[p] = loc[p].size
      /\ \A q \in Procs : q # p => pgdir'[q] = pgdir[q] /\ sz'[q] = sz[q]
  BY <1>1, <1>2 DEF TypeOK
<1>8. TypeOK'
  <2>1. free' \subseteq Frames
    BY <1>1, <1>2, <1>4 DEF TypeOK
  <2> QED BY <1>1, <1>2, <1>3, <1>5, <1>6, <2>1 DEF TypeOK
<1>9. /\ loc[p].mem = 0 /\ loc[p].a < loc[p].size + PGSIZE /\ loc[p].size <= HEAPLIMIT
      /\ \E k \in Nat : loc[p].a = k * PGSIZE
  BY <1>1, <1>3 DEF CallInv
<1>10. Below(new[p], loc[p].a)
  BY <1>1, <1>3 DEF BuildInv
<1>11. Below(new[p], loc[p].size)
  BY <1>1, <1>3, <1>9, <1>10, BelowSize
<1>12. Parted'
  <2> DEFINE o == <<"new", p>>
             y == <<"pgdir", p>>
             R == {Free, o, y}
  <2>1. o # y /\ Free # o /\ Free # y /\ R \in SUBSET Owners
    BY OwnAt DEF Free
  <2>2. Own(o) = TableFrames(new[p]) /\ Own(o)' = {}
    BY <1>5, OwnAt, NoTableFacts
  <2>3. Own(y) = TableFrames(pgdir[p]) /\ Own(y)' = TableFrames(new[p])
    BY <1>7, OwnAt
  <2>4. Own(Free) = free /\ Own(Free)' = free \cup TableFrames(pgdir[p])
    BY <1>1, <1>4, OwnAt
  <2>5. ASSUME NEW x \in Owners \ R PROVE Own(x)' = Own(x)
    <3>1. x # Free /\ x # o /\ x # y /\ x[2] \in Procs /\ x = <<x[1], x[2]>>
      BY DEF Owners
    <3>2. x[1] = "new" => new'[x[2]] = new[x[2]]
      BY <3>1, <1>5
    <3>3. x[1] = "pgdir" => pgdir'[x[2]] = pgdir[x[2]]
      BY <3>1, <1>7
    <3>4. loc'[x[2]].mem = loc[x[2]].mem
      BY <3>1, <1>6, <1>9, UserFacts
    <3> QED BY <3>1, <3>2, <3>3, <3>4, <1>1, Unmoved
  <2> HIDE DEF o, y
  <2>6. \A f \in Frames : (\E x \in R : f \in Own(x)') <=> (\E x \in R : f \in Own(x))
    BY <2>2, <2>3, <2>4
  <2>7. ASSUME NEW f \in Frames, f \in Own(Free)', f \in Own(y)' PROVE FALSE
    <3>1. f \in Own(o) /\ (f \in Own(Free) \/ f \in Own(y))
      BY <2>2, <2>3, <2>4, <2>7
    <3>2. o \in Owners /\ y \in Owners /\ Free \in Owners
      BY <2>1
    <3> QED BY <3>1, <3>2, <2>1, <1>2, OneOwner
  <2>8. \A f \in Frames : \A z, x \in R : f \in Own(z)' /\ f \in Own(x)' => x = z
    BY <2>2, <2>7
  <2> HIDE DEF R
  <2> QED BY <1>2, <2>1, <2>5, <2>6, <2>8, Moved
<1>13. ProcInv(p)'
  BY <1>1, <1>3, <1>5, <1>6, <1>7, <1>9, <1>11, BackToUser
<1>14. \A q \in Procs : q # p => Kept(q)
  BY <1>1, <1>5, <1>6, <1>7 DEF Kept
<1>15. state[p] # "embryo" /\ loc'[p].op # "fork"
  BY <1>3, <1>6, UserFacts
<1> QED BY <1>8, <1>12, <1>13, <1>14, <1>15, OnlyThis

----------------------------------------------------------------------------
(* The invariant holds at the beginning and in every step *)

LEMMA InitInv ==
    ASSUME Init
    PROVE  IInv
<1> DEFINE t == [dir |-> 2, kpt |-> 5 .. 4 + NKPT,
                 pt |-> [NoTable.pt EXCEPT ![0] = 3], pte |-> [NoTable.pte EXCEPT ![0] = 4]]
<1>1. /\ free = {f \in Frames : f > 4 + NKPT} /\ panic = "none"
      /\ state = [p \in Procs |-> IF p = 1 THEN "alive" ELSE "unused"]
      /\ kstack = [p \in Procs |-> IF p = 1 THEN 1 ELSE 0]
      /\ pgdir = [p \in Procs |-> IF p = 1 THEN t ELSE NoTable]
      /\ sz = [p \in Procs |-> IF p = 1 THEN PGSIZE ELSE 0]
      /\ new = [p \in Procs |-> NoTable] /\ loc = [p \in Procs |-> User]
  BY DEF Init
<1>2. NKPT \in Nat \ {0} /\ NFrames \in Nat /\ NFrames >= 4 + NKPT /\ Frames = 1 .. NFrames
      /\ HEAPLIMIT >= PGSIZE
  BY VmAssumption DEF Frames
<1>3. /\ t.dir = 2 /\ t.kpt = 5 .. 4 + NKPT /\ t.pt[0] = 3 /\ t.pte[0] = 4
      /\ \A i \in Pdes : i # 0 => t.pt[i] = 0
      /\ \A n \in Pages : n # 0 => t.pte[n] = 0
  BY PageZero DEF NoTable
<1>4. t \in Tables
  <2>1. 2 \in MaybeFrame /\ 3 \in MaybeFrame /\ 4 \in MaybeFrame /\ 0 \in MaybeFrame
        /\ 5 .. 4 + NKPT \in SUBSET Frames
    BY <1>2 DEF MaybeFrame
  <2>2. t.pt \in [Pdes -> MaybeFrame] /\ t.pte \in [Pages -> MaybeFrame]
    BY <2>1, PageZero DEF NoTable
  <2> QED BY <2>1, <2>2 DEF Tables
<1> HIDE DEF t
<1>5. Neat(t)
  BY <1>2, <1>3 DEF Neat
<1>6. TableFrames(t) = 2 .. 4 + NKPT
  <2>1. ASSUME NEW f \in Frames PROVE f \in TableFrames(t) <=> f \in 2 .. 4 + NKPT
    <3>1. f # 0
      BY Constants
    <3>2. (\E i \in Pdes : f = t.pt[i]) <=> f = 3
      BY <1>3, <3>1, PageZero
    <3>3. (\E n \in Pages : f = t.pte[n]) <=> f = 4
      BY <1>3, <3>1, PageZero
    <3>4. f \in TableFrames(t) <=> f = 2 \/ f \in 5 .. 4 + NKPT \/ f = 3 \/ f = 4
      BY <1>3, <1>4, <3>2, <3>3, InTable
    <3> QED BY <1>2, <3>4
  <2>2. 2 .. 4 + NKPT \subseteq Frames
    BY <1>2
  <2> QED BY <1>4, <2>1, <2>2, InTable
<1>7. Below(t, PGSIZE)
  <2> SUFFICES ASSUME NEW n \in Pages PROVE t.pte[n] # 0 <=> n * PGSIZE < PGSIZE
    BY DEF Below
  <2>1. n \in Nat /\ PGSIZE \in Nat \ {0} /\ n * PGSIZE \in Nat
    BY PageZero, Constants, Times
  <2>2. CASE n = 0
    BY <1>3, <2>1, <2>2
  <2>3. CASE n # 0
    <3>1. 1 * PGSIZE <= n * PGSIZE /\ 1 * PGSIZE = PGSIZE
      BY <2>1, <2>3, Times
    <3> QED BY <1>3, <2>1, <2>3, <3>1
  <2> QED BY <2>2, <2>3
<1>8. TypeOK
  <2>1. free \subseteq Frames /\ panic = "none"
    BY <1>1
  <2>2. kstack \in [Procs -> MaybeFrame]
    BY <1>1, <1>2 DEF MaybeFrame
  <2>3. pgdir \in [Procs -> Tables] /\ new \in [Procs -> Tables]
    BY <1>1, <1>4, NoTableFacts
  <2>4. loc \in [Procs -> Locals] /\ sz \in [Procs -> Nat]
    BY <1>1, UserFacts, Constants
  <2>5. state \in [Procs -> {"unused", "embryo", "alive", "zombie"}]
    BY <1>1
  <2> QED BY <2>1, <2>2, <2>3, <2>4, <2>5 DEF TypeOK
<1>9. /\ \A p \in Procs : new[p] = NoTable /\ loc[p] = User
      /\ pgdir[1] = t /\ kstack[1] = 1 /\ sz[1] = PGSIZE /\ state[1] = "alive"
      /\ \A p \in Procs : p # 1 => pgdir[p] = NoTable /\ kstack[p] = 0 /\ sz[p] = 0 /\ state[p] = "unused"
  BY <1>1, Constants
<1>10. Parted
  <2>1. Own(Free) = {f \in Frames : f > 4 + NKPT}
    BY <1>1, OwnAt
  <2>2. Own(<<"pgdir", 1>>) = 2 .. 4 + NKPT
    BY <1>6, <1>9, OwnAt, Constants
  <2>3. Own(<<"kstack", 1>>) = {1}
    BY <1>9, OwnAt, Constants
  <2>4. ASSUME NEW x \in Owners, x # Free, x # <<"pgdir", 1>>, x # <<"kstack", 1>>
        PROVE  Own(x) = {}
    <3>1. PICK k \in {"free", "pgdir", "new", "kstack", "mem"}, p \in Procs : x = <<k, p>>
      BY DEF Owners
    <3>2. CASE k = "free"
      BY <2>4, <3>1, <3>2 DEF Own, Free
    <3>3. CASE k = "pgdir"
      BY <2>4, <3>1, <3>3, <1>9, OwnAt, NoTableFacts
    <3>4. CASE k = "new"
      BY <3>1, <3>4, <1>9, OwnAt, NoTableFacts
    <3>5. CASE k = "kstack"
      BY <2>4, <3>1, <3>5, <1>9, OwnAt
    <3>6. CASE k = "mem"
      BY <3>1, <3>6, <1>9, OwnAt, UserFacts
    <3> QED BY <3>2, <3>3, <3>4, <3>5, <3>6
  <2> SUFFICES ASSUME NEW f \in Frames
               PROVE  \E o \in Owners : f \in Own(o) /\ \A x \in Owners : f \in Own(x) => x = o
    BY DEF Parted
  <2>5. Free \in Owners /\ <<"pgdir", 1>> \in Owners /\ <<"kstack", 1>> \in Owners
    BY OwnAt, Constants
  <2>6. f = 1 \/ f \in 2 .. 4 + NKPT \/ f > 4 + NKPT
    BY <1>2
  <2>7. CASE f = 1
    BY <1>2, <2>1, <2>2, <2>3, <2>4, <2>5, <2>7
  <2>8. CASE f \in 2 .. 4 + NKPT
    BY <1>2, <2>1, <2>2, <2>3, <2>4, <2>5, <2>8
  <2>9. CASE f > 4 + NKPT
    BY <1>2, <2>1, <2>2, <2>3, <2>4, <2>5, <2>9
  <2> QED BY <2>6, <2>7, <2>8, <2>9
<1>11. OneParent
  BY <1>9, UserFacts DEF OneParent
<1>12. ASSUME NEW p \in Procs PROVE ProcInv(p)
  <2>1. StateInv(p)
    BY <1>2, <1>9, Constants DEF StateInv
  <2>2. UserInv(p)
    BY <1>7, <1>9, UserFacts DEF UserInv
  <2>3. CallInv(p) /\ GrowInv(p) /\ BuildInv(p) /\ ForkInv(p) /\ ExecInv(p)
    BY <1>9, UserFacts DEF CallInv, GrowInv, BuildInv, ForkInv, ExecInv
  <2>4. Neat(pgdir[p]) /\ Neat(new[p])
    BY <1>5, <1>9, NoTableFacts
  <2> QED BY <2>1, <2>2, <2>3, <2>4 DEF ProcInv
<1> QED BY <1>8, <1>10, <1>11, <1>12 DEF IInv

LEMMA NextInv ==
    ASSUME IInv, [Next]_vars
    PROVE  IInv'
<1>1. CASE UNCHANGED vars
  <2>1. \A q \in Procs : Kept(q)
    BY <1>1 DEF vars, Kept
  <2>2. TypeOK' /\ OneParent'
    BY <1>1 DEF vars, IInv, TypeOK, OneParent
  <2>3. Parted'
    BY <1>1, Still DEF vars, IInv
  <2>4. {} \in SUBSET Procs
    OBVIOUS
  <2> QED BY <2>1, <2>2, <2>3, <2>4, OnlyThese
<1>2. CASE Next
  <2>1. PICK p \in Procs :
            \/ \E n \in Deltas : Grow(p, n)
            \/ \E c \in Procs : Fork(p, c) \/ Wait(p, c)
            \/ \E image \in Images : Exec(p, image)
            \/ Exit(p)
            \/ KvmDir(p) \/ KvmPt(p) \/ Mem(p) \/ Map(p) \/ OutOfMemory(p)
            \/ GrowDone(p) \/ ForkDone(p)
            \/ Load(p) \/ Loaded(p) \/ Stack(p) \/ Commit(p) \/ ExecBad(p)
    BY <1>2 DEF Next
  <2> QED BY <2>1, GrowStep, ForkStep, WaitStep, ExecStep, ExitStep, KvmDirStep, KvmPtStep,
             MemStep, MapStep, OutOfMemoryStep, GrowDoneStep, ForkDoneStep, LoadStep, LoadedStep,
             StackStep, CommitStep, ExecBadStep
<1> QED BY <1>1, <1>2

----------------------------------------------------------------------------
(* What follows from it *)

\* The places of a table: each frame of the table is in one.
LEMMA PlacesOnce ==
    ASSUME NEW t \in Tables, Neat(t)
    PROVE  /\ \A f \in TableFrames(t) : \E x \in Places(t) : x[3] = f
           /\ \A x \in Places(t) : x[3] # 0 => x[3] \in TableFrames(t)
           /\ \A x, y \in Places(t) : x[3] # 0 /\ x[3] = y[3] => x = y
<1>1. ASSUME NEW x \in Places(t)
      PROVE  \/ x = <<"dir", 0, t.dir>>
             \/ \E f \in t.kpt : x = <<"kpt", f, f>>
             \/ \E i \in Pdes : x = <<"pt", i, t.pt[i]>>
             \/ \E n \in Pages : x = <<"pte", n, t.pte[n]>>
  BY DEF Places
<1>2. /\ t.dir \in MaybeFrame /\ t.kpt \subseteq Frames
      /\ \A i \in Pdes : t.pt[i] \in MaybeFrame
      /\ \A n \in Pages : t.pte[n] \in MaybeFrame
  BY DEF Tables
<1>3. ASSUME NEW f \in TableFrames(t) PROVE \E x \in Places(t) : x[3] = f
  <2>1. \/ f = t.dir \/ f \in t.kpt
        \/ \E i \in Pdes : f = t.pt[i]
        \/ \E n \in Pages : f = t.pte[n]
    BY InTable
  <2>2. CASE f = t.dir
    <3>1. <<"dir", 0, t.dir>> \in Places(t)
      BY DEF Places
    <3> QED BY <2>2, <3>1
  <2>3. CASE f \in t.kpt
    <3>1. <<"kpt", f, f>> \in Places(t)
      BY <2>3 DEF Places
    <3> QED BY <3>1
  <2>4. ASSUME NEW i \in Pdes, f = t.pt[i] PROVE \E x \in Places(t) : x[3] = f
    <3>1. <<"pt", i, t.pt[i]>> \in Places(t)
      BY DEF Places
    <3> QED BY <2>4, <3>1
  <2>5. ASSUME NEW n \in Pages, f = t.pte[n] PROVE \E x \in Places(t) : x[3] = f
    <3>1. <<"pte", n, t.pte[n]>> \in Places(t)
      BY DEF Places
    <3> QED BY <2>5, <3>1
  <2> QED BY <2>1, <2>2, <2>3, <2>4, <2>5
<1>4. ASSUME NEW x \in Places(t), x[3] # 0 PROVE x[3] \in TableFrames(t)
  <2>1. x[3] = t.dir \/ x[3] \in t.kpt \/ (\E i \in Pdes : x[3] = t.pt[i]) \/ (\E n \in Pages : x[3] = t.pte[n])
    BY <1>1
  <2>2. x[3] \in Frames
    BY <1>2, <1>4, <2>1 DEF MaybeFrame
  <2> QED BY <2>1, <2>2, InTable
<1>5. ASSUME NEW x \in Places(t), NEW y \in Places(t), x[3] # 0, x[3] = y[3] PROVE x = y
  <2>1. CASE x = <<"dir", 0, t.dir>>
    BY <1>1, <1>5, <2>1 DEF Neat
  <2>2. CASE \E f \in t.kpt : x = <<"kpt", f, f>>
    BY <1>1, <1>5, <2>2 DEF Neat
  <2>3. CASE \E i \in Pdes : x = <<"pt", i, t.pt[i]>>
    BY <1>1, <1>5, <2>3 DEF Neat
  <2>4. CASE \E n \in Pages : x = <<"pte", n, t.pte[n]>>
    BY <1>1, <1>5, <2>4 DEF Neat
  <2> QED BY <1>1, <2>1, <2>2, <2>3, <2>4
<1> QED BY <1>3, <1>4, <1>5

LEMMA HoldingsAre ==
    ASSUME NEW h
    PROVE  h \in Holdings <=>
               /\ h[3][3] # 0
               /\ \E p \in Procs :
                     \/ \E x \in Places(pgdir[p]) : h = <<"pgdir", p, x>>
                     \/ \E x \in Places(new[p]) : h = <<"new", p, x>>
                     \/ h = <<"proc", p, <<"kstack", 0, kstack[p]>>>>
                     \/ h = <<"proc", p, <<"mem", 0, loc[p].mem>>>>
<1> DEFINE S(p) == {<<"pgdir", p, x>> : x \in Places(pgdir[p])}
                   \cup {<<"new", p, x>> : x \in Places(new[p])}
                   \cup {<<"proc", p, <<"kstack", 0, kstack[p]>>>>, <<"proc", p, <<"mem", 0, loc[p].mem>>>>}
<1>1. h \in Holdings <=> h[3][3] # 0 /\ h \in UNION {S(p) : p \in Procs}
  BY DEF Holdings
<1>2. ASSUME NEW p \in Procs
      PROVE  h \in S(p) <=> \/ \E x \in Places(pgdir[p]) : h = <<"pgdir", p, x>>
                            \/ \E x \in Places(new[p]) : h = <<"new", p, x>>
                            \/ h = <<"proc", p, <<"kstack", 0, kstack[p]>>>>
                            \/ h = <<"proc", p, <<"mem", 0, loc[p].mem>>>>
  OBVIOUS
<1> HIDE DEF S
<1>3. h \in UNION {S(p) : p \in Procs} <=> \E p \in Procs : h \in S(p)
  OBVIOUS
<1> QED BY <1>1, <1>2, <1>3

\* The owner of the frame in a place.
Holder(h) == IF h[1] = "proc" THEN <<h[3][1], h[2]>> ELSE <<h[1], h[2]>>

LEMMA HolderOwns ==
    ASSUME IInv, NEW h \in Holdings
    PROVE  /\ Holder(h) \in Owners /\ Holder(h) # Free
           /\ h[3][3] \in Own(Holder(h)) /\ h[3][3] \in Frames
<1>1. h[3][3] # 0 /\ TypeOK
  BY HoldingsAre DEF IInv
<1>2. PICK p \in Procs :
          \/ \E x \in Places(pgdir[p]) : h = <<"pgdir", p, x>>
          \/ \E x \in Places(new[p]) : h = <<"new", p, x>>
          \/ h = <<"proc", p, <<"kstack", 0, kstack[p]>>>>
          \/ h = <<"proc", p, <<"mem", 0, loc[p].mem>>>>
  BY HoldingsAre
<1>3. /\ pgdir[p] \in Tables /\ new[p] \in Tables /\ Neat(pgdir[p]) /\ Neat(new[p])
      /\ kstack[p] \in MaybeFrame /\ loc[p].mem \in MaybeFrame
  BY <1>1, Types DEF IInv, ProcInv
<1>4. TableFrames(pgdir[p]) \subseteq Frames /\ TableFrames(new[p]) \subseteq Frames
  BY <1>3, InTable
<1>5. CASE \E x \in Places(pgdir[p]) : h = <<"pgdir", p, x>>
  <2>1. Holder(h) = <<"pgdir", p>> /\ h[3] \in Places(pgdir[p])
    BY <1>5 DEF Holder
  <2>2. h[3][3] \in TableFrames(pgdir[p])
    BY <1>1, <1>3, <2>1, PlacesOnce
  <2>3. <<"pgdir", p>> # Free
    BY DEF Free
  <2> QED BY <1>4, <2>1, <2>2, <2>3, OwnAt
<1>6. CASE \E x \in Places(new[p]) : h = <<"new", p, x>>
  <2>1. Holder(h) = <<"new", p>> /\ h[3] \in Places(new[p])
    BY <1>6 DEF Holder
  <2>2. h[3][3] \in TableFrames(new[p])
    BY <1>1, <1>3, <2>1, PlacesOnce
  <2>3. <<"new", p>> # Free
    BY DEF Free
  <2> QED BY <1>4, <2>1, <2>2, <2>3, OwnAt
<1>7. CASE h = <<"proc", p, <<"kstack", 0, kstack[p]>>>>
  <2>1. Holder(h) = <<"kstack", p>> /\ h[3][3] = kstack[p] /\ <<"kstack", p>> # Free
    BY <1>7 DEF Holder, Free
  <2>2. h[3][3] \in Frames
    BY <1>1, <1>3, <2>1 DEF MaybeFrame
  <2> QED BY <1>1, <2>1, <2>2, OwnAt
<1>8. CASE h = <<"proc", p, <<"mem", 0, loc[p].mem>>>>
  <2>1. Holder(h) = <<"mem", p>> /\ h[3][3] = loc[p].mem /\ <<"mem", p>> # Free
    BY <1>8 DEF Holder, Free
  <2>2. h[3][3] \in Frames
    BY <1>1, <1>3, <2>1 DEF MaybeFrame
  <2> QED BY <1>1, <2>1, <2>2, OwnAt
<1> QED BY <1>2, <1>5, <1>6, <1>7, <1>8

\* What an owner other than the free list has is in a place.
LEMMA OwnedHeld ==
    ASSUME IInv, NEW f \in Frames \ free
    PROVE  \E h \in Holdings : h[3][3] = f
<1>1. PICK o \in Owners : f \in Own(o)
  BY DEF IInv, Parted
<1>2. PICK k \in {"free", "pgdir", "new", "kstack", "mem"}, p \in Procs : o = <<k, p>>
  BY DEF Owners
<1>3. f # 0 /\ TypeOK
  BY Constants DEF IInv
<1>4. /\ pgdir[p] \in Tables /\ new[p] \in Tables /\ Neat(pgdir[p]) /\ Neat(new[p])
  BY <1>3, Types DEF IInv, ProcInv
<1>5. CASE k = "free"
  BY <1>1, <1>2, <1>5 DEF Own
<1>6. CASE k = "pgdir"
  <2>1. f \in TableFrames(pgdir[p])
    BY <1>1, <1>2, <1>6, OwnAt
  <2>2. PICK x \in Places(pgdir[p]) : x[3] = f
    BY <1>4, <2>1, PlacesOnce
  <2> DEFINE h == <<"pgdir", p, x>>
  <2>3. h[3] = x
    OBVIOUS
  <2>4. h \in Holdings
    BY <1>3, <2>2, <2>3, HoldingsAre
  <2> QED BY <2>2, <2>3, <2>4
<1>7. CASE k = "new"
  <2>1. f \in TableFrames(new[p])
    BY <1>1, <1>2, <1>7, OwnAt
  <2>2. PICK x \in Places(new[p]) : x[3] = f
    BY <1>4, <2>1, PlacesOnce
  <2> DEFINE h == <<"new", p, x>>
  <2>3. h[3] = x
    OBVIOUS
  <2>4. h \in Holdings
    BY <1>3, <2>2, <2>3, HoldingsAre
  <2> QED BY <2>2, <2>3, <2>4
<1>8. CASE k = "kstack"
  <2>1. f = kstack[p]
    BY <1>1, <1>2, <1>8, OwnAt
  <2> DEFINE h == <<"proc", p, <<"kstack", 0, kstack[p]>>>>
  <2>2. h[3][3] = f
    BY <2>1
  <2>3. h \in Holdings
    BY <1>3, <2>2, HoldingsAre
  <2> QED BY <2>2, <2>3
<1>9. CASE k = "mem"
  <2>1. f = loc[p].mem
    BY <1>1, <1>2, <1>9, OwnAt
  <2> DEFINE h == <<"proc", p, <<"mem", 0, loc[p].mem>>>>
  <2>2. h[3][3] = f
    BY <2>1
  <2>3. h \in Holdings
    BY <1>3, <2>2, HoldingsAre
  <2> QED BY <2>2, <2>3
<1> QED BY <1>5, <1>6, <1>7, <1>8, <1>9

LEMMA InvConserves ==
    ASSUME IInv
    PROVE  FramesConserved
<1>1. ASSUME NEW h \in Holdings PROVE h[3][3] \in Frames \ free
  <2>1. /\ Holder(h) \in Owners /\ Holder(h) # Free
        /\ h[3][3] \in Own(Holder(h)) /\ h[3][3] \in Frames
    BY HolderOwns
  <2>2. ASSUME h[3][3] \in free PROVE FALSE
    <3>1. h[3][3] \in Own(Free) /\ Free \in Owners /\ Parted
      BY <2>2, OwnAt DEF IInv
    <3> QED BY <2>1, <3>1, OneOwner
  <2> QED BY <2>1, <2>2
<1>2. {h[3][3] : h \in Holdings} = Frames \ free
  BY <1>1, OwnedHeld
<1>3. ASSUME NEW g \in Holdings, NEW h \in Holdings, g[3][3] = h[3][3] PROVE g = h
  <2>1. /\ Holder(g) \in Owners /\ g[3][3] \in Own(Holder(g)) /\ g[3][3] \in Frames
        /\ Holder(h) \in Owners /\ h[3][3] \in Own(Holder(h)) /\ Parted
    BY HolderOwns DEF IInv
  <2>2. Holder(g) = Holder(h)
    BY <1>3, <2>1, OneOwner
  <2>3. PICK p \in Procs :
            \/ \E x \in Places(pgdir[p]) : g = <<"pgdir", p, x>>
            \/ \E x \in Places(new[p]) : g = <<"new", p, x>>
            \/ g = <<"proc", p, <<"kstack", 0, kstack[p]>>>>
            \/ g = <<"proc", p, <<"mem", 0, loc[p].mem>>>>
    BY HoldingsAre
  <2>4. PICK q \in Procs :
            \/ \E x \in Places(pgdir[q]) : h = <<"pgdir", q, x>>
            \/ \E x \in Places(new[q]) : h = <<"new", q, x>>
            \/ h = <<"proc", q, <<"kstack", 0, kstack[q]>>>>
            \/ h = <<"proc", q, <<"mem", 0, loc[q].mem>>>>
    BY HoldingsAre
  <2>5. g[3][3] # 0
    BY HoldingsAre
  <2>6. /\ pgdir[p] \in Tables /\ new[p] \in Tables /\ Neat(pgdir[p]) /\ Neat(new[p])
    BY Types DEF IInv, ProcInv
  <2>7. CASE \E x \in Places(pgdir[p]) : g = <<"pgdir", p, x>>
    <3>1. PICK x \in Places(pgdir[p]) : g = <<"pgdir", p, x>>
      BY <2>7
    <3>2. Holder(g) = <<"pgdir", p>>
      BY <3>1 DEF Holder
    <3>3. PICK y \in Places(pgdir[p]) : h = <<"pgdir", p, y>>
      BY <2>2, <2>4, <3>2 DEF Holder
    <3>4. x[3] = y[3] /\ x[3] # 0
      BY <1>3, <2>5, <3>1, <3>3
    <3>5. x = y
      BY <2>6, <3>4, PlacesOnce
    <3> QED BY <3>1, <3>3, <3>5
  <2>8. CASE \E x \in Places(new[p]) : g = <<"new", p, x>>
    <3>1. PICK x \in Places(new[p]) : g = <<"new", p, x>>
      BY <2>8
    <3>2. Holder(g) = <<"new", p>>
      BY <3>1 DEF Holder
    <3>3. PICK y \in Places(new[p]) : h = <<"new", p, y>>
      BY <2>2, <2>4, <3>2 DEF Holder
    <3>4. x[3] = y[3] /\ x[3] # 0
      BY <1>3, <2>5, <3>1, <3>3
    <3>5. x = y
      BY <2>6, <3>4, PlacesOnce
    <3> QED BY <3>1, <3>3, <3>5
  <2>9. CASE g = <<"proc", p, <<"kstack", 0, kstack[p]>>>>
    BY <2>2, <2>4, <2>9 DEF Holder
  <2>10. CASE g = <<"proc", p, <<"mem", 0, loc[p].mem>>>>
    BY <2>2, <2>4, <2>10 DEF Holder
  <2> QED BY <2>3, <2>7, <2>8, <2>9, <2>10
<1> QED BY <1>2, <1>3 DEF FramesConserved

LEMMA InvSizes ==
    ASSUME IInv
    PROVE  SizesTrue
<1>1. \A p \in Procs : Runs(p) => Below(pgdir[p], sz[p])
  BY Running
<1>2. panic = "none"
  BY DEF IInv, TypeOK
<1> QED BY <1>1, <1>2 DEF SizesTrue, Below

----------------------------------------------------------------------------
(* Theorems *)

(***************************************************************************)
(* The inductive invariant: every frame has one owner among the free list, *)
(* the tables, the kernel stacks and the pages in hand, a table has        *)
(* exactly the pages below the address that allocuvm and copyuvm have      *)
(* reached, and the child of a fork is an embryo of one parent.            *)
(***************************************************************************)
THEOREM VmInvariant == Spec => []IInv
<1>1. Init => IInv
  BY InitInv
<1>2. IInv /\ [Next]_vars => IInv'
  BY NextInv
<1> QED BY <1>1, <1>2, PTL DEF Spec

(***************************************************************************)
(* Whichever kalloc of fork, exec and sbrk fails and however their steps   *)
(* mix, no page is lost, freed twice or shared by two processes.           *)
(***************************************************************************)
THEOREM VmFramesConserved == Spec => []FramesConserved
<1>1. IInv => FramesConserved
  BY InvConserves
<1> QED BY <1>1, VmInvariant, PTL

(***************************************************************************)
(* A process that runs has exactly the pages below its size: copyuvm does  *)
(* not panic for a page that is not present, nor mappages for a remap.     *)
(***************************************************************************)
THEOREM VmSizesTrue == Spec => []SizesTrue
<1>1. IInv => SizesTrue
  BY InvSizes
<1> QED BY <1>1, VmInvariant, PTL
=============================================================================
