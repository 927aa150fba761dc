--------------------------- MODULE ShmRaceProofs ---------------------------
(***************************************************************************)
(* The shared-memory calls interleaved step by step, for any number of     *)
(* processes, entries, frames, pages and calls: when programs attach only  *)
(* their own segments and the established one, and one process creates and *)
(* removes segments, the attach counts are exact, until the kernel panics  *)
(* over a shmat that failed with the lock held.                            *)
(***************************************************************************)
EXTENDS ShmRace, FiniteSetTheorems, TLAPS

----------------------------------------------------------------------------
(* The inductive invariant *)

GetPcs == {"get_page", "get_load", "get_store"}
AtPcs == {"at_lock", "at_load", "at_store"}
DtPcs == {"dt_lock", "dt_load", "dt_store", "dt_clear"}
RmPcs == {"rm_free", "rm_pa"}

\* Where a process holds the lock.
Locked == {"at_load", "at_store", "dt_load", "dt_store", "dt_clear"}

\* Where a mapping is there that the count does not have.
Midway == {"at_store", "dt_clear"}

Seg == [used : BOOLEAN, size : Nat, nattch : Int, pa : Frames \cup {NoFrame}]
Locals == [id : Nat, n : Nat, i : Nat, s : Nat, append : BOOLEAN, tmp : Int]

TypeOK ==
    /\ segs \in [Ids -> Seg]
    /\ last \in -1 .. SHMMAXSEG - 1
    /\ lock \in Procs \cup {NoProc}
    /\ onList \in [Frames -> {0, 1}]
    /\ att \in [Procs -> [Ids -> Ids \cup {-1}]]
    /\ maps \in [Procs -> [Ids -> Ids \cup {-1}]]
    /\ pc \in [Procs -> {"user"} \cup GetPcs \cup AtPcs \cup DtPcs \cup RmPcs]
    /\ loc \in [Procs -> Locals]
    /\ failed \in SUBSET Procs
    /\ fault = FALSE

\* The entries of a segment that shmget returned are in use until removeshm
\* begins to free them.
Lasting(r) ==
    /\ r[1] \in Creators \cup {NoProc}
    /\ r[2] \in Nat /\ r[3] \in Nat \ {0}
    /\ r[2] + r[3] <= last + 1
    /\ \A j \in Span(r[2], r[3]) : segs[j].used /\ segs[j].size = r[3]

\* Every used entry has a frame of its own, which is not on the free list.
FramesHeld ==
    \A j \in Ids : segs[j].used =>
        /\ segs[j].pa \in Frames /\ onList[segs[j].pa] = 0
        /\ \A k \in Ids : segs[k].used /\ segs[k].pa = segs[j].pa => k = j

\* The lock is held inside shmat and shmdt, and by a shmat that failed.
LockHeld ==
    \A p \in Procs :
        /\ lock = p <=> pc[p] \in Locked \/ p \in failed
        /\ p \in failed => pc[p] \notin Locked

\* The entries id .. id+n-1 belong to no segment that shmget returned.
Apart(id, n) == \A r \in ready : Span(r[2], r[3]) \cap Span(id, n) = {}

\* Inside shmget: the entries done so far are in use, and lastShmSegIndex
\* moves with them when the segment is appended.
GetInv(p) ==
    pc[p] \in GetPcs =>
        /\ p \in Creators
        /\ loc[p].n > 0 /\ loc[p].i <= loc[p].n
        /\ loc[p].id + loc[p].n <= SHMMAXSEG
        /\ pc[p] # "get_page" => loc[p].append /\ loc[p].i < loc[p].n
        /\ loc[p].append => last = Entry(p) - 1
        /\ ~loc[p].append => loc[p].id + loc[p].n <= last + 1
        /\ pc[p] = "get_store" => loc[p].tmp = last
        /\ Apart(loc[p].id, loc[p].n)
        /\ \A j \in Span(loc[p].id, loc[p].n) :
              j < Entry(p) \/ (j = Entry(p) /\ pc[p] # "get_page") =>
                  segs[j].used /\ segs[j].size = loc[p].n

\* Inside removeshm: nobody maps the segment, the entries still to be freed
\* are in use, and the segment is given up with the first one.
RmInv(p) ==
    pc[p] \in RmPcs =>
        /\ p \in Creators
        /\ loc[p].n > 0 /\ loc[p].i <= loc[p].n
        /\ loc[p].id + loc[p].n <= last + 1
        /\ pc[p] = "rm_pa" => loc[p].i < loc[p].n /\ ~segs[Entry(p)].used
        /\ \A j \in Span(loc[p].id, loc[p].n) :
              /\ \A q \in Procs, s \in Ids : maps[q][s] # j
              /\ j > Entry(p) \/ (j = Entry(p) /\ pc[p] = "rm_free") => segs[j].used
        /\ IF pc[p] = "rm_free" /\ loc[p].i = 0
           THEN \E r \in ready : r[1] = p /\ r[2] = loc[p].id /\ r[3] = loc[p].n
           ELSE Apart(loc[p].id, loc[p].n)

\* The segments a program may attach: its own and the established one.
Theirs(p, r) == r \in ready /\ r[1] \in {p, NoProc}

\* The slots the shmat or shmdt under way is about.
Work(p) == IF pc[p] \in AtPcs \cup DtPcs THEN Span(loc[p].s, loc[p].n) ELSE {}

\* Inside shmat and shmdt: the segment lasts, and what was loaded is what
\* the count still is.
WorkInv(p) ==
    pc[p] \in AtPcs \cup DtPcs =>
        /\ \E r \in ready : Theirs(p, r) /\ r[2] = loc[p].id /\ r[3] = loc[p].n
        /\ loc[p].s + loc[p].n <= SHMMAXSEG
        /\ loc[p].i <= loc[p].n
        /\ pc[p] \in {"at_lock", "dt_lock"} => loc[p].i = 0
        /\ pc[p] \in {"at_store", "dt_store"} =>
              loc[p].i < loc[p].n /\ loc[p].tmp = segs[Entry(p)].nattch
        /\ pc[p] = "dt_clear" => loc[p].i < loc[p].n

\* Inside shmat: the slots done so far are mapped, the others are free.
AtInv(p) ==
    pc[p] \in AtPcs =>
        \A k \in 0 .. loc[p].n - 1 :
            IF k < loc[p].i \/ (k = loc[p].i /\ pc[p] = "at_store")
            THEN maps[p][loc[p].s + k] = loc[p].id + k /\ att[p][loc[p].s + k] = loc[p].id
            ELSE maps[p][loc[p].s + k] = -1 /\ att[p][loc[p].s + k] = -1

\* Inside shmdt: the slots done so far are free, the others still mapped.
DtInv(p) ==
    pc[p] \in DtPcs =>
        \A k \in 0 .. loc[p].n - 1 :
            IF k < loc[p].i
            THEN maps[p][loc[p].s + k] = -1 /\ att[p][loc[p].s + k] = -1
            ELSE /\ maps[p][loc[p].s + k] = loc[p].id + k
                 /\ k = loc[p].i /\ pc[p] \in {"dt_store", "dt_clear"} => att[p][loc[p].s + k] = -1

\* All of segment r is attached from slot b on.
Block(p, b, r) ==
    /\ b + r[3] <= SHMMAXSEG
    /\ \A k \in 0 .. r[3] - 1 : maps[p][b + k] = r[2] + k /\ att[p][b + k] = r[2]

\* Elsewhere segments are attached whole or not at all; a shmat that failed
\* leaves a slot marked.
MapInv(p) ==
    \A s \in Ids \ Work(p) :
        \/ maps[p][s] = -1 /\ (att[p][s] = -1 \/ p \in failed)
        \/ \E r \in ready, b \in Ids :
              Theirs(p, r) /\ s \in Span(b, r[3]) /\ Block(p, b, r)

ProcInv(p) ==
    /\ GetInv(p) /\ RmInv(p)
    /\ WorkInv(p) /\ AtInv(p) /\ DtInv(p) /\ MapInv(p)

\* One mapping is there but not counted: not yet, while its shmat is between
\* the load and the store, or no longer, while its shmdt has to clear it.
Late(j) == IF lock # NoProc /\ pc[lock] \in Midway /\ Entry(lock) = j THEN 1 ELSE 0

Counted(j) ==
    /\ IsFiniteSet(Mappings(j))
    /\ segs[j].nattch = Cardinality(Mappings(j)) - Late(j)

IInv ==
    /\ TypeOK
    /\ \A r \in ready : Lasting(r)
    /\ SegmentsDisjoint
    /\ FramesHeld
    /\ LockHeld
    /\ \A p \in Procs : ProcInv(p)
    /\ \A j \in Ids : Counted(j)

\* One process creates (and, programs being Private, removes) segments.
OneCreator == \A c, d \in Creators : c = d

----------------------------------------------------------------------------
(* The first-fit search *)

\* A non-empty set of natural numbers has a least element.
LEMMA LeastNat ==
    ASSUME NEW T \in SUBSET Nat, T # {}
    PROVE  \E x \in T : \A y \in T : x <= y
<1> DEFINE R == OpToRel(<, Nat)
<1>1. IsWellFoundedOn(R, Nat)
  BY NatLessThanWellFounded
<1>2. PICK x \in T : \A y \in T : ~(<<y, x>> \in R)
  <2> HIDE DEF R
  <2> QED BY <1>1, WFMin
<1>3. \A y \in T : ~(y < x)
  BY <1>2 DEF OpToRel
<1> QED BY <1>3

\* ScanResult is -1 or a place that fits.
LEMMA ScanResultFits ==
    ASSUME NEW f, NEW l \in Nat, NEW n \in Nat
    PROVE  \/ ScanResult(f, l, n) = -1
           \/ FitsAt(f, l, n, ScanResult(f, l, n))
<1> DEFINE T == {s \in 0 .. l - 1 : FitsAt(f, l, n, s)}
<1>1. CASE n > 0 /\ \E s \in 0 .. l - 1 : FitsAt(f, l, n, s)
  <2>1. T \in SUBSET Nat /\ T # {}
    BY <1>1
  <2>2. PICK x \in T : \A y \in T : x <= y
    <3> HIDE DEF T
    <3> QED BY <2>1, LeastNat
  <2>3. x \in 0 .. l - 1 /\ IsFirstFit(f, l, n, x)
    BY <2>2 DEF IsFirstFit
  <2>4. IsFirstFit(f, l, n, CHOOSE s \in 0 .. l - 1 : IsFirstFit(f, l, n, s))
    BY <2>3
  <2> QED BY <2>4, <1>1 DEF ScanResult, IsFirstFit
<1>2. CASE ~(n > 0 /\ \E s \in 0 .. l - 1 : FitsAt(f, l, n, s))
  BY <1>2 DEF ScanResult
<1> QED BY <1>1, <1>2

----------------------------------------------------------------------------
(* Segments, attached blocks and mappings *)

\* The types of a process's locals and of a segment that shmget returned.
LEMMA LocalTypes ==
    ASSUME IInv, NEW p \in Procs
    PROVE  /\ loc[p] \in Locals
           /\ loc[p].id \in Nat /\ loc[p].n \in Nat
           /\ loc[p].i \in Nat /\ loc[p].s \in Nat
           /\ loc[p].tmp \in Int /\ loc[p].append \in BOOLEAN
<1>1. loc \in [Procs -> Locals]
  BY DEF IInv, TypeOK
<1>2. loc[p] \in Locals
  BY <1>1
<1> QED BY <1>2 DEF Locals

LEMMA SegmentTypes ==
    ASSUME IInv, NEW r \in ready
    PROVE  r[2] \in Nat /\ r[3] \in Nat /\ r[3] > 0
<1>1. Lasting(r)
  BY DEF IInv
<1> QED BY <1>1 DEF Lasting

\* Two segments that share an entry are the same.
LEMMA SameSegment ==
    ASSUME SegmentsDisjoint, NEW r \in ready, NEW t \in ready,
           NEW j \in Span(r[2], r[3]) \cap Span(t[2], t[3])
    PROVE  r = t
BY DEF SegmentsDisjoint

\* A block that reaches outside the slots at work lies outside them.
LEMMA BlocksApart ==
    ASSUME IInv, NEW p \in Procs, NEW r \in ready, NEW b \in Ids, Block(p, b, r),
           NEW t \in Span(b, r[3]) \ Work(p)
    PROVE  Span(b, r[3]) \cap Work(p) = {}
<1> SUFFICES ASSUME pc[p] \in AtPcs \cup DtPcs,
                    NEW u \in Span(b, r[3]), u \in Span(loc[p].s, loc[p].n)
             PROVE  FALSE
  BY DEF Work
<1>1. PICK w \in ready : w[2] = loc[p].id /\ w[3] = loc[p].n
  BY DEF IInv, ProcInv, WorkInv
<1>2. /\ r[2] \in Nat /\ r[3] \in Nat /\ w[2] \in Nat /\ w[3] \in Nat
      /\ loc[p].s \in Nat /\ b \in Nat /\ loc[p].i \in Nat
      /\ loc[p].id \in Nat /\ loc[p].n \in Nat
  <2>1. b \in Nat
    BY DEF Ids
  <2> QED BY <2>1, LocalTypes, SegmentTypes
<1> DEFINE k == u - loc[p].s
           h == u - b
<1>3. k \in 0 .. loc[p].n - 1 /\ h \in 0 .. r[3] - 1 /\ u = loc[p].s + k /\ u = b + h
  BY <1>2 DEF Span
<1>4. maps[p][u] = r[2] + h /\ maps[p][u] # -1
  BY <1>3, <1>2 DEF Block
<1>5. maps[p][u] = loc[p].id + k
  BY <1>3, <1>4 DEF IInv, ProcInv, AtInv, DtInv
<1>6. maps[p][u] \in Span(r[2], r[3]) \cap Span(w[2], w[3])
  BY <1>1, <1>2, <1>3, <1>4, <1>5 DEF Span
<1>7. r = w
  BY <1>1, <1>6, SameSegment DEF IInv
<1>8. b = loc[p].s
  BY <1>1, <1>2, <1>3, <1>4, <1>5, <1>7
<1>9. t \in Span(loc[p].s, loc[p].n)
  BY <1>1, <1>7, <1>8
<1> QED BY <1>9 DEF Work

\* Whatever is mapped belongs to a segment of the program's.
LEMMA MappedLasts ==
    ASSUME IInv, NEW p \in Procs, NEW s \in Ids, maps[p][s] # -1
    PROVE  \E r \in ready : Theirs(p, r) /\ maps[p][s] \in Span(r[2], r[3])
<1>1. CASE s \in Work(p)
  <2>1. pc[p] \in AtPcs \cup DtPcs /\ s \in Span(loc[p].s, loc[p].n)
    BY <1>1 DEF Work
  <2>2. PICK w \in ready : Theirs(p, w) /\ w[2] = loc[p].id /\ w[3] = loc[p].n
    BY <2>1 DEF IInv, ProcInv, WorkInv
  <2>3. /\ loc[p].s \in Nat /\ loc[p].i \in Nat
        /\ loc[p].id \in Nat /\ loc[p].n \in Nat
    BY LocalTypes
  <2> DEFINE k == s - loc[p].s
  <2>4. k \in 0 .. loc[p].n - 1 /\ s = loc[p].s + k
    BY <2>1, <2>3 DEF Span
  <2>5. maps[p][s] = loc[p].id + k
    BY <2>1, <2>4 DEF IInv, ProcInv, AtInv, DtInv
  <2> QED BY <2>2, <2>3, <2>4, <2>5 DEF Span
<1>2. CASE s \notin Work(p)
  <2>1. PICK r \in ready, b \in Ids :
            Theirs(p, r) /\ s \in Span(b, r[3]) /\ Block(p, b, r)
    BY <1>2 DEF IInv, ProcInv, MapInv
  <2>2. r[2] \in Nat /\ r[3] \in Nat /\ b \in Nat
    BY DEF IInv, Lasting, Ids
  <2> DEFINE k == s - b
  <2>3. k \in 0 .. r[3] - 1 /\ s = b + k
    BY <2>1, <2>2 DEF Span
  <2>4. maps[p][s] = r[2] + k
    BY <2>1, <2>3 DEF Block
  <2> QED BY <2>1, <2>2, <2>3, <2>4 DEF Span
<1> QED BY <1>1, <1>2

----------------------------------------------------------------------------
(* What a step leaves alone *)

\* The entries of a lasting segment are entries of the table.
LEMMA LastingIds ==
    ASSUME IInv, NEW r \in ready
    PROVE  /\ r[2] \in Nat /\ r[3] \in Nat \ {0} /\ r[2] + r[3] <= SHMMAXSEG
           /\ Span(r[2], r[3]) \subseteq Ids /\ r[2] \in Span(r[2], r[3])
<1>1. last <= SHMMAXSEG - 1 /\ last \in Int /\ SHMMAXSEG \in Nat
  BY RaceAssumption DEF IInv, TypeOK
<1>2. r[2] \in Nat /\ r[3] \in Nat \ {0} /\ r[2] + r[3] <= last + 1
  BY DEF IInv, Lasting
<1> QED BY <1>1, <1>2 DEF Span, Ids

\* Blocks outside the slots at work stay.
LEMMA MapKeep ==
    ASSUME IInv, NEW q \in Procs, Work(q)' = Work(q), failed \subseteq failed',
           \A t \in Ids \ Work(q) : maps'[q][t] = maps[q][t] /\ att'[q][t] = att[q][t],
           \A r \in ready :
               Theirs(q, r) /\ (\E s \in Ids : maps[q][s] \in Span(r[2], r[3]))
                   => r \in ready'
    PROVE  MapInv(q)'
<1> SUFFICES ASSUME NEW s \in Ids \ Work(q),
                    ~(maps'[q][s] = -1 /\ (att'[q][s] = -1 \/ q \in failed'))
             PROVE  \E r \in ready', b \in Ids :
                        Theirs(q, r)' /\ s \in Span(b, r[3]) /\ Block(q, b, r)'
  BY DEF MapInv, Ids
<1>1. PICK r \in ready, b \in Ids :
          Theirs(q, r) /\ s \in Span(b, r[3]) /\ Block(q, b, r)
  BY DEF IInv, ProcInv, MapInv
<1>2. r[2] \in Nat /\ r[3] \in Nat \ {0} /\ b \in Nat /\ SHMMAXSEG \in Nat
  BY LastingIds, RaceAssumption DEF Ids
<1>3. Span(b, r[3]) \cap Work(q) = {}
  BY <1>1, BlocksApart
<1>4. \A k \in 0 .. r[3] - 1 : b + k \in Span(b, r[3]) /\ b + k \in Ids
  BY <1>1, <1>2 DEF Block, Span, Ids
<1>5. Block(q, b, r)'
  BY <1>1, <1>3, <1>4 DEF Block
<1>6. r \in ready'
  <2>1. 0 \in 0 .. r[3] - 1 /\ b + 0 = b
    BY <1>2
  <2>2. maps[q][b] = r[2] + 0
    BY <1>1, <2>1 DEF Block
  <2>3. maps[q][b] \in Span(r[2], r[3])
    BY <2>2, <1>2 DEF Span
  <2> QED BY <1>1, <2>3
<1> QED BY <1>1, <1>5, <1>6 DEF Theirs

\* Another process, while p attaches or detaches.
LEMMA OthersKeep ==
    ASSUME IInv, NEW p \in Procs, NEW q \in Procs, q # p,
           pc'[q] = pc[q], loc'[q] = loc[q], att'[q] = att[q], maps'[q] = maps[q],
           ready' = ready, last' = last, failed \subseteq failed',
           \A j \in Ids : segs'[j].used = segs[j].used /\ segs'[j].size = segs[j].size,
           pc[q] \in {"at_store", "dt_store"} =>
               segs'[Entry(q)].nattch = segs[Entry(q)].nattch,
           \A x \in Procs : x # p => maps'[x] = maps[x],
           \A s \in Ids : \/ maps'[p][s] \in {maps[p][s], -1}
                          \/ \E r \in ready : Theirs(p, r) /\ maps'[p][s] \in Span(r[2], r[3])
    PROVE  ProcInv(q)'
<1>0. /\ loc[q].id \in Nat /\ loc[q].n \in Nat /\ loc[q].i \in Nat
      /\ last \in -1 .. SHMMAXSEG - 1 /\ SHMMAXSEG \in Nat
      /\ ProcInv(q)
  BY RaceAssumption, LocalTypes DEF IInv, TypeOK
<1>e. Entry(q)' = Entry(q)
  BY DEF Entry
<1>1. GetInv(q)'
  <2> SUFFICES ASSUME pc[q] \in GetPcs PROVE GetInv(q)'
    BY DEF GetInv
  <2>1. Span(loc[q].id, loc[q].n) \subseteq Ids
    BY <1>0 DEF ProcInv, GetInv, Span, Ids
  <2>2. Apart(loc[q].id, loc[q].n)'
    BY <1>0 DEF ProcInv, GetInv, Apart
  <2> QED BY <1>0, <1>e, <2>1, <2>2 DEF ProcInv, GetInv
<1>2. RmInv(q)'
  <2> SUFFICES ASSUME pc[q] \in RmPcs PROVE RmInv(q)'
    BY DEF RmInv
  <2>1. Span(loc[q].id, loc[q].n) \subseteq Ids
    BY <1>0 DEF ProcInv, RmInv, Span, Ids
  <2>2. ASSUME NEW x \in Procs, NEW s \in Ids
        PROVE  maps'[x][s] \notin Span(loc[q].id, loc[q].n)
    <3>1. maps[x][s] \notin Span(loc[q].id, loc[q].n) /\ -1 \notin Span(loc[q].id, loc[q].n)
      BY <1>0 DEF ProcInv, RmInv, Span
    <3>2. ASSUME NEW r \in ready, Theirs(p, r)
          PROVE  Span(r[2], r[3]) \cap Span(loc[q].id, loc[q].n) = {}
      <4>1. CASE pc[q] = "rm_free" /\ loc[q].i = 0
        <5>1. PICK w \in ready : w[1] = q /\ w[2] = loc[q].id /\ w[3] = loc[q].n
          BY <1>0, <4>1 DEF ProcInv, RmInv
        <5>2. r[1] # q
          BY <3>2, RaceAssumption DEF Theirs
        <5> QED BY <5>1, <5>2 DEF IInv, SegmentsDisjoint
      <4>2. CASE ~(pc[q] = "rm_free" /\ loc[q].i = 0)
        BY <1>0, <4>2 DEF ProcInv, RmInv, Apart
      <4> QED BY <4>1, <4>2
    <3> QED BY <3>1, <3>2
  <2>3. Apart(loc[q].id, loc[q].n)' = Apart(loc[q].id, loc[q].n)
    BY DEF Apart
  <2>4. pc[q] = "rm_pa" => Entry(q) \in Ids
    BY <1>0 DEF ProcInv, RmInv, Entry, Ids
  <2> QED BY <1>0, <1>e, <2>1, <2>2, <2>3, <2>4 DEF ProcInv, RmInv
<1>3. WorkInv(q)'
  BY <1>0, <1>e DEF ProcInv, WorkInv, Theirs
<1>4. AtInv(q)' /\ DtInv(q)'
  BY <1>0 DEF ProcInv, AtInv, DtInv
<1>5. MapInv(q)'
  <2>1. Work(q)' = Work(q)
    BY DEF Work
  <2> QED BY <2>1, MapKeep
<1> QED BY <1>1, <1>2, <1>3, <1>4, <1>5 DEF ProcInv

\* Another process, while p creates or removes a segment.
LEMMA OthersCreate ==
    ASSUME IInv, OneCreator, NEW p \in Procs, p \in Creators, NEW q \in Procs, q # p,
           pc'[q] = pc[q], loc'[q] = loc[q], att' = att, maps' = maps, failed' = failed,
           \A r \in ready : r[1] # p =>
               /\ r \in ready'
               /\ \A j \in Span(r[2], r[3]) : segs'[j].nattch = segs[j].nattch
    PROVE  ProcInv(q)'
<1>0. ProcInv(q) /\ q # NoProc /\ p # NoProc
  BY RaceAssumption DEF IInv
<1>1. pc[q] \notin GetPcs \cup RmPcs
  BY <1>0 DEF OneCreator, ProcInv, GetInv, RmInv
<1>2. GetInv(q)' /\ RmInv(q)'
  BY <1>1 DEF GetInv, RmInv
<1>3. WorkInv(q)'
  <2> SUFFICES ASSUME pc[q] \in AtPcs \cup DtPcs PROVE WorkInv(q)'
    BY DEF WorkInv
  <2>1. PICK r \in ready : Theirs(q, r) /\ r[2] = loc[q].id /\ r[3] = loc[q].n
    BY <1>0 DEF ProcInv, WorkInv
  <2>2. r \in ready' /\ Theirs(q, r)'
    BY <1>0, <2>1 DEF Theirs
  <2>3. pc[q] \in {"at_store", "dt_store"} => segs'[Entry(q)].nattch = segs[Entry(q)].nattch
    <3> SUFFICES ASSUME pc[q] \in {"at_store", "dt_store"}
                 PROVE  segs'[Entry(q)].nattch = segs[Entry(q)].nattch
      OBVIOUS
    <3>1. /\ loc[q].i < loc[q].n /\ loc[q].i \in Nat
          /\ loc[q].n \in Nat /\ loc[q].id \in Nat
      BY <1>0, LocalTypes DEF ProcInv, WorkInv
    <3>2. Entry(q) \in Span(r[2], r[3])
      BY <3>1, <2>1 DEF Entry, Span
    <3> QED BY <1>0, <2>1, <3>2 DEF Theirs
  <2>4. Entry(q)' = Entry(q)
    BY DEF Entry
  <2> QED BY <1>0, <2>1, <2>2, <2>3, <2>4 DEF ProcInv, WorkInv
<1>4. AtInv(q)' /\ DtInv(q)'
  BY <1>0 DEF ProcInv, AtInv, DtInv
<1>5. MapInv(q)'
  <2>1. Work(q)' = Work(q)
    BY DEF Work
  <2>2. \A r \in ready : Theirs(q, r) => r \in ready'
    BY <1>0 DEF Theirs
  <2> QED BY <2>1, <2>2, MapKeep
<1> QED BY <1>2, <1>3, <1>4, <1>5 DEF ProcInv

\* Nothing but the counts changes in the table.
LEMMA TableKeep ==
    ASSUME IInv, ready' = ready, last' = last, onList' = onList,
           \A j \in Ids : /\ segs'[j].used = segs[j].used
                          /\ segs'[j].size = segs[j].size
                          /\ segs'[j].pa = segs[j].pa
    PROVE  (\A r \in ready : Lasting(r))' /\ SegmentsDisjoint' /\ FramesHeld'
<1>1. ASSUME NEW r \in ready PROVE Lasting(r)'
  <2>1. Span(r[2], r[3]) \subseteq Ids
    BY LastingIds
  <2> QED BY <2>1 DEF IInv, Lasting
<1>2. SegmentsDisjoint' /\ FramesHeld'
  BY DEF IInv, SegmentsDisjoint, FramesHeld
<1> QED BY <1>1, <1>2

LEMMA LockKeep ==
    ASSUME IInv, NEW p \in Procs, lock' = lock, failed' = failed,
           \A q \in Procs : q # p => pc'[q] = pc[q],
           pc'[p] \in Locked <=> pc[p] \in Locked
    PROVE  LockHeld'
BY DEF IInv, LockHeld

LEMMA LateKeep ==
    ASSUME IInv, NEW p \in Procs, lock' = lock, NEW j,
           \A q \in Procs : q # p => pc'[q] = pc[q] /\ loc'[q] = loc[q],
           pc[p] \notin Midway, pc'[p] \notin Midway
    PROVE  Late(j)' = Late(j)
BY DEF IInv, TypeOK, Late, Entry

\* The counts stay exact when entries nobody maps are written.
LEMMA CountKeep ==
    ASSUME IInv, maps' = maps, NEW j \in Ids, Late(j)' = Late(j),
           \/ segs'[j].nattch = segs[j].nattch
           \/ segs'[j].nattch = 0 /\ \A q \in Procs, s \in Ids : maps[q][s] # j
    PROVE  Counted(j)'
<1>1. Mappings(j)' = Mappings(j)
  BY DEF Mappings
<1>2. CASE segs'[j].nattch = segs[j].nattch
  BY <1>1, <1>2 DEF IInv, Counted
<1>3. CASE segs'[j].nattch = 0 /\ \A q \in Procs, s \in Ids : maps[q][s] # j
  <2>1. Mappings(j) = {}
    BY <1>3 DEF Mappings
  <2>2. Late(j) = 0
    <3> SUFFICES ASSUME lock # NoProc, pc[lock] \in Midway, Entry(lock) = j PROVE FALSE
      BY DEF Late, Midway
    <3>1. lock \in Procs
      BY DEF IInv, TypeOK
    <3>2. /\ loc[lock].i < loc[lock].n /\ loc[lock].s + loc[lock].n <= SHMMAXSEG
          /\ loc[lock].i \in Nat /\ loc[lock].n \in Nat /\ loc[lock].s \in Nat
          /\ loc[lock].id \in Nat
      BY <3>1, LocalTypes DEF IInv, ProcInv, WorkInv, AtPcs, DtPcs, Midway
    <3>3. maps[lock][loc[lock].s + loc[lock].i] = Entry(lock)
      <4>1. loc[lock].i \in 0 .. loc[lock].n - 1 /\ ~(loc[lock].i < loc[lock].i)
        BY <3>2
      <4>2. CASE pc[lock] = "at_store"
        BY <3>1, <4>1, <4>2 DEF IInv, ProcInv, AtInv, AtPcs, Entry
      <4>3. CASE pc[lock] = "dt_clear"
        BY <3>1, <4>1, <4>3 DEF IInv, ProcInv, DtInv, DtPcs, Entry
      <4> QED BY <4>2, <4>3 DEF Midway
    <3>4. loc[lock].s + loc[lock].i \in Ids
      BY <3>2, RaceAssumption DEF Ids
    <3> QED BY <1>3, <3>1, <3>3, <3>4
  <2> QED BY <1>1, <1>3, <2>1, <2>2, FS_EmptySet DEF Counted
<1> QED BY <1>2, <1>3

\* A step of p that only moves p, outside the lock.
LEMMA Quiet ==
    ASSUME IInv, NEW p \in Procs, UNCHANGED <<segs, last, lock, onList, maps, ready, failed>>,
           \A q \in Procs : q # p => pc'[q] = pc[q] /\ loc'[q] = loc[q] /\ att'[q] = att[q],
           pc[p] \notin Locked, pc'[p] \notin Locked,
           TypeOK', ProcInv(p)'
    PROVE  IInv'
<1>1. (\A r \in ready : Lasting(r))' /\ SegmentsDisjoint' /\ FramesHeld'
  BY TableKeep
<1>2. LockHeld'
  BY LockKeep
<1>3. ASSUME NEW q \in Procs, q # p PROVE ProcInv(q)'
  BY <1>3, OthersKeep
<1>4. ASSUME NEW j \in Ids PROVE Counted(j)'
  <2>1. Late(j)' = Late(j)
    BY LateKeep DEF Locked, Midway
  <2> QED BY <2>1, CountKeep
<1> QED BY <1>1, <1>2, <1>3, <1>4 DEF IInv, Ids

\* A process that is about to do neither shmat nor shmdt.
LEMMA NotAttaching ==
    ASSUME NEW p, pc'[p] \notin AtPcs \cup DtPcs
    PROVE  WorkInv(p)' /\ AtInv(p)' /\ DtInv(p)' /\ Work(p)' = {}
BY DEF WorkInv, AtInv, DtInv, Work

\* A step of p inside shmget or removeshm: what is left to show.
LEMMA Creating ==
    ASSUME IInv, OneCreator, NEW p \in Procs, p \in Creators,
           pc[p] \notin AtPcs \cup DtPcs, pc'[p] \notin AtPcs \cup DtPcs,
           lock' = lock, att' = att, maps' = maps, failed' = failed,
           \A q \in Procs : q # p => pc'[q] = pc[q] /\ loc'[q] = loc[q],
           \A r \in ready :
               \/ r \in ready'
               \/ r[1] = p /\ \A q \in Procs, s \in Ids : maps[q][s] \notin Span(r[2], r[3]),
           \A j \in Ids :
               \/ segs'[j].nattch = segs[j].nattch
               \/ /\ segs'[j].nattch = 0
                  /\ \A q \in Procs, s \in Ids : maps[q][s] # j
                  /\ \A r \in ready : r[1] # p => j \notin Span(r[2], r[3]),
           TypeOK', (\A r \in ready : Lasting(r))', SegmentsDisjoint', FramesHeld',
           GetInv(p)', RmInv(p)'
    PROVE  IInv'
<1>1. LockHeld'
  BY LockKeep DEF Locked, AtPcs, DtPcs
<1>2. ASSUME NEW j \in Ids PROVE Counted(j)'
  <2>1. Late(j)' = Late(j)
    BY LateKeep DEF AtPcs, DtPcs, Midway
  <2> QED BY <2>1, CountKeep
<1>3. ASSUME NEW q \in Procs, q # p PROVE ProcInv(q)'
  <2>1. \A r \in ready : r[1] # p =>
               /\ r \in ready'
               /\ \A j \in Span(r[2], r[3]) : segs'[j].nattch = segs[j].nattch
    BY LastingIds
  <2> QED BY <1>3, <2>1, OthersCreate
<1>4. ProcInv(p)'
  <2>1. WorkInv(p)' /\ AtInv(p)' /\ DtInv(p)' /\ Work(p)' = {} /\ Work(p) = {}
    BY NotAttaching DEF Work
  <2>2. MapInv(p)'
    BY <2>1, MapKeep
  <2> QED BY <2>1, <2>2 DEF ProcInv
<1> QED BY <1>1, <1>2, <1>3, <1>4 DEF IInv, Ids

\* Nobody maps an entry that belongs to no segment.
LEMMA ApartUnmapped ==
    ASSUME IInv, NEW id \in Nat, NEW n, Apart(id, n), NEW j \in Span(id, n),
           NEW q \in Procs, NEW s \in Ids
    PROVE  maps[q][s] # j
<1> SUFFICES ASSUME maps[q][s] = j PROVE FALSE
  OBVIOUS
<1>1. j # -1
  BY DEF Span
<1>2. PICK r \in ready : maps[q][s] \in Span(r[2], r[3])
  BY <1>1, MappedLasts
<1> QED BY <1>2 DEF Apart

\* Where p goes next, and what happens to its locals.
Pcs == {"user"} \cup GetPcs \cup AtPcs \cup DtPcs \cup RmPcs

LEMMA Goes ==
    ASSUME IInv, NEW p \in Procs, NEW l \in Pcs, pc' = [pc EXCEPT ![p] = l]
    PROVE  /\ pc' \in [Procs -> Pcs] /\ pc'[p] = l
           /\ \A q \in Procs : q # p => pc'[q] = pc[q]
<1>1. pc \in [Procs -> Pcs]
  BY DEF IInv, TypeOK, Pcs
<1> QED BY <1>1

LEMMA NewLocals ==
    ASSUME IInv, NEW p \in Procs, NEW l \in Locals, loc' = [loc EXCEPT ![p] = l]
    PROVE  /\ loc' \in [Procs -> Locals] /\ loc'[p] = l
           /\ \A q \in Procs : q # p => loc'[q] = loc[q]
<1>1. loc \in [Procs -> Locals]
  BY DEF IInv, TypeOK
<1> QED BY <1>1

LEMMA NoLocalsType == NoLocals \in Locals
BY DEF NoLocals, Locals

LEMMA StepLocals ==
    ASSUME IInv, NEW p \in Procs, Step(p)
    PROVE  /\ loc' \in [Procs -> Locals]
           /\ loc'[p].id = loc[p].id /\ loc'[p].n = loc[p].n /\ loc'[p].i = loc[p].i + 1
           /\ loc'[p].s = loc[p].s /\ loc'[p].append = loc[p].append
           /\ loc'[p].tmp = loc[p].tmp
           /\ Entry(p)' = Entry(p) + 1
           /\ \A q \in Procs : q # p => loc'[q] = loc[q]
<1>1. loc \in [Procs -> Locals] /\ loc[p] \in Locals
  BY DEF IInv, TypeOK
<1>2. loc'[p] = [loc[p] EXCEPT !.i = @ + 1] /\ loc' = [loc EXCEPT ![p] = loc'[p]]
  BY <1>1 DEF Step
<1>3. loc'[p] \in Locals /\ loc'[p].i = loc[p].i + 1
  BY <1>1, <1>2 DEF Locals
<1>4. loc' \in [Procs -> Locals] /\ \A q \in Procs : q # p => loc'[q] = loc[q]
  BY <1>1, <1>2, <1>3
<1>5. /\ loc'[p].id = loc[p].id /\ loc'[p].n = loc[p].n
      /\ loc'[p].s = loc[p].s /\ loc'[p].append = loc[p].append
      /\ loc'[p].tmp = loc[p].tmp
  BY <1>1, <1>2 DEF Locals
<1>6. Entry(p)' = Entry(p) + 1
  BY <1>1, <1>3, <1>5 DEF Entry, Locals
<1> QED BY <1>3, <1>4, <1>5, <1>6

LEMMA LoadLocals ==
    ASSUME IInv, NEW p \in Procs, NEW v \in Int, loc' = [loc EXCEPT ![p].tmp = v]
    PROVE  /\ loc' \in [Procs -> Locals]
           /\ loc'[p].id = loc[p].id /\ loc'[p].n = loc[p].n /\ loc'[p].i = loc[p].i
           /\ loc'[p].s = loc[p].s /\ loc'[p].append = loc[p].append
           /\ loc'[p].tmp = v
           /\ Entry(p)' = Entry(p)
           /\ \A q \in Procs : q # p => loc'[q] = loc[q]
<1>1. loc \in [Procs -> Locals] /\ loc[p] \in Locals
  BY DEF IInv, TypeOK
<1>2. loc'[p] = [loc[p] EXCEPT !.tmp = v] /\ loc' = [loc EXCEPT ![p] = loc'[p]]
  BY <1>1
<1>3. loc'[p] \in Locals /\ loc'[p].tmp = v
  BY <1>1, <1>2 DEF Locals
<1>4. loc' \in [Procs -> Locals] /\ \A q \in Procs : q # p => loc'[q] = loc[q]
  BY <1>1, <1>2, <1>3
<1>5. /\ loc'[p].id = loc[p].id /\ loc'[p].n = loc[p].n /\ loc'[p].i = loc[p].i
      /\ loc'[p].s = loc[p].s /\ loc'[p].append = loc[p].append
  BY <1>1, <1>2 DEF Locals
<1> QED BY <1>3, <1>4, <1>5 DEF Entry

----------------------------------------------------------------------------
(* shmget *)

LEMMA GetFitStep ==
    ASSUME IInv, NEW p \in Procs, NEW n \in Needs, GetFit(p, n)
    PROVE  IInv'
<1> DEFINE free == [j \in Ids |-> ~segs[j].used]
           fit == ScanResult(free, last + 1, n)
           id == IF fit = -1 THEN last + 1 ELSE fit
<1>0. /\ last \in -1 .. SHMMAXSEG - 1 /\ SHMMAXSEG \in Nat /\ n \in Nat \ {0}
      /\ last + 1 \in Nat
  BY RaceAssumption DEF IInv, TypeOK
<1>1. fit = -1 \/ FitsAt(free, last + 1, n, fit)
  BY <1>0, ScanResultFits
<1>2. /\ p \in Creators /\ pc[p] = "user" /\ pc'[p] = "get_page"
      /\ id + n <= SHMMAXSEG
      /\ pc' = [pc EXCEPT ![p] = "get_page"]
      /\ loc' = [loc EXCEPT ![p] =
                   [NoLocals EXCEPT !.id = id, !.n = n, !.append = (fit = -1)]]
      /\ UNCHANGED <<segs, last, lock, onList, att, maps, ready, failed, fault>>
  BY DEF GetFit, Enter, IInv, TypeOK
<1>3. /\ id \in Nat
      /\ fit # -1 => id + n <= last + 1 /\ \A j \in Span(id, n) : ~segs[j].used
      /\ fit = -1 => id = last + 1
  <2>1. CASE fit = -1
    BY <2>1, <1>0
  <2>2. CASE fit # -1
    <3>1. fit \in 0 .. last /\ fit + n <= last + 1 /\ \A j \in fit .. fit + n - 1 : free[j]
      BY <2>2, <1>0, <1>1 DEF FitsAt
    <3>2. \A j \in fit .. fit + n - 1 : j \in Ids
      BY <3>1, <1>0 DEF Ids
    <3>3. \A j \in fit .. fit + n - 1 : ~segs[j].used
      BY <3>1, <3>2
    <3> HIDE DEF fit
    <3> QED BY <2>2, <1>0, <3>1, <3>3 DEF Span
  <2> QED BY <2>1, <2>2
<1>c. PICK d \in Nat, a \in BOOLEAN : d = id /\ a = (fit = -1)
  BY <1>3
<1> HIDE DEF fit, id, free
<1>4. /\ loc'[p].id = d /\ loc'[p].n = n /\ loc'[p].i = 0
      /\ loc'[p].append = a /\ loc'[p].s = 0 /\ loc'[p].tmp = 0
      /\ loc' \in [Procs -> Locals]
  <2>1. loc' = [loc EXCEPT ![p] = [NoLocals EXCEPT !.id = d, !.n = n, !.append = a]]
    BY <1>2, <1>c
  <2>2. [NoLocals EXCEPT !.id = d, !.n = n, !.append = a] \in Locals
    <3>1. a = TRUE \/ a = FALSE
      BY <1>c
    <3>2. NoLocals \in Locals
      BY DEF NoLocals, Locals
    <3> QED BY <1>0, <1>c, <3>1, <3>2 DEF Locals
  <2>3. loc \in [Procs -> Locals]
    BY DEF IInv, TypeOK
  <2>4. loc'[p] = [NoLocals EXCEPT !.id = d, !.n = n, !.append = a]
    BY <2>1, <2>3
  <2>5. loc' \in [Procs -> Locals]
    BY <2>1, <2>2, <2>3
  <2> QED BY <2>4, <2>5 DEF NoLocals
<1>5. TypeOK'
  BY <1>2, <1>4 DEF IInv, TypeOK, GetPcs
<1>6. Apart(d, n)'
  <2> SUFFICES ASSUME NEW r \in ready, NEW j \in Span(r[2], r[3]), j \in Span(d, n)
               PROVE  FALSE
    BY <1>2 DEF Apart
  <2>1. r[2] \in Nat /\ r[3] \in Nat /\ r[2] + r[3] <= last + 1 /\ segs[j].used
    BY DEF IInv, Lasting
  <2>2. d = last + 1
    BY <1>3, <1>c, <2>1
  <2> QED BY <1>0, <2>1, <2>2 DEF Span
<1>7. Entry(p)' = d
  BY <1>4 DEF Entry
<1>8. GetInv(p)'
  <2>0. a <=> fit = -1
    BY <1>c
  <2>1. a => last' = d - 1
    BY <1>0, <1>2, <1>3, <1>c, <2>0
  <2>2. ~a => d + n <= last' + 1
    BY <1>0, <1>2, <1>3, <1>c, <2>0
  <2>3. d + n <= SHMMAXSEG
    BY <1>2, <1>c
  <2>4. \A j \in Span(d, n) : ~(j < d)
    BY <1>0 DEF Span
  <2> QED BY <1>0, <1>2, <1>4, <1>6, <1>7, <2>1, <2>2, <2>3, <2>4 DEF GetInv
<1>9. RmInv(p)'
  BY <1>2 DEF RmInv, RmPcs
<1>10. WorkInv(p)' /\ AtInv(p)' /\ DtInv(p)' /\ Work(p)' = {} /\ Work(p) = {}
  BY <1>2, NotAttaching DEF AtPcs, DtPcs, Work
<1>11. MapInv(p)'
  BY <1>2, <1>10, MapKeep
<1>12. ProcInv(p)'
  BY <1>8, <1>9, <1>10, <1>11 DEF ProcInv
<1> QED BY <1>2, <1>5, <1>12, Quiet DEF IInv, TypeOK, Locked

LEMMA GetPageStep ==
    ASSUME IInv, OneCreator, NEW p \in Procs, GetPage(p)
    PROVE  IInv'
<1>1. PICK e, n, id, i, a : /\ e = Entry(p) /\ n = loc[p].n /\ id = loc[p].id
                            /\ i = loc[p].i /\ a = loc[p].append
  OBVIOUS
<1>2. /\ n \in Nat /\ id \in Nat /\ i \in Nat /\ a \in BOOLEAN /\ e = id + i
      /\ SHMMAXSEG \in Nat /\ last \in -1 .. SHMMAXSEG - 1
  BY <1>1, RaceAssumption, LocalTypes DEF IInv, TypeOK, Entry
<1>3. pc[p] = "get_page" /\ i < n
  BY <1>1 DEF GetPage, At
<1>4. /\ p \in Creators /\ id + n <= SHMMAXSEG /\ Apart(id, n)
      /\ a => last = e - 1
      /\ ~a => id + n <= last + 1
      /\ \A j \in Span(id, n) : j < e => segs[j].used /\ segs[j].size = n
  BY <1>1, <1>3 DEF IInv, ProcInv, GetInv, GetPcs
<1>5. e \in Span(id, n) /\ e \in Ids /\ Span(id, n) \subseteq Ids
  BY <1>2, <1>3, <1>4 DEF Span, Ids
<1>6. PICK f \in Frames :
          /\ onList[f] > 0
          /\ onList' = [onList EXCEPT ![f] = @ - 1]
          /\ segs' = [segs EXCEPT ![e] = [used |-> TRUE, size |-> n, nattch |-> 0, pa |-> f]]
  BY <1>1 DEF GetPage
<1>7. UNCHANGED <<last, lock, att, maps, ready, failed, fault>>
  BY DEF GetPage
<1>8. onList[f] = 1 /\ onList'[f] = 0 /\ onList' \in [Frames -> {0, 1}]
      /\ \A h \in Frames : h # f => onList'[h] = onList[h]
  BY <1>6 DEF IInv, TypeOK
<1>9. /\ segs'[e] = [used |-> TRUE, size |-> n, nattch |-> 0, pa |-> f]
      /\ \A j \in Ids : j # e => segs'[j] = segs[j]
      /\ segs' \in [Ids -> Seg]
  <2>1. [used |-> TRUE, size |-> n, nattch |-> 0, pa |-> f] \in Seg
    BY <1>2 DEF Seg
  <2> QED BY <1>5, <1>6, <2>1 DEF IInv, TypeOK
<1>10. /\ a => pc' = [pc EXCEPT ![p] = "get_load"] /\ loc' = loc
       /\ ~a => pc' = pc /\ loc' = [loc EXCEPT ![p].i = @ + 1]
  BY <1>1, <1>2 DEF GetPage, Goto, Step
<1>11. /\ pc \in [Procs -> {"user"} \cup GetPcs \cup AtPcs \cup DtPcs \cup RmPcs]
       /\ loc \in [Procs -> Locals]
  BY DEF IInv, TypeOK
<1>12. /\ pc' \in [Procs -> {"user"} \cup GetPcs \cup AtPcs \cup DtPcs \cup RmPcs]
       /\ loc' \in [Procs -> Locals]
       /\ \A q \in Procs : q # p => pc'[q] = pc[q] /\ loc'[q] = loc[q]
       /\ loc'[p].id = id /\ loc'[p].n = n /\ loc'[p].append = a
       /\ pc'[p] = IF a THEN "get_load" ELSE "get_page"
       /\ loc'[p].i = IF a THEN i ELSE i + 1
  <2>1. CASE a
    BY <1>1, <1>3, <1>10, <1>11, <2>1 DEF GetPcs
  <2>2. CASE ~a
    <3>1. loc'[p] = [loc[p] EXCEPT !.i = @ + 1] /\ loc[p] \in Locals
      BY <1>10, <1>11, <2>2
    <3>2. loc'[p] \in Locals /\ loc'[p].i = loc[p].i + 1
      BY <3>1 DEF Locals
    <3>3. loc' \in [Procs -> Locals] /\ \A q \in Procs : q # p => loc'[q] = loc[q]
      BY <1>10, <1>11, <2>2, <3>1, <3>2
    <3> QED BY <1>1, <1>3, <1>10, <1>11, <2>2, <3>1, <3>2, <3>3 DEF Locals
  <2> QED BY <1>2, <2>1, <2>2
<1>13. TypeOK'
  BY <1>7, <1>8, <1>9, <1>12 DEF IInv, TypeOK
<1>14. \A r \in ready : e \notin Span(r[2], r[3])
  BY <1>4, <1>5 DEF Apart
<1>15. (\A r \in ready : Lasting(r))'
  <2> SUFFICES ASSUME NEW r \in ready PROVE Lasting(r)'
    BY <1>7
  <2>1. Lasting(r) /\ Span(r[2], r[3]) \subseteq Ids
    BY LastingIds DEF IInv
  <2> QED BY <1>7, <1>9, <1>14, <2>1 DEF Lasting
<1>16. SegmentsDisjoint'
  BY <1>7 DEF IInv, SegmentsDisjoint
<1>17. FramesHeld'
  <2>1. \A j \in Ids : segs[j].used => segs[j].pa \in Frames /\ segs[j].pa # f
    BY <1>8 DEF IInv, FramesHeld
  <2>2. ASSUME NEW j \in Ids, segs'[j].used
        PROVE  segs'[j].pa \in Frames /\ onList'[segs'[j].pa] = 0
    BY <1>8, <1>9, <2>1, <2>2 DEF IInv, FramesHeld
  <2>3. ASSUME NEW j \in Ids, NEW k \in Ids, segs'[j].used, segs'[k].used,
               segs'[k].pa = segs'[j].pa
        PROVE  k = j
    BY <1>9, <2>1, <2>3 DEF IInv, FramesHeld
  <2> QED BY <2>2, <2>3 DEF FramesHeld, Ids
<1>18. Apart(id, n)'
  BY <1>4, <1>7 DEF Apart
<1>19. GetInv(p)'
  <2>1. CASE a
    <3>1. Entry(p)' = e /\ last' = last /\ pc'[p] = "get_load" /\ loc'[p].i = i
      BY <1>2, <1>7, <1>12, <2>1 DEF Entry
    <3>2. \A j \in Span(id, n) : j < e \/ j = e => segs'[j].used /\ segs'[j].size = n
      BY <1>4, <1>5, <1>9
    <3> QED BY <1>2, <1>3, <1>4, <1>12, <1>18, <2>1, <3>1, <3>2 DEF GetInv
  <2>2. CASE ~a
    <3>1. Entry(p)' = e + 1 /\ last' = last /\ pc'[p] = "get_page" /\ loc'[p].i = i + 1
      BY <1>2, <1>7, <1>12, <2>2 DEF Entry
    <3>2. \A j \in Span(id, n) : j < e + 1 => j < e \/ j = e
      BY <1>2 DEF Span
    <3>3. \A j \in Span(id, n) : j < e + 1 => segs'[j].used /\ segs'[j].size = n
      BY <1>4, <1>5, <1>9, <3>2
    <3> QED BY <1>2, <1>3, <1>4, <1>12, <1>18, <2>2, <3>1, <3>3 DEF GetInv
  <2> QED BY <2>1, <2>2
<1>20. pc'[p] \in GetPcs
  BY <1>12 DEF GetPcs
<1>21. RmInv(p)'
  BY <1>20 DEF RmInv, RmPcs, GetPcs
<1>22. \A q \in Procs, s \in Ids : maps[q][s] # e
  BY <1>2, <1>4, <1>5, ApartUnmapped
<1>23. segs'[e].nattch = 0
  BY <1>9
<1> QED BY <1>3, <1>4, <1>7, <1>9, <1>12, <1>13, <1>14, <1>15, <1>16, <1>17, <1>19,
           <1>20, <1>21, <1>22, <1>23, Creating DEF GetPcs, AtPcs, DtPcs

LEMMA GetLoadStep ==
    ASSUME IInv, NEW p \in Procs, GetLoad(p)
    PROVE  IInv'
<1>1. /\ pc[p] = "get_load" /\ pc' = [pc EXCEPT ![p] = "get_store"]
      /\ loc' = [loc EXCEPT ![p].tmp = last]
      /\ UNCHANGED <<segs, last, lock, onList, att, maps, ready, failed, fault>>
  BY DEF GetLoad, At, Goto
<1>2. last \in Int
  BY RaceAssumption DEF IInv, TypeOK
<1>3. /\ pc' \in [Procs -> Pcs] /\ pc'[p] = "get_store"
      /\ \A q \in Procs : q # p => pc'[q] = pc[q]
  <2>1. "get_store" \in Pcs
    BY DEF Pcs, GetPcs
  <2> QED BY <1>1, <2>1, Goes
<1>4. /\ loc' \in [Procs -> Locals]
      /\ loc'[p].id = loc[p].id /\ loc'[p].n = loc[p].n /\ loc'[p].i = loc[p].i
      /\ loc'[p].append = loc[p].append /\ loc'[p].tmp = last /\ Entry(p)' = Entry(p)
      /\ \A q \in Procs : q # p => loc'[q] = loc[q]
  <2>1. PICK v \in Int : v = last
    BY <1>2
  <2> QED BY <1>1, <2>1, LoadLocals
<1>5. TypeOK'
  BY <1>1, <1>3, <1>4 DEF IInv, TypeOK, Pcs
<1>6. GetInv(p) /\ Apart(loc[p].id, loc[p].n)
  BY <1>1 DEF IInv, ProcInv, GetInv, GetPcs
<1>7. Apart(loc[p].id, loc[p].n)'
  BY <1>1, <1>4, <1>6 DEF Apart
<1>8. GetInv(p)'
  BY <1>1, <1>3, <1>4, <1>6, <1>7 DEF GetInv, GetPcs
<1>9. RmInv(p)'
  BY <1>3 DEF RmInv, RmPcs
<1>10. WorkInv(p)' /\ AtInv(p)' /\ DtInv(p)' /\ Work(p)' = {} /\ Work(p) = {}
  BY <1>1, <1>3, NotAttaching DEF AtPcs, DtPcs, Work
<1>11. MapInv(p)'
  BY <1>1, <1>10, MapKeep
<1>12. ProcInv(p)'
  BY <1>8, <1>9, <1>10, <1>11 DEF ProcInv
<1> QED BY <1>1, <1>3, <1>4, <1>5, <1>12, Quiet DEF Locked

LEMMA GetStoreStep ==
    ASSUME IInv, OneCreator, NEW p \in Procs, GetStore(p)
    PROVE  IInv'
<1>1. /\ pc[p] = "get_store" /\ pc' = [pc EXCEPT ![p] = "get_page"]
      /\ last' = loc[p].tmp + 1 /\ Step(p)
      /\ UNCHANGED <<segs, lock, onList, att, maps, ready, failed, fault>>
  BY DEF GetStore, At, Goto
<1>2. /\ SHMMAXSEG \in Nat /\ last \in -1 .. SHMMAXSEG - 1
      /\ loc[p].id \in Nat /\ loc[p].n \in Nat /\ loc[p].i \in Nat
      /\ loc[p].append \in BOOLEAN
  BY RaceAssumption, LocalTypes DEF IInv, TypeOK
<1>3. /\ pc' \in [Procs -> Pcs] /\ pc'[p] = "get_page"
      /\ \A q \in Procs : q # p => pc'[q] = pc[q]
  <2>1. "get_page" \in Pcs
    BY DEF Pcs, GetPcs
  <2> QED BY <1>1, <2>1, Goes
<1>4. /\ loc' \in [Procs -> Locals]
      /\ loc'[p].id = loc[p].id /\ loc'[p].n = loc[p].n /\ loc'[p].i = loc[p].i + 1
      /\ loc'[p].append = loc[p].append /\ Entry(p)' = Entry(p) + 1
      /\ \A q \in Procs : q # p => loc'[q] = loc[q]
  BY <1>1, StepLocals
<1>5. /\ p \in Creators /\ loc[p].append /\ loc[p].i < loc[p].n
      /\ last = Entry(p) - 1 /\ loc[p].tmp = last
      /\ loc[p].n > 0 /\ loc[p].id + loc[p].n <= SHMMAXSEG
      /\ Apart(loc[p].id, loc[p].n)
      /\ \A j \in Span(loc[p].id, loc[p].n) :
            j < Entry(p) \/ j = Entry(p) => segs[j].used /\ segs[j].size = loc[p].n
  BY <1>1 DEF IInv, ProcInv, GetInv, GetPcs
<1>6. last' = Entry(p) /\ Entry(p) = loc[p].id + loc[p].i /\ last' = last + 1
  BY <1>1, <1>2, <1>5 DEF Entry
<1>7. last' \in -1 .. SHMMAXSEG - 1
  BY <1>2, <1>5, <1>6
<1>8. TypeOK'
  BY <1>1, <1>3, <1>4, <1>7 DEF IInv, TypeOK, Pcs
<1>9. (\A r \in ready : Lasting(r))'
  BY <1>1, <1>2, <1>6 DEF IInv, Lasting
<1>10. SegmentsDisjoint' /\ FramesHeld'
  BY <1>1 DEF IInv, SegmentsDisjoint, FramesHeld
<1>11. Apart(loc[p].id, loc[p].n)'
  BY <1>1, <1>4, <1>5 DEF Apart
<1>12. GetInv(p)'
  <2>1. \A j \in Span(loc[p].id, loc[p].n) : j < Entry(p) + 1 => j < Entry(p) \/ j = Entry(p)
    BY <1>2, <1>6 DEF Span
  <2>2. last' = Entry(p)' - 1
    BY <1>2, <1>4, <1>6
  <2> QED BY <1>1, <1>2, <1>3, <1>4, <1>5, <1>11, <2>1, <2>2 DEF GetInv, GetPcs
<1>13. RmInv(p)'
  BY <1>3 DEF RmInv, RmPcs
<1> QED BY <1>1, <1>3, <1>4, <1>5, <1>8, <1>9, <1>10, <1>12, <1>13, Creating
        DEF AtPcs, DtPcs

LEMMA GetReturnStep ==
    ASSUME IInv, OneCreator, NEW p \in Procs, GetReturn(p)
    PROVE  IInv'
<1>1. PICK id, n : id = loc[p].id /\ n = loc[p].n
  OBVIOUS
<1>2. /\ pc[p] = "get_page" /\ pc' = [pc EXCEPT ![p] = "user"] /\ loc[p].i = n
      /\ loc' = [loc EXCEPT ![p] = NoLocals]
      /\ ready' = ready \cup {<<p, id, n>>}
      /\ UNCHANGED <<segs, last, lock, onList, att, maps, failed, fault>>
  BY <1>1 DEF GetReturn, At, Return
<1>3. /\ SHMMAXSEG \in Nat /\ last \in -1 .. SHMMAXSEG - 1
      /\ id \in Nat /\ n \in Nat /\ loc[p].append \in BOOLEAN /\ Entry(p) = id + n
  BY <1>1, <1>2, RaceAssumption, LocalTypes DEF IInv, TypeOK, Entry
<1>4. /\ pc' \in [Procs -> Pcs] /\ pc'[p] = "user"
      /\ \A q \in Procs : q # p => pc'[q] = pc[q]
  <2>1. "user" \in Pcs
    BY DEF Pcs
  <2> QED BY <1>2, <2>1, Goes
<1>5. loc' \in [Procs -> Locals] /\ \A q \in Procs : q # p => loc'[q] = loc[q]
  BY <1>2, NewLocals, NoLocalsType
<1>6. /\ p \in Creators /\ n > 0 /\ Apart(id, n)
      /\ loc[p].append => last = id + n - 1
      /\ ~loc[p].append => id + n <= last + 1
      /\ \A j \in Span(id, n) : j < id + n => segs[j].used /\ segs[j].size = n
  BY <1>1, <1>2, <1>3 DEF IInv, ProcInv, GetInv, GetPcs
<1>7. id + n <= last + 1
  BY <1>3, <1>6
<1>8. TypeOK'
  BY <1>2, <1>4, <1>5 DEF IInv, TypeOK, Pcs
<1> DEFINE w == <<p, id, n>>
<1>9. w[1] = p /\ w[2] = id /\ w[3] = n
  OBVIOUS
<1>10. ready' = ready \cup {w}
  BY <1>2
<1> HIDE DEF w
<1>11. (\A r \in ready : Lasting(r))'
  <2>1. ASSUME NEW r \in ready PROVE Lasting(r)'
    BY <1>2 DEF IInv, Lasting
  <2>2. Lasting(w)'
    <3>1. \A j \in Span(id, n) : j < id + n
      BY <1>3 DEF Span
    <3> QED BY <1>2, <1>3, <1>6, <1>7, <1>9, <3>1 DEF Lasting
  <2> QED BY <1>10, <2>1, <2>2
<1>12. SegmentsDisjoint'
  <2>1. \A r \in ready : Span(r[2], r[3]) \cap Span(w[2], w[3]) = {}
    BY <1>6, <1>9 DEF Apart
  <2> QED BY <1>10, <2>1 DEF IInv, SegmentsDisjoint
<1>13. FramesHeld'
  BY <1>2 DEF IInv, FramesHeld
<1>14. GetInv(p)' /\ RmInv(p)'
  BY <1>4 DEF GetInv, RmInv, GetPcs, RmPcs
<1> QED BY <1>2, <1>4, <1>5, <1>6, <1>8, <1>10, <1>11, <1>12, <1>13, <1>14, Creating
        DEF AtPcs, DtPcs

----------------------------------------------------------------------------
(* removeshm *)

\* The count of the first entry tells whether anybody has the segment.
LEMMA UncountedUnmapped ==
    ASSUME IInv, NEW p \in Procs, pc[p] = "user", NEW r \in ready, r[1] = p,
           segs[r[2]].nattch = 0,
           NEW q \in Procs, NEW s \in Ids
    PROVE  maps[q][s] \notin Span(r[2], r[3])
<1> SUFFICES ASSUME maps[q][s] \in Span(r[2], r[3]) PROVE FALSE
  OBVIOUS
<1>1. /\ r[2] \in Nat /\ r[3] \in Nat \ {0} /\ Span(r[2], r[3]) \subseteq Ids
      /\ r[2] \in Span(r[2], r[3]) /\ p # NoProc /\ SHMMAXSEG \in Nat
  BY LastingIds, RaceAssumption
<1>2. maps[q][s] # -1
  BY <1>1 DEF Span
<1>3. q = p
  <2>1. PICK t \in ready : Theirs(q, t) /\ maps[q][s] \in Span(t[2], t[3])
    BY <1>2, MappedLasts
  <2>2. t = r
    BY <2>1, SameSegment DEF IInv
  <2> QED BY <1>1, <2>1, <2>2 DEF Theirs
<1>4. Work(p) = {}
  BY DEF Work, AtPcs, DtPcs
<1>5. PICK t \in ready, b \in Ids :
          Theirs(p, t) /\ s \in Span(b, t[3]) /\ Block(p, b, t)
  BY <1>2, <1>3, <1>4 DEF IInv, ProcInv, MapInv
<1>6. t[2] \in Nat /\ t[3] \in Nat \ {0} /\ b \in Nat
  BY LastingIds DEF Ids
<1>7. maps[p][s] \in Span(t[2], t[3])
  <2> DEFINE k == s - b
  <2>1. k \in 0 .. t[3] - 1 /\ s = b + k
    BY <1>5, <1>6 DEF Span, Ids
  <2>2. maps[p][s] = t[2] + k
    BY <1>5, <2>1 DEF Block
  <2> QED BY <1>6, <2>1, <2>2 DEF Span
<1>8. t = r
  BY <1>3, <1>7, SameSegment DEF IInv
<1>9. maps[p][b] = r[2]
  <2>1. 0 \in 0 .. t[3] - 1 /\ b + 0 = b /\ t[2] + 0 = t[2]
    BY <1>6
  <2> QED BY <1>5, <1>8, <2>1 DEF Block
<1>10. r[2] \in Ids /\ <<p, b>> \in Mappings(r[2])
  BY <1>1, <1>9 DEF Mappings
<1>11. Late(r[2]) = 0
  <2> SUFFICES ASSUME lock # NoProc, pc[lock] \in Midway, Entry(lock) = r[2] PROVE FALSE
    BY DEF Late, Midway
  <2>1. lock \in Procs /\ lock # p
    BY DEF IInv, TypeOK, Midway
  <2>2. PICK u \in ready : Theirs(lock, u) /\ u[2] = loc[lock].id /\ u[3] = loc[lock].n
    BY <2>1 DEF IInv, ProcInv, WorkInv, AtPcs, DtPcs, Midway
  <2>3. /\ loc[lock].i < loc[lock].n /\ loc[lock].i \in Nat
        /\ loc[lock].n \in Nat /\ loc[lock].id \in Nat
    BY <2>1, LocalTypes DEF IInv, ProcInv, WorkInv, AtPcs, DtPcs, Midway
  <2>4. r[2] \in Span(u[2], u[3])
    BY <2>2, <2>3 DEF Entry, Span
  <2>5. u = r
    BY <1>1, <2>4, SameSegment DEF IInv
  <2> QED BY <1>1, <2>1, <2>2, <2>5 DEF Theirs
<1>12. IsFiniteSet(Mappings(r[2])) /\ Cardinality(Mappings(r[2])) = 0
  <2>1. IsFiniteSet(Mappings(r[2])) /\ segs[r[2]].nattch = Cardinality(Mappings(r[2])) - Late(r[2])
    BY <1>10 DEF IInv, Counted
  <2>2. Cardinality(Mappings(r[2])) \in Nat
    BY <2>1, FS_CardinalityType
  <2> QED BY <1>11, <2>1, <2>2
<1> QED BY <1>10, <1>12, FS_EmptySet

LEMMA RmTestStep ==
    ASSUME IInv, Private = TRUE, NEW p \in Procs, NEW id \in Ids, RmTest(p, id)
    PROVE  IInv'
<1>1. PICK r \in ready : r[2] = id /\ r[1] = p
  BY DEF RmTest
<1>2. /\ r[2] \in Nat /\ r[3] \in Nat \ {0} /\ r[2] + r[3] <= last + 1
      /\ \A j \in Span(r[2], r[3]) : segs[j].used /\ segs[j].size = r[3]
      /\ r[1] \in Creators \cup {NoProc} /\ p # NoProc
  BY RaceAssumption DEF IInv, Lasting
<1>3. PICK n : n = r[3]
  OBVIOUS
<1>4. segs[id].size = n
  BY <1>1, <1>2, <1>3, LastingIds
<1>5. /\ pc[p] = "user" /\ pc' = [pc EXCEPT ![p] = "rm_free"] /\ segs[id].nattch = 0
      /\ loc' = [loc EXCEPT ![p] = [NoLocals EXCEPT !.id = id, !.n = n]]
      /\ UNCHANGED <<segs, last, lock, onList, att, maps, ready, failed, fault>>
  BY <1>4 DEF RmTest, Enter
<1>6. /\ pc' \in [Procs -> Pcs] /\ pc'[p] = "rm_free"
      /\ \A q \in Procs : q # p => pc'[q] = pc[q]
  <2>1. "rm_free" \in Pcs
    BY DEF Pcs, RmPcs
  <2> QED BY <1>5, <2>1, Goes
<1>7. /\ loc' \in [Procs -> Locals] /\ loc'[p].id = id /\ loc'[p].n = n /\ loc'[p].i = 0
      /\ \A q \in Procs : q # p => loc'[q] = loc[q]
  <2> DEFINE l == [NoLocals EXCEPT !.id = id, !.n = n]
  <2>1. l \in Locals /\ l.id = id /\ l.n = n /\ l.i = 0
    BY <1>1, <1>2, <1>3, NoLocalsType DEF Locals, NoLocals
  <2> HIDE DEF l
  <2>2. loc' = [loc EXCEPT ![p] = l]
    BY <1>5 DEF l
  <2> QED BY <2>1, <2>2, NewLocals
<1>8. TypeOK'
  BY <1>5, <1>6, <1>7 DEF IInv, TypeOK, Pcs
<1>9. RmInv(p)'
  <2>1. \A q \in Procs, s \in Ids : maps[q][s] \notin Span(id, n)
    BY <1>1, <1>3, <1>5, UncountedUnmapped
  <2>2. \A j \in Span(id, n) : segs[j].used
    BY <1>1, <1>2, <1>3
  <2>3. p \in Creators /\ n > 0 /\ id + n <= last + 1
    BY <1>1, <1>2, <1>3
  <2> QED BY <1>1, <1>2, <1>3, <1>5, <1>6, <1>7, <2>1, <2>2, <2>3 DEF RmInv
<1>10. GetInv(p)'
  BY <1>6 DEF GetInv, GetPcs
<1>11. WorkInv(p)' /\ AtInv(p)' /\ DtInv(p)' /\ Work(p)' = {} /\ Work(p) = {}
  BY <1>5, <1>6, NotAttaching DEF AtPcs, DtPcs, Work
<1>12. MapInv(p)'
  BY <1>5, <1>11, MapKeep
<1>13. ProcInv(p)'
  BY <1>9, <1>10, <1>11, <1>12 DEF ProcInv
<1> QED BY <1>5, <1>6, <1>7, <1>8, <1>13, Quiet DEF Locked

LEMMA RmFreeStep ==
    ASSUME IInv, OneCreator, NEW p \in Procs, RmFree(p)
    PROVE  IInv'
<1>1. PICK e, n, id, i, f : /\ e = Entry(p) /\ n = loc[p].n /\ id = loc[p].id
                            /\ i = loc[p].i /\ f = segs[e].pa
  OBVIOUS
<1>2. /\ n \in Nat /\ id \in Nat /\ i \in Nat /\ e = id + i
      /\ SHMMAXSEG \in Nat /\ last \in -1 .. SHMMAXSEG - 1 /\ NoFrame \notin Frames
  BY <1>1, RaceAssumption, LocalTypes DEF IInv, TypeOK, Entry
<1>3. pc[p] = "rm_free" /\ i < n
  BY <1>1 DEF RmFree, At
<1>4. /\ p \in Creators /\ id + n <= last + 1
      /\ \A j \in Span(id, n) :
            /\ \A q \in Procs, s \in Ids : maps[q][s] # j
            /\ j > e \/ j = e => segs[j].used
      /\ i = 0 => \E r \in ready : r[1] = p /\ r[2] = id /\ r[3] = n
      /\ i # 0 => Apart(id, n)
  BY <1>1, <1>3 DEF IInv, ProcInv, RmInv, RmPcs
<1>5. e \in Span(id, n) /\ e \in Ids /\ Span(id, n) \subseteq Ids /\ id \in Span(id, n)
  BY <1>2, <1>3, <1>4 DEF Span, Ids
<1>6. segs[e].used /\ f \in Frames /\ f # NoFrame /\ onList[f] = 0
  BY <1>1, <1>2, <1>4, <1>5 DEF IInv, FramesHeld
<1>7. /\ segs' = [segs EXCEPT ![e] = [FreeSeg EXCEPT !.pa = f]]
      /\ onList' = [onList EXCEPT ![f] = @ + 1] /\ fault' = fault /\ failed' = failed
      /\ ready' = IF i = 0 THEN {r \in ready : r[2] # id} ELSE ready
      /\ pc' = [pc EXCEPT ![p] = "rm_pa"]
      /\ UNCHANGED <<last, lock, att, maps, loc>>
  BY <1>1, <1>6 DEF RmFree, Goto
<1>8. onList' \in [Frames -> {0, 1}] /\ \A h \in Frames : h # f => onList'[h] = onList[h]
  BY <1>6, <1>7 DEF IInv, TypeOK
<1>9. /\ segs'[e].used = FALSE /\ segs'[e].nattch = 0
      /\ \A j \in Ids : j # e => segs'[j] = segs[j]
      /\ segs' \in [Ids -> Seg]
  <2> DEFINE g == [FreeSeg EXCEPT !.pa = f]
  <2>1. g \in Seg /\ g.used = FALSE /\ g.nattch = 0
    <3>1. FreeSeg \in Seg /\ FreeSeg.used = FALSE /\ FreeSeg.nattch = 0
      BY DEF FreeSeg, Seg
    <3>2. g \in Seg /\ g.used = FreeSeg.used /\ g.nattch = FreeSeg.nattch
      BY <1>6, <3>1 DEF Seg
    <3> QED BY <3>1, <3>2
  <2>2. segs' = [segs EXCEPT ![e] = g]
    BY <1>7
  <2> HIDE DEF g
  <2> QED BY <1>5, <2>1, <2>2 DEF IInv, TypeOK
<1>10. /\ pc' \in [Procs -> Pcs] /\ pc'[p] = "rm_pa"
       /\ \A q \in Procs : q # p => pc'[q] = pc[q]
  <2>1. "rm_pa" \in Pcs
    BY DEF Pcs, RmPcs
  <2> QED BY <1>7, <2>1, Goes
<1>11. TypeOK'
  BY <1>7, <1>8, <1>9, <1>10 DEF IInv, TypeOK, Pcs
<1>12. ready' \subseteq ready
  BY <1>7
<1>13. ASSUME NEW r \in ready' PROVE Span(r[2], r[3]) \cap Span(id, n) = {}
  <2>1. CASE i = 0
    <3>1. PICK w \in ready : w[1] = p /\ w[2] = id /\ w[3] = n
      BY <1>4, <2>1
    <3>2. r \in ready /\ r[2] # id
      BY <1>7, <2>1
    <3>3. r # w
      BY <3>1, <3>2
    <3> QED BY <3>1, <3>2, <3>3 DEF IInv, SegmentsDisjoint
  <2>2. CASE i # 0
    BY <1>4, <1>12, <2>2 DEF Apart
  <2> QED BY <2>1, <2>2
<1>14. ASSUME NEW r \in ready, r \notin ready'
       PROVE  r[1] = p /\ \A q \in Procs, s \in Ids : maps[q][s] \notin Span(r[2], r[3])
  <2>1. i = 0 /\ r[2] = id
    BY <1>7, <1>14
  <2>2. PICK w \in ready : w[1] = p /\ w[2] = id /\ w[3] = n
    BY <1>4, <2>1
  <2>3. id \in Span(r[2], r[3]) /\ id \in Span(w[2], w[3])
    BY <2>1, <2>2, LastingIds
  <2>4. r = w
    BY <2>3, SameSegment DEF IInv
  <2> QED BY <1>4, <2>2, <2>4
<1>15. (\A r \in ready : Lasting(r))'
  <2> SUFFICES ASSUME NEW r \in ready' PROVE Lasting(r)'
    OBVIOUS
  <2>1. r \in ready /\ Lasting(r) /\ Span(r[2], r[3]) \subseteq Ids
    BY <1>12, LastingIds DEF IInv
  <2>2. e \notin Span(r[2], r[3])
    BY <1>5, <1>13
  <2> QED BY <1>7, <1>9, <2>1, <2>2 DEF Lasting
<1>16. SegmentsDisjoint'
  BY <1>12 DEF IInv, SegmentsDisjoint
<1>17. FramesHeld'
  <2>1. \A j \in Ids : j # e /\ segs[j].used => segs[j].pa # f
    BY <1>1, <1>5, <1>6 DEF IInv, FramesHeld
  <2>2. ASSUME NEW j \in Ids, segs'[j].used
        PROVE  segs'[j].pa \in Frames /\ onList'[segs'[j].pa] = 0
    BY <1>8, <1>9, <2>1, <2>2 DEF IInv, FramesHeld
  <2>3. ASSUME NEW j \in Ids, NEW k \in Ids, segs'[j].used, segs'[k].used,
               segs'[k].pa = segs'[j].pa
        PROVE  k = j
    BY <1>9, <2>1, <2>3 DEF IInv, FramesHeld
  <2> QED BY <2>2, <2>3 DEF FramesHeld, Ids
<1>18. GetInv(p)'
  BY <1>10 DEF GetInv, GetPcs
<1>19. RmInv(p)'
  <2>1. /\ loc'[p].id = id /\ loc'[p].n = n /\ loc'[p].i = i /\ Entry(p)' = e
        /\ last' = last /\ maps' = maps
    BY <1>1, <1>7 DEF Entry
  <2>2. \A j \in Span(id, n) : j > e => segs'[j].used
    BY <1>2, <1>4, <1>5, <1>9
  <2>3. Apart(id, n)'
    BY <1>13 DEF Apart
  <2>4. n > 0 /\ i <= n
    BY <1>2, <1>3
  <2> QED BY <1>3, <1>4, <1>9, <1>10, <2>1, <2>2, <2>3, <2>4 DEF RmInv
<1>20. \A r \in ready : r[1] # p => e \notin Span(r[2], r[3])
  BY <1>5, <1>13, <1>14
<1>21. \A j \in Ids : \/ segs'[j].nattch = segs[j].nattch
                      \/ /\ segs'[j].nattch = 0
                         /\ \A q \in Procs, s \in Ids : maps[q][s] # j
                         /\ \A r \in ready : r[1] # p => j \notin Span(r[2], r[3])
  BY <1>4, <1>5, <1>9, <1>20
<1> QED BY <1>3, <1>4, <1>7, <1>10, <1>11, <1>14, <1>15, <1>16, <1>17, <1>18, <1>19,
           <1>21, Creating DEF AtPcs, DtPcs

LEMMA RmPaStep ==
    ASSUME IInv, OneCreator, NEW p \in Procs, RmPa(p)
    PROVE  IInv'
<1>1. PICK e, n, id, i : /\ e = Entry(p) /\ n = loc[p].n /\ id = loc[p].id
                         /\ i = loc[p].i
  OBVIOUS
<1>2. /\ n \in Nat /\ id \in Nat /\ i \in Nat /\ e = id + i
      /\ SHMMAXSEG \in Nat /\ last \in -1 .. SHMMAXSEG - 1
  BY <1>1, RaceAssumption, LocalTypes DEF IInv, TypeOK, Entry
<1>3. /\ pc[p] = "rm_pa" /\ pc' = [pc EXCEPT ![p] = "rm_free"] /\ Step(p)
      /\ segs' = [segs EXCEPT ![e].pa = NoFrame]
      /\ UNCHANGED <<last, lock, onList, att, maps, ready, failed, fault>>
  BY <1>1 DEF RmPa, At, Goto
<1>4. /\ p \in Creators /\ id + n <= last + 1 /\ i < n /\ Apart(id, n)
      /\ \A j \in Span(id, n) :
            /\ \A q \in Procs, s \in Ids : maps[q][s] # j
            /\ j > e => segs[j].used
  BY <1>1, <1>3 DEF IInv, ProcInv, RmInv, RmPcs
<1>5. e \in Span(id, n) /\ e \in Ids /\ Span(id, n) \subseteq Ids
  BY <1>2, <1>4 DEF Span, Ids
<1>6. /\ segs'[e].used = segs[e].used /\ segs'[e].size = segs[e].size
      /\ segs'[e].nattch = segs[e].nattch /\ segs'[e].pa = NoFrame
      /\ \A j \in Ids : j # e => segs'[j] = segs[j]
      /\ segs' \in [Ids -> Seg]
  <2>1. segs[e] \in Seg /\ segs \in [Ids -> Seg]
    BY <1>5 DEF IInv, TypeOK
  <2>2. segs'[e] = [segs[e] EXCEPT !.pa = NoFrame] /\ segs' = [segs EXCEPT ![e] = segs'[e]]
    BY <1>3, <1>5, <2>1
  <2>3. segs'[e] \in Seg
    BY <2>1, <2>2 DEF Seg
  <2>4. segs' \in [Ids -> Seg] /\ \A j \in Ids : j # e => segs'[j] = segs[j]
    BY <2>1, <2>2, <2>3
  <2> QED BY <2>1, <2>2, <2>4 DEF Seg
<1>7. /\ pc' \in [Procs -> Pcs] /\ pc'[p] = "rm_free"
      /\ \A q \in Procs : q # p => pc'[q] = pc[q]
  <2>1. "rm_free" \in Pcs
    BY DEF Pcs, RmPcs
  <2> QED BY <1>3, <2>1, Goes
<1>8. /\ loc' \in [Procs -> Locals] /\ loc'[p].id = id /\ loc'[p].n = n
      /\ loc'[p].i = i + 1 /\ Entry(p)' = e + 1
      /\ \A q \in Procs : q # p => loc'[q] = loc[q]
  BY <1>1, <1>3, StepLocals
<1>9. TypeOK'
  BY <1>3, <1>6, <1>7, <1>8 DEF IInv, TypeOK, Pcs
<1>10. (\A r \in ready : Lasting(r))'
  <2> SUFFICES ASSUME NEW r \in ready PROVE Lasting(r)'
    BY <1>3
  <2>1. Lasting(r) /\ Span(r[2], r[3]) \subseteq Ids
    BY LastingIds DEF IInv
  <2> QED BY <1>3, <1>6, <2>1 DEF Lasting
<1>11. SegmentsDisjoint'
  BY <1>3 DEF IInv, SegmentsDisjoint
<1>12. ~segs[e].used
  BY <1>1, <1>3, <1>5 DEF IInv, ProcInv, RmInv, RmPcs
<1>13. FramesHeld'
  BY <1>3, <1>6, <1>12 DEF IInv, FramesHeld
<1>14. GetInv(p)'
  BY <1>7 DEF GetInv, GetPcs
<1>15. RmInv(p)'
  <2>1. Apart(id, n)'
    BY <1>3, <1>4 DEF Apart
  <2>2. \A j \in Span(id, n) : j > e + 1 \/ j = e + 1 => j > e /\ j # e
    BY <1>2 DEF Span
  <2>3. n > 0 /\ i + 1 <= n /\ i + 1 # 0
    BY <1>2, <1>4
  <2>4. \A j \in Span(id, n) : j > e + 1 \/ j = e + 1 => segs'[j].used
    BY <1>4, <1>5, <1>6, <2>2
  <2>5. last' = last /\ maps' = maps
    BY <1>3
  <2> QED BY <1>4, <1>7, <1>8, <2>1, <2>3, <2>4, <2>5 DEF RmInv
<1> QED BY <1>3, <1>4, <1>6, <1>7, <1>8, <1>9, <1>10, <1>11, <1>13, <1>14, <1>15, Creating
        DEF AtPcs, DtPcs

LEMMA RmReturnStep ==
    ASSUME IInv, NEW p \in Procs, RmReturn(p)
    PROVE  IInv'
<1>1. /\ pc[p] = "rm_free" /\ pc' = [pc EXCEPT ![p] = "user"]
      /\ loc' = [loc EXCEPT ![p] = NoLocals]
      /\ UNCHANGED <<segs, last, lock, onList, att, maps, ready, failed, fault>>
  BY DEF RmReturn, At, Return
<1>2. /\ pc' \in [Procs -> Pcs] /\ pc'[p] = "user"
      /\ \A q \in Procs : q # p => pc'[q] = pc[q]
  <2>1. "user" \in Pcs
    BY DEF Pcs
  <2> QED BY <1>1, <2>1, Goes
<1>3. loc' \in [Procs -> Locals] /\ \A q \in Procs : q # p => loc'[q] = loc[q]
  BY <1>1, NewLocals, NoLocalsType
<1>4. TypeOK'
  BY <1>1, <1>2, <1>3 DEF IInv, TypeOK, Pcs
<1>5. GetInv(p)' /\ RmInv(p)'
  BY <1>2 DEF GetInv, RmInv, GetPcs, RmPcs
<1>6. WorkInv(p)' /\ AtInv(p)' /\ DtInv(p)' /\ Work(p)' = {} /\ Work(p) = {}
  BY <1>1, <1>2, NotAttaching DEF AtPcs, DtPcs, Work
<1>7. MapInv(p)'
  BY <1>1, <1>6, MapKeep
<1>8. ProcInv(p)'
  BY <1>5, <1>6, <1>7 DEF ProcInv
<1> QED BY <1>1, <1>2, <1>3, <1>4, <1>8, Quiet DEF Locked

----------------------------------------------------------------------------
(* shmat and shmdt: taking and releasing the lock *)

\* A step of p inside shmat or shmdt: what is left to show.
LEMMA Attaching ==
    ASSUME IInv, NEW p \in Procs, ready' = ready, last' = last, onList' = onList,
           failed \subseteq failed',
           \A j \in Ids : /\ segs'[j].used = segs[j].used
                          /\ segs'[j].size = segs[j].size
                          /\ segs'[j].pa = segs[j].pa,
           \A q \in Procs : q # p =>
               /\ pc'[q] = pc[q] /\ loc'[q] = loc[q]
               /\ att'[q] = att[q] /\ maps'[q] = maps[q],
           \A s \in Ids : \/ maps'[p][s] \in {maps[p][s], -1}
                          \/ \E r \in ready : Theirs(p, r) /\ maps'[p][s] \in Span(r[2], r[3]),
           pc[p] \in Locked \/ segs' = segs,
           pc'[p] \notin GetPcs \cup RmPcs,
           TypeOK', LockHeld', WorkInv(p)', AtInv(p)', DtInv(p)', MapInv(p)',
           \A j \in Ids : Counted(j)'
    PROVE  IInv'
<1>1. (\A r \in ready : Lasting(r))' /\ SegmentsDisjoint' /\ FramesHeld'
  BY TableKeep
<1>2. ASSUME NEW q \in Procs, q # p PROVE ProcInv(q)'
  <2>1. pc[p] \in Locked => pc[q] \notin Locked
    BY <1>2 DEF IInv, LockHeld
  <2>2. pc[q] \in {"at_store", "dt_store"} => segs'[Entry(q)].nattch = segs[Entry(q)].nattch
    BY <2>1 DEF Locked
  <2> QED BY <1>2, <2>2, OthersKeep
<1>3. GetInv(p)' /\ RmInv(p)'
  BY DEF GetInv, RmInv
<1>4. ProcInv(p)'
  BY <1>3 DEF ProcInv
<1> QED BY <1>1, <1>2, <1>4 DEF IInv, Ids

LEMMA LockStep ==
    ASSUME IInv, NEW p \in Procs, AtLock(p) \/ DtLock(p)
    PROVE  IInv'
<1>1. PICK l \in {"at", "dt"} :
          /\ l = "at" => pc[p] = "at_lock" /\ pc' = [pc EXCEPT ![p] = "at_load"]
          /\ l = "dt" => pc[p] = "dt_lock" /\ pc' = [pc EXCEPT ![p] = "dt_load"]
  BY DEF AtLock, DtLock, At, Goto
<1>2. /\ lock = NoProc /\ lock' = p
      /\ UNCHANGED <<segs, last, onList, att, maps, loc, ready, failed, fault>>
  BY DEF AtLock, DtLock
<1>3. /\ pc' \in [Procs -> Pcs]
      /\ l = "at" => pc'[p] = "at_load"
      /\ l = "dt" => pc'[p] = "dt_load"
      /\ \A q \in Procs : q # p => pc'[q] = pc[q]
  <2>1. "at_load" \in Pcs /\ "dt_load" \in Pcs
    BY DEF Pcs, AtPcs, DtPcs
  <2> QED BY <1>1, <2>1, Goes
<1>4. TypeOK'
  BY <1>2, <1>3 DEF IInv, TypeOK, Pcs
<1>5. LockHeld'
  <2>1. \A q \in Procs : pc[q] \notin Locked /\ q \notin failed
    BY <1>2, RaceAssumption DEF IInv, LockHeld
  <2> QED BY <1>1, <1>2, <1>3, <2>1 DEF LockHeld, Locked
<1>6. Work(p)' = Work(p)
  BY <1>1, <1>2, <1>3 DEF Work, AtPcs, DtPcs
<1>7. WorkInv(p)'
  BY <1>1, <1>2, <1>3 DEF IInv, ProcInv, WorkInv, Theirs, AtPcs, DtPcs
<1>8. AtInv(p)' /\ DtInv(p)'
  BY <1>1, <1>2, <1>3 DEF IInv, ProcInv, AtInv, DtInv, AtPcs, DtPcs
<1>9. MapInv(p)'
  BY <1>2, <1>6, MapKeep
<1>10. ASSUME NEW j \in Ids PROVE Counted(j)'
  <2>1. Late(j) = 0 /\ Late(j)' = 0
    BY <1>1, <1>2, <1>3 DEF Late, Midway
  <2> QED BY <1>2, <2>1, CountKeep
<1>11. pc'[p] \notin GetPcs \cup RmPcs
  BY <1>1, <1>3 DEF GetPcs, RmPcs
<1> QED BY <1>2, <1>3, <1>4, <1>5, <1>7, <1>8, <1>9, <1>10, <1>11, Attaching

LEMMA UnlockStep ==
    ASSUME IInv, NEW p \in Procs, AtUnlock(p) \/ DtUnlock(p)
    PROVE  IInv'
<1>1. /\ pc[p] \in {"at_load", "dt_load"} /\ pc' = [pc EXCEPT ![p] = "user"]
      /\ loc[p].i = loc[p].n /\ lock' = NoProc
      /\ loc' = [loc EXCEPT ![p] = NoLocals]
      /\ UNCHANGED <<segs, last, onList, att, maps, ready, failed, fault>>
  BY DEF AtUnlock, DtUnlock, At, Return
<1>2. /\ pc' \in [Procs -> Pcs] /\ pc'[p] = "user"
      /\ \A q \in Procs : q # p => pc'[q] = pc[q]
  <2>1. "user" \in Pcs
    BY DEF Pcs
  <2> QED BY <1>1, <2>1, Goes
<1>3. loc' \in [Procs -> Locals] /\ \A q \in Procs : q # p => loc'[q] = loc[q]
  BY <1>1, NewLocals, NoLocalsType
<1>4. TypeOK'
  BY <1>1, <1>2, <1>3 DEF IInv, TypeOK, Pcs
<1>5. lock = p
  BY <1>1 DEF IInv, LockHeld, Locked
<1>6. LockHeld'
  BY <1>1, <1>2, <1>5, RaceAssumption DEF IInv, LockHeld, Locked
<1>7. WorkInv(p)' /\ AtInv(p)' /\ DtInv(p)' /\ Work(p)' = {}
  BY <1>2, NotAttaching DEF AtPcs, DtPcs
<1>8. PICK n \in Nat, id \in Nat, b \in Nat, r \in ready :
          /\ n = loc[p].n /\ id = loc[p].id /\ b = loc[p].s
          /\ Theirs(p, r) /\ r[2] = id /\ r[3] = n /\ b + n <= SHMMAXSEG
  BY <1>1, LocalTypes DEF IInv, ProcInv, WorkInv, AtPcs, DtPcs
<1>9. n > 0 /\ SHMMAXSEG \in Nat /\ Work(p) = Span(b, n) /\ b \in Ids
  BY <1>1, <1>8, LastingIds, RaceAssumption DEF Work, AtPcs, DtPcs, Ids
<1>10. MapInv(p)'
  <2> SUFFICES ASSUME NEW s \in Ids
               PROVE  \/ maps[p][s] = -1 /\ (att[p][s] = -1 \/ p \in failed)
                      \/ \E t \in ready, c \in Ids :
                            Theirs(p, t) /\ s \in Span(c, t[3]) /\ Block(p, c, t)
    BY <1>1, <1>7 DEF MapInv, Theirs, Block, Ids
  <2>1. CASE s \notin Work(p)
    BY <2>1 DEF IInv, ProcInv, MapInv
  <2>2. CASE s \in Work(p) /\ pc[p] = "at_load"
    <3>1. \A k \in 0 .. n - 1 : maps[p][b + k] = id + k /\ att[p][b + k] = id
      BY <1>1, <1>8, <2>2 DEF IInv, ProcInv, AtInv, AtPcs
    <3>2. Block(p, b, r)
      BY <1>8, <3>1 DEF Block
    <3> QED BY <1>8, <1>9, <2>2, <3>2
  <2>3. CASE s \in Work(p) /\ pc[p] = "dt_load"
    <3>1. \A k \in 0 .. n - 1 : maps[p][b + k] = -1 /\ att[p][b + k] = -1
      BY <1>1, <1>8, <2>3 DEF IInv, ProcInv, DtInv, DtPcs
    <3>a. s \in b .. b + n - 1
      BY <1>9, <2>3 DEF Span
    <3>2. s - b \in 0 .. n - 1 /\ s = b + (s - b)
      BY <3>a
    <3>3. maps[p][b + (s - b)] = -1 /\ att[p][b + (s - b)] = -1
      BY <3>1, <3>2
    <3> QED BY <3>2, <3>3
  <2> QED BY <1>1, <2>1, <2>2, <2>3
<1>11. ASSUME NEW j \in Ids PROVE Counted(j)'
  <2>1. Late(j) = 0 /\ Late(j)' = 0
    BY <1>1, <1>5 DEF Late, Midway
  <2> QED BY <1>1, <2>1, CountKeep
<1>12. pc'[p] \notin GetPcs \cup RmPcs
  BY <1>2 DEF GetPcs, RmPcs
<1> QED BY <1>1, <1>2, <1>3, <1>4, <1>6, <1>7, <1>10, <1>11, <1>12, Attaching

----------------------------------------------------------------------------
(* shmat *)

LEMMA AtFindStep ==
    ASSUME IInv, Private = TRUE, NEW p \in Procs, NEW id \in Ids, AtFind(p, id)
    PROVE  IInv'
<1> DEFINE free == [u \in Ids |-> att[p][u] = -1]
<1>1. PICK r \in ready : r[2] = id /\ r[1] \in {p, NoProc}
  BY DEF AtFind
<1>n. PICK n \in Nat : n = r[3]
  BY LastingIds
<1>2. PICK b : b = ScanResult(free, SHMMAXSEG, n)
  OBVIOUS
<1>3. segs[id].size = n /\ n > 0 /\ SHMMAXSEG \in Nat /\ id \in Nat
  BY <1>1, <1>n, LastingIds, RaceAssumption DEF IInv, Lasting, Ids
<1>4. /\ pc[p] = "user" /\ pc' = [pc EXCEPT ![p] = "at_lock"] /\ b # -1
      /\ loc' = [loc EXCEPT ![p] = [NoLocals EXCEPT !.id = id, !.n = n, !.s = b]]
      /\ UNCHANGED <<segs, last, lock, onList, att, maps, ready, failed, fault>>
  BY <1>2, <1>3 DEF AtFind, Enter
<1>5. b \in Nat /\ b + n <= SHMMAXSEG /\ \A u \in Span(b, n) : u \in Ids /\ att[p][u] = -1
  <2>1. FitsAt(free, SHMMAXSEG, n, b)
    BY <1>2, <1>3, <1>4, ScanResultFits
  <2>2. b \in 0 .. SHMMAXSEG - 1 /\ b + n <= SHMMAXSEG /\ \A u \in b .. b + n - 1 : free[u]
    BY <2>1 DEF FitsAt
  <2>3. \A u \in Span(b, n) : u \in Ids
    BY <1>3, <2>2 DEF Span, Ids
  <2>4. \A u \in Span(b, n) : free[u]
    BY <2>2 DEF Span
  <2>5. \A u \in Ids : free[u] => att[p][u] = -1
    OBVIOUS
  <2>6. b \in Nat
    BY <2>2
  <2> HIDE DEF free
  <2> QED BY <2>2, <2>3, <2>4, <2>5, <2>6
<1> HIDE DEF free
<1>6. /\ pc' \in [Procs -> Pcs] /\ pc'[p] = "at_lock"
      /\ \A q \in Procs : q # p => pc'[q] = pc[q]
  <2>1. "at_lock" \in Pcs
    BY DEF Pcs, AtPcs
  <2> QED BY <1>4, <2>1, Goes
<1>7. /\ loc' \in [Procs -> Locals] /\ loc'[p].id = id /\ loc'[p].n = n /\ loc'[p].i = 0
      /\ loc'[p].s = b
      /\ \A q \in Procs : q # p => loc'[q] = loc[q]
  <2> DEFINE l == [NoLocals EXCEPT !.id = id, !.n = n, !.s = b]
  <2>1. l \in Locals /\ l.id = id /\ l.n = n /\ l.i = 0 /\ l.s = b
    BY <1>3, <1>5, NoLocalsType DEF Locals, NoLocals
  <2> HIDE DEF l
  <2>2. loc' = [loc EXCEPT ![p] = l]
    BY <1>4 DEF l
  <2> QED BY <2>1, <2>2, NewLocals
<1>8. TypeOK'
  BY <1>4, <1>6, <1>7 DEF IInv, TypeOK, Pcs
<1>9. WorkInv(p)'
  <2>1. Theirs(p, r)' /\ r \in ready'
    BY <1>1, <1>4 DEF Theirs
  <2>2. loc'[p].s + loc'[p].n <= SHMMAXSEG /\ loc'[p].i <= loc'[p].n /\ loc'[p].i = 0
    BY <1>n, <1>5, <1>7
  <2> QED BY <1>1, <1>n, <1>6, <1>7, <2>1, <2>2 DEF WorkInv
<1>10. Work(p) = {}
  BY <1>4 DEF Work, AtPcs, DtPcs
<1>11. \A u \in Span(b, n) : maps[p][u] = -1
  <2> SUFFICES ASSUME NEW u \in Span(b, n), maps[p][u] # -1 PROVE FALSE
    OBVIOUS
  <2>1. PICK t \in ready, c \in Ids :
            Theirs(p, t) /\ u \in Span(c, t[3]) /\ Block(p, c, t)
    BY <1>5, <1>10 DEF IInv, ProcInv, MapInv
  <2>2. t[2] \in Nat /\ t[3] \in Nat /\ c \in Nat
    BY LastingIds DEF Ids
  <2>3. u - c \in 0 .. t[3] - 1 /\ u = c + (u - c)
    BY <2>1, <2>2 DEF Span
  <2>4. att[p][c + (u - c)] = t[2]
    BY <2>1, <2>3 DEF Block
  <2>5. att[p][u] = t[2]
    BY <2>3, <2>4
  <2> QED BY <1>5, <2>2, <2>5
<1>12. AtInv(p)' /\ DtInv(p)'
  <2>1. \A k \in 0 .. n - 1 : b + k \in Span(b, n)
    BY <1>5 DEF Span
  <2>2. \A k \in 0 .. n - 1 : maps'[p][b + k] = -1 /\ att'[p][b + k] = -1
    BY <1>4, <1>5, <1>11, <2>1
  <2>3. \A k \in 0 .. n - 1 : ~(k < 0)
    OBVIOUS
  <2> QED BY <1>6, <1>7, <2>2, <2>3 DEF AtInv, DtInv, AtPcs, DtPcs
<1>13. MapInv(p)'
  <2>1. \A s \in Ids : \/ maps[p][s] = -1 /\ (att[p][s] = -1 \/ p \in failed)
                       \/ \E t \in ready, c \in Ids :
                             Theirs(p, t) /\ s \in Span(c, t[3]) /\ Block(p, c, t)
    BY <1>10 DEF IInv, ProcInv, MapInv
  <2> QED BY <1>4, <2>1 DEF MapInv, Theirs, Block, Ids
<1>14. GetInv(p)' /\ RmInv(p)'
  BY <1>6 DEF GetInv, RmInv, GetPcs, RmPcs
<1>15. ProcInv(p)'
  BY <1>9, <1>12, <1>13, <1>14 DEF ProcInv
<1> QED BY <1>4, <1>6, <1>7, <1>8, <1>15, Quiet DEF Locked

\* What a process holding the lock works on.
LEMMA LockedWork ==
    ASSUME IInv, NEW p \in Procs, pc[p] \in Locked, loc[p].i < loc[p].n
    PROVE  /\ lock = p /\ lock # NoProc
           /\ loc[p].id \in Nat /\ loc[p].n \in Nat /\ loc[p].i \in Nat /\ loc[p].s \in Nat
           /\ Entry(p) = loc[p].id + loc[p].i /\ Entry(p) \in Ids
           /\ loc[p].s + loc[p].i \in Ids /\ loc[p].s + loc[p].i \in Work(p)
           /\ loc[p].s + loc[p].n <= SHMMAXSEG
           /\ Work(p) = Span(loc[p].s, loc[p].n)
           /\ segs[Entry(p)] \in Seg /\ segs[Entry(p)].nattch \in Int
           /\ \E r \in ready : /\ Theirs(p, r) /\ r[2] = loc[p].id /\ r[3] = loc[p].n
                               /\ Entry(p) \in Span(r[2], r[3])
<1>1. lock = p /\ lock # NoProc
  BY RaceAssumption DEF IInv, LockHeld
<1>2. loc[p].id \in Nat /\ loc[p].n \in Nat /\ loc[p].i \in Nat /\ loc[p].s \in Nat
  BY LocalTypes
<1>3. /\ pc[p] \in AtPcs \cup DtPcs /\ loc[p].s + loc[p].n <= SHMMAXSEG
  BY DEF IInv, ProcInv, WorkInv, AtPcs, DtPcs, Locked
<1>4. PICK r \in ready : Theirs(p, r) /\ r[2] = loc[p].id /\ r[3] = loc[p].n
  BY <1>3 DEF IInv, ProcInv, WorkInv
<1>5. Entry(p) = loc[p].id + loc[p].i /\ Entry(p) \in Span(r[2], r[3])
  BY <1>2, <1>4 DEF Entry, Span
<1>6. Entry(p) \in Ids
  BY <1>5, LastingIds
<1>7. segs[Entry(p)] \in Seg /\ segs[Entry(p)].nattch \in Int
  BY <1>6 DEF IInv, TypeOK, Seg
<1>8. Work(p) = Span(loc[p].s, loc[p].n)
  BY <1>3 DEF Work
<1>9. loc[p].s + loc[p].i \in Ids /\ loc[p].s + loc[p].i \in Work(p)
  BY <1>2, <1>3, <1>8, RaceAssumption DEF Span, Ids
<1> QED BY <1>1, <1>2, <1>3, <1>4, <1>5, <1>6, <1>7, <1>8, <1>9

LEMMA MappingAdded ==
    ASSUME NEW p \in Procs, NEW u \in Ids, NEW j,
           \A q \in Procs, s \in Ids : maps'[q][s] = j <=> maps[q][s] = j \/ (q = p /\ s = u)
    PROVE  Mappings(j)' = Mappings(j) \cup {<<p, u>>}
<1>1. ASSUME NEW m \in Procs \X Ids
      PROVE  m \in Mappings(j)' <=> m \in Mappings(j) \cup {<<p, u>>}
  <2>1. m[1] \in Procs /\ m[2] \in Ids /\ m = <<m[1], m[2]>>
    OBVIOUS
  <2> QED BY <2>1 DEF Mappings
<1>2. <<p, u>> \in Procs \X Ids
  OBVIOUS
<1>3. Mappings(j)' \subseteq Procs \X Ids /\ Mappings(j) \subseteq Procs \X Ids
  BY DEF Mappings
<1> QED BY <1>1, <1>2, <1>3

LEMMA MappingRemoved ==
    ASSUME NEW p \in Procs, NEW u \in Ids, NEW j,
           \A q \in Procs, s \in Ids : maps'[q][s] = j <=> maps[q][s] = j /\ ~(q = p /\ s = u)
    PROVE  Mappings(j)' = Mappings(j) \ {<<p, u>>}
<1>1. ASSUME NEW m \in Procs \X Ids
      PROVE  m \in Mappings(j)' <=> m \in Mappings(j) \ {<<p, u>>}
  <2>1. m[1] \in Procs /\ m[2] \in Ids /\ m = <<m[1], m[2]>>
    OBVIOUS
  <2> QED BY <2>1 DEF Mappings
<1>2. Mappings(j)' \subseteq Procs \X Ids /\ Mappings(j) \subseteq Procs \X Ids
  BY DEF Mappings
<1> QED BY <1>1, <1>2

LEMMA AtLoadStep ==
    ASSUME IInv, NEW p \in Procs, AtLoad(p)
    PROVE  IInv'
<1>1. PICK e, n, id, i, b, u, v :
          /\ e = Entry(p) /\ n = loc[p].n /\ id = loc[p].id /\ i = loc[p].i
          /\ b = loc[p].s /\ u = b + i /\ v = segs[e].nattch
  OBVIOUS
<1>2. /\ pc[p] = "at_load" /\ i < n /\ pc' = [pc EXCEPT ![p] = "at_store"]
      /\ att' = [att EXCEPT ![p][u] = id] /\ maps' = [maps EXCEPT ![p][u] = e]
      /\ loc' = [loc EXCEPT ![p].tmp = v]
      /\ UNCHANGED <<segs, last, lock, onList, ready, failed, fault>>
  BY <1>1 DEF AtLoad, At, Goto
<1>3. /\ lock = p /\ lock # NoProc
      /\ id \in Nat /\ n \in Nat /\ i \in Nat /\ b \in Nat
      /\ e = id + i /\ e \in Ids /\ u \in Ids /\ u \in Work(p)
      /\ Work(p) = Span(b, n) /\ v \in Int /\ b + n <= SHMMAXSEG
      /\ \E r \in ready : Theirs(p, r) /\ r[2] = id /\ r[3] = n /\ e \in Span(r[2], r[3])
  BY <1>1, <1>2, LockedWork DEF Locked
<1>4. /\ pc' \in [Procs -> Pcs] /\ pc'[p] = "at_store"
      /\ \A q \in Procs : q # p => pc'[q] = pc[q]
  <2>1. "at_store" \in Pcs
    BY DEF Pcs, AtPcs
  <2> QED BY <1>2, <2>1, Goes
<1>5. /\ loc' \in [Procs -> Locals]
      /\ loc'[p].id = id /\ loc'[p].n = n /\ loc'[p].i = i /\ loc'[p].s = b
      /\ loc'[p].tmp = v /\ Entry(p)' = e
      /\ \A q \in Procs : q # p => loc'[q] = loc[q]
  BY <1>1, <1>2, <1>3, LoadLocals
<1>6. /\ att \in [Procs -> [Ids -> Ids \cup {-1}]]
      /\ maps \in [Procs -> [Ids -> Ids \cup {-1}]]
  BY DEF IInv, TypeOK
<1>7. /\ att' \in [Procs -> [Ids -> Ids \cup {-1}]]
      /\ maps' \in [Procs -> [Ids -> Ids \cup {-1}]]
      /\ \A q \in Procs : q # p => att'[q] = att[q] /\ maps'[q] = maps[q]
      /\ maps'[p][u] = e /\ att'[p][u] = id
      /\ \A s \in Ids : s # u => maps'[p][s] = maps[p][s] /\ att'[p][s] = att[p][s]
  <2>1. id \in Ids
    BY <1>3, LastingIds
  <2> QED BY <1>2, <1>3, <1>6, <2>1
<1>8. TypeOK'
  BY <1>2, <1>4, <1>5, <1>7 DEF IInv, TypeOK, Pcs
<1>9. LockHeld'
  BY <1>2, <1>4, LockKeep DEF Locked
<1>10. Work(p)' = Work(p)
  BY <1>1, <1>2, <1>4, <1>5 DEF Work, AtPcs
<1>11. WorkInv(p)'
  <2>1. \E r \in ready' : Theirs(p, r)' /\ r[2] = id /\ r[3] = n
    BY <1>2, <1>3 DEF Theirs
  <2>2. v = segs'[e].nattch /\ i <= n
    BY <1>1, <1>2, <1>3
  <2> QED BY <1>2, <1>3, <1>4, <1>5, <2>1, <2>2 DEF WorkInv
<1>12. \A k \in 0 .. n - 1 : b + k \in Ids /\ (b + k = u => k = i) /\ (k = i => b + k = u)
  <2>1. u = b + i /\ SHMMAXSEG \in Nat
    BY <1>1, RaceAssumption
  <2> QED BY <1>3, <2>1 DEF Ids
<1>13. \A k \in 0 .. n - 1 :
          IF k < i
          THEN maps[p][b + k] = id + k /\ att[p][b + k] = id
          ELSE maps[p][b + k] = -1 /\ att[p][b + k] = -1
  BY <1>1, <1>2 DEF IInv, ProcInv, AtInv, AtPcs
<1>14. AtInv(p)'
  <2>1. ASSUME NEW k \in 0 .. n - 1
        PROVE  IF k < i \/ k = i
               THEN maps'[p][b + k] = id + k /\ att'[p][b + k] = id
               ELSE maps'[p][b + k] = -1 /\ att'[p][b + k] = -1
    <3>1. CASE k = i
      BY <1>3, <1>7, <1>12, <3>1
    <3>2. CASE k # i
      BY <1>7, <1>12, <1>13, <3>2
    <3> QED BY <3>1, <3>2
  <2> QED BY <1>4, <1>5, <2>1 DEF AtInv
<1>15. DtInv(p)'
  BY <1>4 DEF DtInv, DtPcs
<1>16. MapInv(p)'
  BY <1>2, <1>3, <1>7, <1>10, MapKeep
<1>17. maps[p][u] = -1
  <2>1. i \in 0 .. n - 1 /\ ~(i < i)
    BY <1>2, <1>3
  <2> QED BY <1>12, <1>13, <2>1
<1>18. ASSUME NEW j \in Ids PROVE Counted(j)'
  <2>1. Late(j) = 0
    BY <1>2, <1>3 DEF Late, Midway
  <2>2. Late(j)' = IF j = e THEN 1 ELSE 0
    BY <1>2, <1>3, <1>4, <1>5 DEF Late, Midway
  <2>3. IsFiniteSet(Mappings(j)) /\ segs'[j].nattch = Cardinality(Mappings(j))
        /\ Cardinality(Mappings(j)) \in Nat
    <3>1. /\ IsFiniteSet(Mappings(j)) /\ segs[j].nattch = Cardinality(Mappings(j)) - Late(j)
      BY DEF IInv, Counted
    <3>2. Cardinality(Mappings(j)) \in Nat
      BY <3>1, FS_CardinalityType
    <3> QED BY <1>2, <2>1, <3>1, <3>2
  <2>4. CASE j = e
    <3>1. Mappings(j)' = Mappings(j) \cup {<<p, u>>}
      <4>1. ASSUME NEW q \in Procs, NEW s \in Ids
            PROVE  maps'[q][s] = j <=> maps[q][s] = j \/ (q = p /\ s = u)
        <5>1. CASE q = p /\ s = u
          BY <1>7, <2>4, <5>1
        <5>2. CASE q = p /\ s # u
          BY <1>7, <5>2
        <5>3. CASE q # p
          BY <1>7, <5>3
        <5> QED BY <5>1, <5>2, <5>3
      <4> QED BY <1>3, <4>1, MappingAdded
    <3>2. <<p, u>> \notin Mappings(j)
      BY <1>3, <1>17, <2>4 DEF Mappings, Ids
    <3>3. /\ IsFiniteSet(Mappings(j) \cup {<<p, u>>})
          /\ Cardinality(Mappings(j) \cup {<<p, u>>}) = Cardinality(Mappings(j)) + 1
      BY <2>3, <3>2, FS_AddElement
    <3> QED BY <2>2, <2>3, <2>4, <3>1, <3>3 DEF Counted
  <2>5. CASE j # e
    <3>1. j # -1
      BY DEF Ids
    <3>2. Mappings(j)' = Mappings(j)
      BY <1>3, <1>7, <1>17, <2>5, <3>1 DEF Mappings
    <3> QED BY <2>2, <2>3, <2>5, <3>2 DEF Counted
  <2> QED BY <2>4, <2>5
<1>19. pc'[p] \notin GetPcs \cup RmPcs
  BY <1>4 DEF GetPcs, RmPcs
<1> QED BY <1>2, <1>3, <1>4, <1>5, <1>7, <1>8, <1>9, <1>11, <1>14, <1>15, <1>16, <1>18,
           <1>19, Attaching

LEMMA AtStoreStep ==
    ASSUME IInv, NEW p \in Procs, AtStore(p)
    PROVE  IInv'
<1>1. PICK e, n, id, i, b, v :
          /\ e = Entry(p) /\ n = loc[p].n /\ id = loc[p].id /\ i = loc[p].i
          /\ b = loc[p].s /\ v = segs[e].nattch
  OBVIOUS
<1>2. /\ pc[p] = "at_store" /\ pc' = [pc EXCEPT ![p] = "at_load"] /\ Step(p)
      /\ segs' = [segs EXCEPT ![e].nattch = loc[p].tmp + 1]
      /\ UNCHANGED <<last, lock, onList, att, maps, ready, failed, fault>>
  BY <1>1 DEF AtStore, At, Goto
<1>3. i < n /\ loc[p].tmp = v
  BY <1>1, <1>2 DEF IInv, ProcInv, WorkInv, AtPcs
<1>4. /\ lock = p /\ lock # NoProc
      /\ id \in Nat /\ n \in Nat /\ i \in Nat /\ b \in Nat
      /\ e = id + i /\ e \in Ids /\ b + n <= SHMMAXSEG
      /\ segs[e] \in Seg /\ v \in Int
      /\ \E r \in ready : Theirs(p, r) /\ r[2] = id /\ r[3] = n
  BY <1>1, <1>2, <1>3, LockedWork DEF Locked
<1>5. /\ pc' \in [Procs -> Pcs] /\ pc'[p] = "at_load"
      /\ \A q \in Procs : q # p => pc'[q] = pc[q]
  <2>1. "at_load" \in Pcs
    BY DEF Pcs, AtPcs
  <2> QED BY <1>2, <2>1, Goes
<1>6. /\ loc' \in [Procs -> Locals]
      /\ loc'[p].id = id /\ loc'[p].n = n /\ loc'[p].i = i + 1 /\ loc'[p].s = b
      /\ \A q \in Procs : q # p => loc'[q] = loc[q]
  BY <1>1, <1>2, StepLocals
<1>7. /\ segs' \in [Ids -> Seg] /\ segs'[e].nattch = v + 1
      /\ \A j \in Ids : j # e => segs'[j] = segs[j]
      /\ \A j \in Ids : /\ segs'[j].used = segs[j].used
                        /\ segs'[j].size = segs[j].size
                        /\ segs'[j].pa = segs[j].pa
  <2>1. segs \in [Ids -> Seg]
    BY DEF IInv, TypeOK
  <2>2. segs'[e] = [segs[e] EXCEPT !.nattch = v + 1] /\ segs' = [segs EXCEPT ![e] = segs'[e]]
    BY <1>2, <1>3, <1>4, <2>1
  <2>3. segs'[e] \in Seg
    BY <1>4, <2>2 DEF Seg
  <2>4. segs' \in [Ids -> Seg] /\ \A j \in Ids : j # e => segs'[j] = segs[j]
    BY <2>1, <2>2, <2>3
  <2>5. /\ segs'[e].used = segs[e].used /\ segs'[e].size = segs[e].size
        /\ segs'[e].pa = segs[e].pa /\ segs'[e].nattch = v + 1
    BY <1>4, <2>2 DEF Seg
  <2> QED BY <2>4, <2>5
<1>8. TypeOK'
  BY <1>2, <1>5, <1>6, <1>7 DEF IInv, TypeOK, Pcs
<1>9. LockHeld'
  BY <1>2, <1>5, LockKeep DEF Locked
<1>10. Work(p)' = Work(p)
  BY <1>1, <1>2, <1>5, <1>6 DEF Work, AtPcs
<1>11. WorkInv(p)'
  <2>1. \E r \in ready' : Theirs(p, r)' /\ r[2] = id /\ r[3] = n
    BY <1>2, <1>4 DEF Theirs
  <2>2. i + 1 <= n
    BY <1>3, <1>4
  <2> QED BY <1>4, <1>5, <1>6, <2>1, <2>2 DEF WorkInv
<1>12. AtInv(p)'
  <2>1. \A k \in 0 .. n - 1 : k < i + 1 <=> k < i \/ k = i
    BY <1>4
  <2>2. \A k \in 0 .. n - 1 :
            IF k < i \/ k = i
            THEN maps[p][b + k] = id + k /\ att[p][b + k] = id
            ELSE maps[p][b + k] = -1 /\ att[p][b + k] = -1
    BY <1>1, <1>2 DEF IInv, ProcInv, AtInv, AtPcs
  <2>3. \A k \in 0 .. n - 1 :
            IF k < i + 1
            THEN maps'[p][b + k] = id + k /\ att'[p][b + k] = id
            ELSE maps'[p][b + k] = -1 /\ att'[p][b + k] = -1
    BY <1>2, <2>1, <2>2
  <2> QED BY <1>5, <1>6, <2>3 DEF AtInv
<1>13. DtInv(p)'
  BY <1>5 DEF DtInv, DtPcs
<1>14. MapInv(p)'
  BY <1>2, <1>10, MapKeep
<1>15. ASSUME NEW j \in Ids PROVE Counted(j)'
  <2>1. Late(j) = IF j = e THEN 1 ELSE 0
    BY <1>1, <1>2, <1>4 DEF Late, Midway
  <2>2. Late(j)' = 0
    BY <1>2, <1>4, <1>5 DEF Late, Midway
  <2>3. /\ IsFiniteSet(Mappings(j)) /\ segs[j].nattch = Cardinality(Mappings(j)) - Late(j)
    BY DEF IInv, Counted
  <2>4. Cardinality(Mappings(j)) \in Nat
    BY <2>3, FS_CardinalityType
  <2>5. Mappings(j)' = Mappings(j)
    BY <1>2 DEF Mappings
  <2>6. segs'[j].nattch = Cardinality(Mappings(j))
    BY <1>1, <1>7, <2>1, <2>3, <2>4
  <2> QED BY <2>2, <2>3, <2>4, <2>5, <2>6 DEF Counted
<1>16. pc'[p] \notin GetPcs \cup RmPcs
  BY <1>5 DEF GetPcs, RmPcs
<1>17. pc[p] \in Locked
  BY <1>2 DEF Locked
<1> QED BY <1>2, <1>5, <1>6, <1>7, <1>8, <1>9, <1>11, <1>12, <1>13, <1>14, <1>15, <1>16,
           <1>17, Attaching

\* mappages fails for the first page: the slot stays marked, and the process
\* returns with the lock.
LEMMA AtFailStep ==
    ASSUME IInv, NEW p \in Procs, AtFail(p), loc[p].i = 0
    PROVE  IInv'
<1>1. PICK n, id, b : n = loc[p].n /\ id = loc[p].id /\ b = loc[p].s
  OBVIOUS
<1>2. /\ pc[p] = "at_load" /\ 0 < n /\ pc' = [pc EXCEPT ![p] = "user"]
      /\ loc' = [loc EXCEPT ![p] = NoLocals]
      /\ att' = [att EXCEPT ![p][b + 0] = id] /\ failed' = failed \cup {p}
      /\ UNCHANGED <<segs, last, lock, onList, maps, ready, fault>>
  BY <1>1 DEF AtFail, At, Return
<1>3. /\ lock = p /\ lock # NoProc /\ id \in Nat /\ n \in Nat /\ b \in Nat
      /\ b + 0 = b /\ b \in Ids /\ b \in Work(p) /\ Work(p) = Span(b, n)
      /\ \E r \in ready : r[2] = id
  BY <1>1, <1>2, LockedWork DEF Locked
<1>4. /\ pc' \in [Procs -> Pcs] /\ pc'[p] = "user"
      /\ \A q \in Procs : q # p => pc'[q] = pc[q]
  <2>1. "user" \in Pcs
    BY DEF Pcs
  <2> QED BY <1>2, <2>1, Goes
<1>5. loc' \in [Procs -> Locals] /\ \A q \in Procs : q # p => loc'[q] = loc[q]
  BY <1>2, NewLocals, NoLocalsType
<1>6. /\ att' \in [Procs -> [Ids -> Ids \cup {-1}]]
      /\ \A q \in Procs : q # p => att'[q] = att[q]
      /\ \A s \in Ids : s # b => att'[p][s] = att[p][s]
  <2>1. att \in [Procs -> [Ids -> Ids \cup {-1}]]
    BY DEF IInv, TypeOK
  <2>2. id \in Ids
    BY <1>3, LastingIds
  <2> QED BY <1>2, <1>3, <2>1, <2>2
<1>7. TypeOK'
  BY <1>2, <1>4, <1>5, <1>6 DEF IInv, TypeOK, Pcs
<1>8. LockHeld'
  <2>1. \A q \in Procs : q # p => pc[q] \notin Locked /\ q \notin failed
    BY <1>3 DEF IInv, LockHeld
  <2>2. "user" \notin Locked
    BY DEF Locked
  <2> QED BY <1>2, <1>3, <1>4, <2>1, <2>2 DEF LockHeld
<1>9. WorkInv(p)' /\ AtInv(p)' /\ DtInv(p)' /\ Work(p)' = {}
  BY <1>4, NotAttaching DEF AtPcs, DtPcs
<1>10. MapInv(p)'
  <2> SUFFICES ASSUME NEW s \in Ids
               PROVE  \/ maps[p][s] = -1
                      \/ \E t \in ready, c \in Ids :
                            Theirs(p, t) /\ s \in Span(c, t[3]) /\ Block(p, c, t)'
    BY <1>2, <1>9 DEF MapInv, Theirs, Ids
  <2>1. CASE s \notin Work(p)
    <3> SUFFICES ASSUME maps[p][s] # -1
                 PROVE  \E t \in ready, c \in Ids :
                            Theirs(p, t) /\ s \in Span(c, t[3]) /\ Block(p, c, t)'
      OBVIOUS
    <3>1. PICK t \in ready, c \in Ids :
              Theirs(p, t) /\ s \in Span(c, t[3]) /\ Block(p, c, t)
      BY <2>1 DEF IInv, ProcInv, MapInv
    <3>2. Span(c, t[3]) \cap Work(p) = {}
      BY <2>1, <3>1, BlocksApart
    <3>3. t[3] \in Nat /\ c \in Nat /\ SHMMAXSEG \in Nat
      BY LastingIds, RaceAssumption DEF Ids
    <3>4. \A k \in 0 .. t[3] - 1 : c + k \in Span(c, t[3]) /\ c + k \in Ids
      BY <3>1, <3>3 DEF Block, Span, Ids
    <3>5. Block(p, c, t)'
      BY <1>2, <1>3, <1>6, <3>1, <3>2, <3>4 DEF Block
    <3> QED BY <3>1, <3>5
  <2>2. CASE s \in Work(p)
    <3>1. \A k \in 0 .. n - 1 : maps[p][b + k] = -1
      <4>1. \A k \in 0 .. n - 1 : ~(k < 0)
        OBVIOUS
      <4> QED BY <1>1, <1>2, <4>1 DEF IInv, ProcInv, AtInv, AtPcs
    <3>2. s \in b .. b + n - 1
      BY <1>3, <2>2 DEF Span
    <3>3. s - b \in 0 .. n - 1 /\ s = b + (s - b)
      BY <1>3, <3>2
    <3>4. maps[p][b + (s - b)] = -1
      BY <3>1, <3>3
    <3> QED BY <3>3, <3>4
  <2> QED BY <2>1, <2>2
<1>11. ASSUME NEW j \in Ids PROVE Counted(j)'
  <2>1. Late(j) = 0 /\ Late(j)' = 0
    BY <1>2, <1>3, <1>4 DEF Late, Midway
  <2> QED BY <1>2, <2>1, CountKeep
<1>12. pc'[p] \notin GetPcs \cup RmPcs
  BY <1>4 DEF GetPcs, RmPcs
<1>13. failed \subseteq failed'
  BY <1>2
<1> QED BY <1>2, <1>4, <1>5, <1>6, <1>7, <1>8, <1>9, <1>10, <1>11, <1>12, <1>13, Attaching

----------------------------------------------------------------------------
(* shmdt *)

LEMMA DtFindStep ==
    ASSUME IInv, NEW p \in Procs, NEW b \in Ids, DtFind(p, b)
    PROVE  IInv'
<1>1. /\ pc[p] = "user" /\ att[p][b] # -1 /\ maps[p][b] = att[p][b]
  BY DEF DtFind, Enter
<1>2. Work(p) = {}
  BY <1>1 DEF Work, AtPcs, DtPcs
<1>3. PICK r \in ready, c \in Ids :
          Theirs(p, r) /\ b \in Span(c, r[3]) /\ Block(p, c, r)
  BY <1>1, <1>2 DEF IInv, ProcInv, MapInv
<1>4. PICK id \in Nat, n \in Nat : id = r[2] /\ n = r[3]
  BY LastingIds
<1>5. n > 0 /\ b \in Nat /\ c \in Nat /\ SHMMAXSEG \in Nat /\ id \in Ids
  BY <1>4, LastingIds, RaceAssumption DEF Ids
<1>6. c = b /\ att[p][b] = id
  <2>1. b - c \in 0 .. r[3] - 1 /\ b = c + (b - c)
    BY <1>3, <1>4, <1>5 DEF Span
  <2>2. maps[p][c + (b - c)] = r[2] + (b - c) /\ att[p][c + (b - c)] = r[2]
    BY <1>3, <2>1 DEF Block
  <2> QED BY <1>1, <1>4, <1>5, <2>1, <2>2
<1>7. /\ b + n <= SHMMAXSEG
      /\ \A k \in 0 .. n - 1 : maps[p][b + k] = id + k /\ att[p][b + k] = id
  BY <1>3, <1>4, <1>6 DEF Block
<1>8. segs[id].size = n
  BY <1>4, LastingIds DEF IInv, Lasting
<1>9. /\ pc' = [pc EXCEPT ![p] = "dt_lock"]
      /\ loc' = [loc EXCEPT ![p] = [NoLocals EXCEPT !.id = id, !.n = n, !.s = b]]
      /\ att' = [att EXCEPT ![p][b] = -1]
      /\ UNCHANGED <<segs, last, lock, onList, maps, ready, failed, fault>>
  BY <1>6, <1>8 DEF DtFind, Enter
<1>10. /\ pc' \in [Procs -> Pcs] /\ pc'[p] = "dt_lock"
       /\ \A q \in Procs : q # p => pc'[q] = pc[q]
  <2>1. "dt_lock" \in Pcs
    BY DEF Pcs, DtPcs
  <2> QED BY <1>9, <2>1, Goes
<1>11. /\ loc' \in [Procs -> Locals] /\ loc'[p].id = id /\ loc'[p].n = n /\ loc'[p].i = 0
       /\ loc'[p].s = b
       /\ \A q \in Procs : q # p => loc'[q] = loc[q]
  <2> DEFINE l == [NoLocals EXCEPT !.id = id, !.n = n, !.s = b]
  <2>1. l \in Locals /\ l.id = id /\ l.n = n /\ l.i = 0 /\ l.s = b
    BY <1>5, NoLocalsType DEF Locals, NoLocals
  <2> HIDE DEF l
  <2>2. loc' = [loc EXCEPT ![p] = l]
    BY <1>9 DEF l
  <2> QED BY <2>1, <2>2, NewLocals
<1>12. /\ att' \in [Procs -> [Ids -> Ids \cup {-1}]]
       /\ \A q \in Procs : q # p => att'[q] = att[q]
       /\ \A s \in Ids : s # b => att'[p][s] = att[p][s]
  <2>1. att \in [Procs -> [Ids -> Ids \cup {-1}]]
    BY DEF IInv, TypeOK
  <2> QED BY <1>9, <2>1
<1>13. TypeOK'
  BY <1>9, <1>10, <1>11, <1>12 DEF IInv, TypeOK, Pcs
<1>14. WorkInv(p)'
  <2>1. Theirs(p, r)' /\ r \in ready'
    BY <1>3, <1>9 DEF Theirs
  <2>2. loc'[p].s + loc'[p].n <= SHMMAXSEG /\ loc'[p].i <= loc'[p].n /\ loc'[p].i = 0
    BY <1>5, <1>7, <1>11
  <2> QED BY <1>4, <1>10, <1>11, <2>1, <2>2 DEF WorkInv
<1>15. AtInv(p)' /\ DtInv(p)'
  <2>1. \A k \in 0 .. n - 1 : ~(k < 0) /\ maps'[p][b + k] = id + k
    BY <1>7, <1>9
  <2> QED BY <1>10, <1>11, <2>1 DEF AtInv, DtInv, AtPcs, DtPcs
<1>16. MapInv(p)'
  <2>1. Work(p)' = Span(b, n)
    BY <1>10, <1>11 DEF Work, DtPcs
  <2> SUFFICES ASSUME NEW s \in Ids, s \notin Span(b, n),
                      ~(maps'[p][s] = -1 /\ (att'[p][s] = -1 \/ p \in failed'))
               PROVE  \E t \in ready', d \in Ids :
                          Theirs(p, t)' /\ s \in Span(d, t[3]) /\ Block(p, d, t)'
    BY <2>1 DEF MapInv, Ids
  <2>2. b \in Span(b, n) /\ s # b
    BY <1>5 DEF Span
  <2>3. PICK t \in ready, d \in Ids :
            Theirs(p, t) /\ s \in Span(d, t[3]) /\ Block(p, d, t)
    BY <1>2, <1>9, <1>12, <2>2 DEF IInv, ProcInv, MapInv
  <2>4. t[2] \in Nat /\ t[3] \in Nat \ {0} /\ d \in Nat
    BY LastingIds DEF Ids
  <2>5. ASSUME NEW k \in 0 .. t[3] - 1 PROVE d + k # b /\ d + k \in Ids
    <3>1. d + k \in Ids
      BY <1>5, <2>3, <2>4 DEF Block, Ids
    <3> SUFFICES ASSUME d + k = b PROVE FALSE
      BY <3>1
    <3>2. maps[p][b] = t[2] + k
      BY <2>3 DEF Block
    <3>3. maps[p][b] \in Span(t[2], t[3]) /\ maps[p][b] \in Span(r[2], r[3])
      BY <1>1, <1>4, <1>5, <1>6, <2>4, <3>2 DEF Span
    <3>4. t = r
      BY <3>3, SameSegment DEF IInv
    <3>5. k = 0 /\ d = b
      BY <1>1, <1>4, <1>6, <2>4, <3>2, <3>4
    <3> QED BY <1>4, <2>3, <3>4, <3>5
  <2>6. Block(p, d, t)'
    BY <1>9, <1>12, <2>3, <2>5 DEF Block
  <2>7. Theirs(p, t)' /\ t \in ready'
    BY <1>9, <2>3 DEF Theirs
  <2> QED BY <2>3, <2>6, <2>7
<1>17. GetInv(p)' /\ RmInv(p)'
  BY <1>10 DEF GetInv, RmInv, GetPcs, RmPcs
<1>18. ProcInv(p)'
  BY <1>14, <1>15, <1>16, <1>17 DEF ProcInv
<1> QED BY <1>1, <1>9, <1>10, <1>11, <1>12, <1>13, <1>18, Quiet DEF Locked

LEMMA DtLoadStep ==
    ASSUME IInv, NEW p \in Procs, DtLoad(p)
    PROVE  IInv'
<1>1. PICK e, n, id, i, b, u, v :
          /\ e = Entry(p) /\ n = loc[p].n /\ id = loc[p].id /\ i = loc[p].i
          /\ b = loc[p].s /\ u = b + i /\ v = segs[e].nattch
  OBVIOUS
<1>2. /\ pc[p] = "dt_load" /\ i < n /\ pc' = [pc EXCEPT ![p] = "dt_store"]
      /\ att' = [att EXCEPT ![p][u] = -1]
      /\ loc' = [loc EXCEPT ![p].tmp = v]
      /\ UNCHANGED <<segs, last, lock, onList, maps, ready, failed, fault>>
  BY <1>1 DEF DtLoad, At, Goto
<1>3. /\ lock = p /\ lock # NoProc
      /\ id \in Nat /\ n \in Nat /\ i \in Nat /\ b \in Nat
      /\ e = id + i /\ e \in Ids /\ u \in Ids /\ u \in Work(p)
      /\ Work(p) = Span(b, n) /\ v \in Int /\ b + n <= SHMMAXSEG
      /\ \E r \in ready : Theirs(p, r) /\ r[2] = id /\ r[3] = n
  BY <1>1, <1>2, LockedWork DEF Locked
<1>4. /\ pc' \in [Procs -> Pcs] /\ pc'[p] = "dt_store"
      /\ \A q \in Procs : q # p => pc'[q] = pc[q]
  <2>1. "dt_store" \in Pcs
    BY DEF Pcs, DtPcs
  <2> QED BY <1>2, <2>1, Goes
<1>5. /\ loc' \in [Procs -> Locals]
      /\ loc'[p].id = id /\ loc'[p].n = n /\ loc'[p].i = i /\ loc'[p].s = b
      /\ loc'[p].tmp = v /\ Entry(p)' = e
      /\ \A q \in Procs : q # p => loc'[q] = loc[q]
  BY <1>1, <1>2, <1>3, LoadLocals
<1>6. /\ att' \in [Procs -> [Ids -> Ids \cup {-1}]]
      /\ \A q \in Procs : q # p => att'[q] = att[q]
      /\ att'[p][u] = -1
      /\ \A s \in Ids : s # u => att'[p][s] = att[p][s]
  <2>1. att \in [Procs -> [Ids -> Ids \cup {-1}]]
    BY DEF IInv, TypeOK
  <2> QED BY <1>2, <1>3, <2>1
<1>7. TypeOK'
  BY <1>2, <1>4, <1>5, <1>6 DEF IInv, TypeOK, Pcs
<1>8. LockHeld'
  BY <1>2, <1>4, LockKeep DEF Locked
<1>9. Work(p)' = Work(p)
  BY <1>1, <1>2, <1>4, <1>5 DEF Work, DtPcs
<1>10. WorkInv(p)'
  <2>1. \E r \in ready' : Theirs(p, r)' /\ r[2] = id /\ r[3] = n
    BY <1>2, <1>3 DEF Theirs
  <2>2. v = segs'[e].nattch /\ i <= n
    BY <1>1, <1>2, <1>3
  <2> QED BY <1>2, <1>3, <1>4, <1>5, <2>1, <2>2 DEF WorkInv
<1>11. \A k \in 0 .. n - 1 : b + k \in Ids /\ (b + k = u => k = i) /\ (k = i => b + k = u)
  <2>1. u = b + i /\ SHMMAXSEG \in Nat
    BY <1>1, RaceAssumption
  <2> QED BY <1>3, <2>1 DEF Ids
<1>12. \A k \in 0 .. n - 1 :
          /\ k < i => maps[p][b + k] = -1 /\ att[p][b + k] = -1
          /\ ~(k < i) => maps[p][b + k] = id + k
  BY <1>1, <1>2 DEF IInv, ProcInv, DtInv, DtPcs
<1>13. DtInv(p)'
  <2>1. ASSUME NEW k \in 0 .. n - 1
        PROVE  /\ k < i => maps'[p][b + k] = -1 /\ att'[p][b + k] = -1
               /\ ~(k < i) => maps'[p][b + k] = id + k
               /\ k = i => att'[p][b + k] = -1
    <3>1. k < i => k # i
      BY <1>3
    <3> QED BY <1>2, <1>6, <1>11, <1>12, <3>1
  <2> QED BY <1>4, <1>5, <2>1 DEF DtInv
<1>14. AtInv(p)'
  BY <1>4 DEF AtInv, AtPcs
<1>15. MapInv(p)'
  BY <1>2, <1>3, <1>6, <1>9, MapKeep
<1>16. ASSUME NEW j \in Ids PROVE Counted(j)'
  <2>1. Late(j)' = Late(j)
    BY <1>2, <1>4, <1>5, LateKeep DEF Midway
  <2> QED BY <1>2, <2>1, CountKeep
<1>17. pc'[p] \notin GetPcs \cup RmPcs
  BY <1>4 DEF GetPcs, RmPcs
<1> QED BY <1>2, <1>4, <1>5, <1>6, <1>7, <1>8, <1>10, <1>13, <1>14, <1>15, <1>16, <1>17,
           Attaching

LEMMA DtStoreStep ==
    ASSUME IInv, NEW p \in Procs, DtStore(p)
    PROVE  IInv'
<1>1. PICK e, n, id, i, b, v :
          /\ e = Entry(p) /\ n = loc[p].n /\ id = loc[p].id /\ i = loc[p].i
          /\ b = loc[p].s /\ v = segs[e].nattch
  OBVIOUS
<1>2. /\ pc[p] = "dt_store" /\ pc' = [pc EXCEPT ![p] = "dt_clear"]
      /\ segs' = [segs EXCEPT ![e].nattch = loc[p].tmp - 1]
      /\ UNCHANGED <<last, lock, onList, att, maps, loc, ready, failed, fault>>
  BY <1>1 DEF DtStore, At, Goto
<1>3. i < n /\ loc[p].tmp = v
  BY <1>1, <1>2 DEF IInv, ProcInv, WorkInv, DtPcs
<1>4. /\ lock = p /\ lock # NoProc
      /\ id \in Nat /\ n \in Nat /\ i \in Nat /\ b \in Nat
      /\ e = id + i /\ e \in Ids
      /\ Work(p) = Span(b, n) /\ v \in Int /\ b + n <= SHMMAXSEG
      /\ segs[e] \in Seg
      /\ \E r \in ready : Theirs(p, r) /\ r[2] = id /\ r[3] = n
  BY <1>1, <1>2, <1>3, LockedWork DEF Locked
<1>5. /\ pc' \in [Procs -> Pcs] /\ pc'[p] = "dt_clear"
      /\ \A q \in Procs : q # p => pc'[q] = pc[q]
  <2>1. "dt_clear" \in Pcs
    BY DEF Pcs, DtPcs
  <2> QED BY <1>2, <2>1, Goes
<1>6. Entry(p)' = Entry(p)
  BY <1>2 DEF Entry
<1>7. /\ segs' \in [Ids -> Seg] /\ segs'[e].nattch = v - 1
      /\ \A j \in Ids : j # e => segs'[j] = segs[j]
      /\ \A j \in Ids : /\ segs'[j].used = segs[j].used
                        /\ segs'[j].size = segs[j].size
                        /\ segs'[j].pa = segs[j].pa
  <2>1. segs \in [Ids -> Seg]
    BY DEF IInv, TypeOK
  <2>2. segs'[e] = [segs[e] EXCEPT !.nattch = v - 1] /\ segs' = [segs EXCEPT ![e] = segs'[e]]
    BY <1>2, <1>3, <1>4, <2>1
  <2>3. segs'[e] \in Seg
    BY <1>4, <2>2 DEF Seg
  <2>4. segs' \in [Ids -> Seg] /\ \A j \in Ids : j # e => segs'[j] = segs[j]
    BY <2>1, <2>2, <2>3
  <2>5. /\ segs'[e].used = segs[e].used /\ segs'[e].size = segs[e].size
        /\ segs'[e].pa = segs[e].pa /\ segs'[e].nattch = v - 1
    BY <1>4, <2>2 DEF Seg
  <2> QED BY <2>4, <2>5
<1>9. TypeOK'
  BY <1>2, <1>5, <1>7 DEF IInv, TypeOK, Pcs
<1>10. LockHeld'
  BY <1>2, <1>5, LockKeep DEF Locked
<1>11. Work(p)' = Work(p)
  BY <1>2, <1>5 DEF Work, DtPcs
<1>12. WorkInv(p)'
  <2>1. \E r \in ready' : Theirs(p, r)' /\ r[2] = id /\ r[3] = n
    BY <1>2, <1>4 DEF Theirs
  <2>2. i <= n
    BY <1>3, <1>4
  <2> QED BY <1>1, <1>2, <1>3, <1>4, <1>5, <2>1, <2>2 DEF WorkInv
<1>15. DtInv(p)'
  BY <1>2, <1>5 DEF IInv, ProcInv, DtInv, DtPcs
<1>16. AtInv(p)'
  BY <1>5 DEF AtInv, AtPcs
<1>17. MapInv(p)'
  BY <1>2, <1>11, MapKeep
<1>19. ASSUME NEW j \in Ids PROVE Counted(j)'
  <2>1. Late(j) = 0
    BY <1>2, <1>4 DEF Late, Midway
  <2>2. Late(j)' = IF j = e THEN 1 ELSE 0
    BY <1>1, <1>2, <1>4, <1>5, <1>6 DEF Late, Midway
  <2>3. IsFiniteSet(Mappings(j)) /\ segs[j].nattch = Cardinality(Mappings(j)) - Late(j)
    BY DEF IInv, Counted
  <2>4. Cardinality(Mappings(j)) \in Nat
    BY <2>3, FS_CardinalityType
  <2>5. Mappings(j)' = Mappings(j)
    BY <1>2 DEF Mappings
  <2>6. segs'[j].nattch = Cardinality(Mappings(j)) - Late(j)'
    <3>1. CASE j = e
      BY <1>1, <1>7, <2>1, <2>2, <2>3, <2>4, <3>1
    <3>2. CASE j # e
      BY <1>7, <2>1, <2>2, <2>3, <2>4, <3>2
    <3> QED BY <3>1, <3>2
  <2> QED BY <2>3, <2>5, <2>6 DEF Counted
<1>20. pc'[p] \notin GetPcs \cup RmPcs
  BY <1>5 DEF GetPcs, RmPcs
<1>21. pc[p] \in Locked
  BY <1>2 DEF Locked
<1> QED BY <1>2, <1>5, <1>7, <1>9, <1>10, <1>12, <1>15, <1>16, <1>17, <1>19,
           <1>20, <1>21, Attaching

LEMMA DtClearStep ==
    ASSUME IInv, NEW p \in Procs, DtClear(p)
    PROVE  IInv'
<1>1. PICK e, n, id, i, b, u :
          /\ e = Entry(p) /\ n = loc[p].n /\ id = loc[p].id /\ i = loc[p].i
          /\ b = loc[p].s /\ u = b + i
  OBVIOUS
<1>2. /\ pc[p] = "dt_clear" /\ pc' = [pc EXCEPT ![p] = "dt_load"] /\ Step(p)
      /\ maps' = [maps EXCEPT ![p][u] = -1]
      /\ UNCHANGED <<segs, last, lock, onList, att, ready, failed, fault>>
  BY <1>1 DEF DtClear, At, Goto
<1>3. i < n
  BY <1>1, <1>2 DEF IInv, ProcInv, WorkInv, DtPcs
<1>4. /\ lock = p /\ lock # NoProc
      /\ id \in Nat /\ n \in Nat /\ i \in Nat /\ b \in Nat
      /\ e = id + i /\ e \in Ids /\ u \in Ids /\ u \in Work(p)
      /\ Work(p) = Span(b, n)
      /\ b + n <= SHMMAXSEG
      /\ \E r \in ready : Theirs(p, r) /\ r[2] = id /\ r[3] = n
  BY <1>1, <1>2, <1>3, LockedWork DEF Locked
<1>5. /\ pc' \in [Procs -> Pcs] /\ pc'[p] = "dt_load"
      /\ \A q \in Procs : q # p => pc'[q] = pc[q]
  <2>1. "dt_load" \in Pcs
    BY DEF Pcs, DtPcs
  <2> QED BY <1>2, <2>1, Goes
<1>6. /\ loc' \in [Procs -> Locals]
      /\ loc'[p].id = id /\ loc'[p].n = n /\ loc'[p].i = i + 1 /\ loc'[p].s = b
      /\ \A q \in Procs : q # p => loc'[q] = loc[q]
  BY <1>1, <1>2, StepLocals
<1>8. /\ maps' \in [Procs -> [Ids -> Ids \cup {-1}]]
      /\ \A q \in Procs : q # p => maps'[q] = maps[q]
      /\ maps'[p][u] = -1
      /\ \A s \in Ids : s # u => maps'[p][s] = maps[p][s]
  <2>1. maps \in [Procs -> [Ids -> Ids \cup {-1}]]
    BY DEF IInv, TypeOK
  <2> QED BY <1>2, <1>4, <2>1
<1>9. TypeOK'
  BY <1>2, <1>5, <1>6, <1>8 DEF IInv, TypeOK, Pcs
<1>10. LockHeld'
  BY <1>2, <1>5, LockKeep DEF Locked
<1>11. Work(p)' = Work(p)
  BY <1>1, <1>2, <1>5, <1>6 DEF Work, DtPcs
<1>12. WorkInv(p)'
  <2>1. \E r \in ready' : Theirs(p, r)' /\ r[2] = id /\ r[3] = n
    BY <1>2, <1>4 DEF Theirs
  <2>2. i + 1 <= n
    BY <1>3, <1>4
  <2> QED BY <1>4, <1>5, <1>6, <2>1, <2>2 DEF WorkInv
<1>13. \A k \in 0 .. n - 1 : b + k \in Ids /\ (b + k = u => k = i) /\ (k = i => b + k = u)
  <2>1. u = b + i /\ SHMMAXSEG \in Nat
    BY <1>1, RaceAssumption
  <2> QED BY <1>4, <2>1 DEF Ids
<1>14. \A k \in 0 .. n - 1 :
          /\ k < i => maps[p][b + k] = -1 /\ att[p][b + k] = -1
          /\ ~(k < i) => maps[p][b + k] = id + k
          /\ k = i => att[p][b + k] = -1
  <2>1. \A k \in 0 .. n - 1 : k = i => ~(k < i)
    BY <1>4
  <2> QED BY <1>1, <1>2, <2>1 DEF IInv, ProcInv, DtInv, DtPcs
<1>15. DtInv(p)'
  <2>1. ASSUME NEW k \in 0 .. n - 1
        PROVE  /\ k < i + 1 => maps'[p][b + k] = -1 /\ att'[p][b + k] = -1
               /\ ~(k < i + 1) => maps'[p][b + k] = id + k
    <3>1. /\ k < i + 1 <=> k < i \/ k = i
          /\ ~(k < i + 1) => ~(k < i) /\ k # i
      BY <1>4
    <3> QED BY <1>2, <1>8, <1>13, <1>14, <3>1
  <2> QED BY <1>5, <1>6, <2>1 DEF DtInv
<1>16. AtInv(p)'
  BY <1>5 DEF AtInv, AtPcs
<1>17. MapInv(p)'
  BY <1>2, <1>4, <1>8, <1>11, MapKeep
<1>18. maps[p][u] = e
  <2>1. i \in 0 .. n - 1 /\ ~(i < i)
    BY <1>3, <1>4
  <2> QED BY <1>4, <1>13, <1>14, <2>1
<1>19. ASSUME NEW j \in Ids PROVE Counted(j)'
  <2>1. Late(j) = IF j = e THEN 1 ELSE 0
    BY <1>1, <1>2, <1>4 DEF Late, Midway
  <2>2. Late(j)' = 0
    BY <1>2, <1>4, <1>5 DEF Late, Midway
  <2>3. IsFiniteSet(Mappings(j)) /\ segs[j].nattch = Cardinality(Mappings(j)) - Late(j)
    BY DEF IInv, Counted
  <2>4. Cardinality(Mappings(j)) \in Nat
    BY <2>3, FS_CardinalityType
  <2>5. CASE j = e
    <3>1. Mappings(j)' = Mappings(j) \ {<<p, u>>}
      <4>1. j # -1
        BY DEF Ids
      <4>2. ASSUME NEW q \in Procs, NEW s \in Ids
            PROVE  maps'[q][s] = j <=> maps[q][s] = j /\ ~(q = p /\ s = u)
        <5>1. CASE q = p /\ s = u
          BY <1>8, <4>1, <5>1
        <5>2. CASE q = p /\ s # u
          BY <1>8, <5>2
        <5>3. CASE q # p
          BY <1>8, <5>3
        <5> QED BY <5>1, <5>2, <5>3
      <4> QED BY <1>4, <4>2, MappingRemoved
    <3>2. <<p, u>> \in Mappings(j)
      BY <1>4, <1>18, <2>5 DEF Mappings
    <3>3. /\ IsFiniteSet(Mappings(j) \ {<<p, u>>})
          /\ Cardinality(Mappings(j) \ {<<p, u>>}) = Cardinality(Mappings(j)) - 1
      BY <2>3, <3>2, FS_RemoveElement
    <3>4. segs'[j].nattch = Cardinality(Mappings(j)) - 1
      BY <1>2, <2>1, <2>3, <2>4, <2>5
    <3> QED BY <2>2, <2>4, <3>1, <3>3, <3>4 DEF Counted
  <2>6. CASE j # e
    <3>1. j # -1
      BY DEF Ids
    <3>2. Mappings(j)' = Mappings(j)
      BY <1>4, <1>8, <1>18, <2>6, <3>1 DEF Mappings
    <3> QED BY <1>2, <2>1, <2>2, <2>3, <2>6, <3>2 DEF Counted
  <2> QED BY <2>5, <2>6
<1>20. pc'[p] \notin GetPcs \cup RmPcs
  BY <1>5 DEF GetPcs, RmPcs
<1>21. pc[p] \in Locked
  BY <1>2 DEF Locked
<1> QED BY <1>2, <1>5, <1>6, <1>8, <1>9, <1>10, <1>12, <1>15, <1>16, <1>17, <1>19,
           <1>20, <1>21, Attaching

----------------------------------------------------------------------------
(* The invariant holds *)

LEMMA InitHolds == Init => IInv
<1> SUFFICES ASSUME Init PROVE IInv
  OBVIOUS
<1>1. /\ SHMMAXSEG \in Nat \ {0} /\ Established \in 0 .. SHMMAXSEG
      /\ NoProc \notin Procs /\ NoFrame \notin Frames
      /\ Span(0, Established) = 0 .. Established - 1
  BY RaceAssumption DEF Span
<1>2. PICK g \in Injection(Span(0, Established), Frames) :
        /\ segs = [j \in Ids |->
                      IF j < Established
                      THEN [used |-> TRUE, size |-> Established, nattch |-> 0, pa |-> g[j]]
                      ELSE FreeSeg]
        /\ onList = [f \in Frames |->
                        IF \E j \in Span(0, Established) : g[j] = f THEN 0 ELSE 1]
  <2>1. Injection(Span(0, Established), Frames) # {}
    BY <1>1, RaceAssumption
  <2> QED BY <2>1 DEF Init
<1>3. /\ last = Established - 1 /\ lock = NoProc
      /\ att = [p \in Procs |-> [s \in Ids |-> -1]]
      /\ maps = [p \in Procs |-> [s \in Ids |-> -1]]
      /\ pc = [p \in Procs |-> "user"] /\ loc = [p \in Procs |-> NoLocals]
      /\ ready = IF Established = 0 THEN {} ELSE {<<NoProc, 0, Established>>}
      /\ failed = {} /\ fault = FALSE
  BY DEF Init
<1>4. /\ \A j \in Span(0, Established) : g[j] \in Frames
      /\ \A j, k \in Span(0, Established) : g[j] = g[k] => j = k
      /\ \A j \in Ids : j < Established <=> j \in Span(0, Established)
  BY <1>1, <1>2 DEF Injection, IsInjective, Ids
<1>5. /\ segs \in [Ids -> Seg]
      /\ \A j \in Ids : /\ segs[j].used <=> j \in Span(0, Established)
                        /\ j \in Span(0, Established) =>
                              segs[j].size = Established /\ segs[j].pa = g[j]
                        /\ segs[j].nattch = 0
  <2>1. FreeSeg \in Seg /\ FreeSeg.used = FALSE /\ FreeSeg.nattch = 0
    BY DEF FreeSeg, Seg
  <2>2. ASSUME NEW j \in Span(0, Established)
        PROVE  [used |-> TRUE, size |-> Established, nattch |-> 0, pa |-> g[j]] \in Seg
    BY <1>1, <1>4 DEF Seg
  <2>3. ASSUME NEW j \in Ids, j \in Span(0, Established)
        PROVE  /\ segs[j] \in Seg /\ segs[j].used /\ segs[j].size = Established
               /\ segs[j].nattch = 0 /\ segs[j].pa = g[j]
    BY <1>2, <1>4, <2>2, <2>3
  <2>4. ASSUME NEW j \in Ids, j \notin Span(0, Established)
        PROVE  segs[j] \in Seg /\ segs[j].used = FALSE /\ segs[j].nattch = 0
    BY <1>2, <1>4, <2>1, <2>4
  <2>5. segs \in [Ids -> Seg]
    BY <1>2, <2>3, <2>4
  <2> QED BY <2>3, <2>4, <2>5
<1>6. TypeOK
  <2>1. last \in -1 .. SHMMAXSEG - 1
    BY <1>1, <1>3
  <2>2. onList \in [Frames -> {0, 1}]
    BY <1>2
  <2> QED BY <1>3, <1>5, <2>1, <2>2, NoLocalsType DEF TypeOK
<1>7. \A r \in ready : Lasting(r)
  <2> SUFFICES ASSUME NEW r \in ready PROVE Lasting(r)
    OBVIOUS
  <2>1. Established # 0 /\ r[1] = NoProc /\ r[2] = 0 /\ r[3] = Established
    BY <1>3
  <2>2. Span(0, Established) \subseteq Ids
    BY <1>1 DEF Ids
  <2> QED BY <1>1, <1>3, <1>5, <2>1, <2>2 DEF Lasting
<1>8. SegmentsDisjoint
  BY <1>3 DEF SegmentsDisjoint
<1>9. FramesHeld
  <2>1. \A j \in Span(0, Established) : onList[g[j]] = 0
    BY <1>2, <1>4
  <2> QED BY <1>4, <1>5, <2>1 DEF FramesHeld
<1>10. LockHeld
  BY <1>1, <1>3 DEF LockHeld, Locked
<1>11. ASSUME NEW p \in Procs PROVE ProcInv(p)
  <2>1. pc[p] = "user"
    BY <1>3
  <2>2. GetInv(p) /\ RmInv(p) /\ WorkInv(p) /\ AtInv(p) /\ DtInv(p)
    BY <2>1 DEF GetInv, RmInv, WorkInv, AtInv, DtInv, GetPcs, RmPcs, AtPcs, DtPcs
  <2>3. MapInv(p)
    BY <1>3 DEF MapInv
  <2> QED BY <2>2, <2>3 DEF ProcInv
<1>12. ASSUME NEW j \in Ids PROVE Counted(j)
  <2>1. j # -1
    BY DEF Ids
  <2>2. Mappings(j) = {}
    BY <1>3, <2>1 DEF Mappings
  <2>3. Late(j) = 0
    BY <1>3 DEF Late, Midway
  <2> QED BY <1>5, <2>2, <2>3, FS_EmptySet DEF Counted
<1> QED BY <1>6, <1>7, <1>8, <1>9, <1>10, <1>11, <1>12 DEF IInv

LEMMA StutterHolds == IInv /\ UNCHANGED vars => IInv'
<1> SUFFICES ASSUME IInv, UNCHANGED vars PROVE IInv'
  OBVIOUS
<1>1. UNCHANGED <<segs, last, lock, onList, att, maps, pc, loc, ready, failed, fault>>
  BY DEF vars
<1>2. TypeOK'
  BY <1>1 DEF IInv, TypeOK
<1>3. (\A r \in ready : Lasting(r))' /\ SegmentsDisjoint' /\ FramesHeld'
  BY <1>1, TableKeep
<1>4. LockHeld'
  BY <1>1 DEF IInv, LockHeld
<1>5. ASSUME NEW p \in Procs PROVE ProcInv(p)'
  <2>1. ProcInv(p) /\ Entry(p)' = Entry(p) /\ Work(p)' = Work(p)
    BY <1>1 DEF IInv, Entry, Work
  <2>2. GetInv(p)' /\ RmInv(p)'
    BY <1>1, <2>1 DEF ProcInv, GetInv, RmInv, Apart
  <2>3. WorkInv(p)' /\ AtInv(p)' /\ DtInv(p)'
    BY <1>1, <2>1 DEF ProcInv, WorkInv, AtInv, DtInv, Theirs
  <2>4. MapInv(p)'
    BY <1>1, <2>1, MapKeep
  <2> QED BY <2>2, <2>3, <2>4 DEF ProcInv
<1>6. ASSUME NEW j \in Ids PROVE Counted(j)'
  <2>1. Late(j)' = Late(j)
    BY <1>1 DEF Late, Entry
  <2> QED BY <1>1, <2>1, CountKeep
<1> QED BY <1>2, <1>3, <1>4, <1>5, <1>6 DEF IInv, Ids

\* The kernel panics only after a shmat that failed.
LEMMA PanicsFailed ==
    ASSUME IInv, NEW p \in Procs,
           HolderPanics(p) \/ (AtFail(p) /\ loc[p].i # 0)
    PROVE  (fault /\ failed # {})'
BY DEF HolderPanics, AtFail

LEMMA PanicStays ==
    ASSUME fault, failed # {}, [Next]_vars
    PROVE  (fault /\ failed # {})'
<1>1. CASE Next
  BY <1>1 DEF Next, Inside, Enter, At, GetFit, GetPage, GetLoad, GetStore, GetReturn,
     AtFind, AtLock, AtLoad, AtFail, AtStore, AtUnlock, DtFind, DtLock, DtLoad, DtStore,
     DtClear, DtUnlock, RmTest, RmFree, RmPa, RmReturn, HolderPanics
<1>2. CASE UNCHANGED vars
  BY <1>2 DEF vars
<1> QED BY <1>1, <1>2

LEMMA StepHolds ==
    ASSUME Private = TRUE, OneCreator
    PROVE  IInv /\ [Next]_vars => IInv' \/ (fault /\ failed # {})'
<1> SUFFICES ASSUME IInv, [Next]_vars PROVE IInv' \/ (fault /\ failed # {})'
  OBVIOUS
<1>1. ASSUME NEW p \in Procs, NEW n \in Needs, GetFit(p, n) PROVE IInv'
  BY <1>1, GetFitStep
<1>2. ASSUME NEW p \in Procs, NEW id \in Ids, AtFind(p, id) \/ RmTest(p, id) PROVE IInv'
  BY <1>2, AtFindStep, RmTestStep
<1>3. ASSUME NEW p \in Procs, NEW s \in Ids, DtFind(p, s) PROVE IInv'
  BY <1>3, DtFindStep
<1>4. ASSUME NEW p \in Procs, Inside(p) PROVE IInv' \/ (fault /\ failed # {})'
  BY <1>4, GetPageStep, GetLoadStep, GetStoreStep, GetReturnStep, LockStep, UnlockStep,
     AtLoadStep, AtFailStep, PanicsFailed, AtStoreStep, DtLoadStep, DtStoreStep,
     DtClearStep, RmFreeStep, RmPaStep, RmReturnStep
     DEF Inside
<1>5. ASSUME NEW p \in Procs, HolderPanics(p) PROVE (fault /\ failed # {})'
  BY <1>5, PanicsFailed
<1> QED BY <1>1, <1>2, <1>3, <1>4, <1>5, StutterHolds DEF Next

----------------------------------------------------------------------------
(* What the invariant says *)

LEMMA ExactCounts == IInv \/ (fault /\ failed # {}) => NattchExact
<1> SUFFICES ASSUME IInv, \A p \in Procs : pc[p] = "user", NEW j \in Ids
             PROVE  segs[j].nattch = Cardinality(Mappings(j))
  BY DEF NattchExact
<1>1. Late(j) = 0
  BY DEF IInv, TypeOK, Late, Midway
<1>2. IsFiniteSet(Mappings(j)) /\ segs[j].nattch = Cardinality(Mappings(j)) - Late(j)
  BY DEF IInv, Counted
<1>3. Cardinality(Mappings(j)) \in Nat
  BY <1>2, FS_CardinalityType
<1> QED BY <1>1, <1>2, <1>3

(***************************************************************************)
(* shmget, shmat, shmdt and removeshm interleaved in any way: as long as   *)
(* programs attach their own segments and the established one only, and    *)
(* one process creates segments, the inductive invariant holds, up to the  *)
(* panic that a failed shmat, which keeps the lock, leads to.              *)
(***************************************************************************)
THEOREM RaceInvariant ==
    ASSUME Private = TRUE, OneCreator
    PROVE  Spec => [](IInv \/ (fault /\ failed # {}))
<1>1. Init => IInv \/ (fault /\ failed # {})
  BY InitHolds
<1>2. (IInv \/ (fault /\ failed # {})) /\ [Next]_vars
          => (IInv \/ (fault /\ failed # {}))'
  BY StepHolds, PanicStays
<1> QED BY <1>1, <1>2, PTL DEF Spec

(***************************************************************************)
(* With no call under way, shm_nattch counts the slots that map the entry: *)
(* the load and the store of every change are under shmpgtable.lock.       *)
(***************************************************************************)
THEOREM RaceCountsExact ==
    ASSUME Private = TRUE, OneCreator
    PROVE  Spec => []NattchExact
BY RaceInvariant, ExactCounts, PTL
============================================================================
