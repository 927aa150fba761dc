----------------------------- MODULE ShmProofs -----------------------------
(***************************************************************************)
(* The shared-memory system calls, for any number of processes, frames,    *)
(* entries and pages per segment.  Typing and frame ownership hold         *)
(* whatever programs ask for; that the segments tile the table, and that   *)
(* slots, mappings and attach counts agree, as long as no call broke a     *)
(* rule of Keeps or ran out of memory.                                     *)
(***************************************************************************)
EXTENDS Shm, FiniteSetTheorems, TLAPS

----------------------------------------------------------------------------
(* The first-fit search *)

\* A non-empty set of natural numbers has a least element.
LEMMA LeastNat ==
    ASSUME NEW T \in SUBSET Nat, T # {}
    PROVE  \E x \in T : \A y \in T : x <= y
<1> DEFINE R == OpToRel(<, Nat)
<1>1. IsWellFoundedOn(R, Nat)
  BY NatLessThanWellFounded
<1>2. PICK x \in T : \A y \in T : ~(<<y, x>> \in R)
  <2> HIDE DEF R
  <2> QED BY <1>1, WFMin
<1>3. \A y \in T : ~(y < x)
  BY <1>2 DEF OpToRel
<1> QED BY <1>3

\* Removing a member of a finite set.
LEMMA OneLess ==
    ASSUME NEW S, NEW T, NEW x, x \in S, IsFiniteSet(S), T = S \ {x}
    PROVE  IsFiniteSet(T) /\ Cardinality(T) = Cardinality(S) - 1
BY FS_RemoveElement

\* ScanResult is -1 or a place that fits.
LEMMA ScanResultFits ==
    ASSUME NEW f, NEW l \in Nat, NEW n \in Nat
    PROVE  \/ ScanResult(f, l, n) = -1
           \/ FitsAt(f, l, n, ScanResult(f, l, n))
<1> DEFINE T == {s \in 0 .. l - 1 : FitsAt(f, l, n, s)}
<1>1. CASE n > 0 /\ \E s \in 0 .. l - 1 : FitsAt(f, l, n, s)
  <2>1. T \in SUBSET Nat /\ T # {}
    BY <1>1
  <2>2. PICK x \in T : \A y \in T : x <= y
    <3> HIDE DEF T
    <3> QED BY <2>1, LeastNat
  <2>3. x \in 0 .. l - 1 /\ IsFirstFit(f, l, n, x)
    BY <2>2 DEF IsFirstFit
  <2>4. IsFirstFit(f, l, n, CHOOSE s \in 0 .. l - 1 : IsFirstFit(f, l, n, s))
    BY <2>3
  <2> QED BY <2>4, <1>1 DEF ScanResult, IsFirstFit
<1>2. CASE ~(n > 0 /\ \E s \in 0 .. l - 1 : FitsAt(f, l, n, s))
  BY <1>2 DEF ScanResult
<1> QED BY <1>1, <1>2

----------------------------------------------------------------------------
(* Typing of the helpers *)

LEMMA PagesType ==
    ASSUME NEW z \in Nat
    PROVE  /\ Pages(z) \in Nat
           /\ PGROUNDUP(z) \in Nat
           /\ Pages(PGROUNDUP(z)) \in Nat
BY SizeAssumption DEF Pages, PGROUNDUP

LEMMA DivPositive ==
    ASSUME NEW a \in Nat, NEW b \in Nat \ {0}, a >= b
    PROVE  a \div b >= 1
OBVIOUS

\* A size of at least SHMMIN takes a page.
LEMMA OnePageAtLeast ==
    ASSUME NEW z \in Nat, ~(z < SHMMIN)
    PROVE  Pages(PGROUNDUP(z)) > 0
<1> DEFINE d == (z + PGSIZE - 1) \div PGSIZE
<1>1. z >= 1 /\ PGSIZE \in Nat \ {0}
  BY SizeAssumption
<1>2. d \in Nat /\ d >= 1
  BY <1>1, DivPositive
<1>3. (d * PGSIZE) \div PGSIZE >= 1
  <2> HIDE DEF d
  <2>1. d * PGSIZE = PGSIZE + (d - 1) * PGSIZE /\ d * PGSIZE \in Nat
    BY <1>1, <1>2
  <2>2. (d - 1) * PGSIZE \in Nat
    BY <1>1, <1>2
  <2>3. d * PGSIZE >= PGSIZE
    BY <2>1, <2>2, <1>1
  <2> QED BY <2>1, <2>3, <1>1, DivPositive
<1>4. Pages(PGROUNDUP(z)) = (d * PGSIZE) \div PGSIZE
  BY DEF Pages, PGROUNDUP
<1>5. Pages(PGROUNDUP(z)) \in Nat
  BY PagesType
<1> HIDE DEF d
<1> QED BY <1>3, <1>4, <1>5

LEMMA SegIndexType ==
    ASSUME StateOK, NEW n \in Nat
    PROVE  /\ SegIndex(n) \in 0 .. SHMMAXSEG
           /\ Appends(n) => SegIndex(n) = last + 1
<1>1. last + 1 \in Nat /\ last + 1 <= SHMMAXSEG
  BY SizeAssumption DEF StateOK
<1>2. FitIndex(n) = -1 \/ FitIndex(n) \in 0 .. last
  BY <1>1, ScanResultFits DEF FitIndex, FitsAt, StateOK
<1> QED BY <1>1, <1>2, SizeAssumption DEF SegIndex, Appends, StateOK

LEMMA FreeSlotType ==
    ASSUME NEW p \in Procs, NEW n \in Nat
    PROVE  FreeSlot(p, n) \in -1 .. SHMMAXSEG - 1
BY ScanResultFits, SizeAssumption DEF FreeSlot, FitsAt

\* A search that found its key found an entry of the table.
LEMMA FirstWithKeyType ==
    ASSUME StateOK, NEW key, HasKey(key)
    PROVE  FirstWithKey(key) \in 0 .. last
<1> DEFINE T == {j \in 0 .. last : segs[j].key = key}
<1>1. T \in SUBSET Nat /\ T # {}
  BY DEF HasKey
<1>2. PICK x \in T : \A y \in T : x <= y
  <2> HIDE DEF T
  <2> QED BY <1>1, LeastNat
<1>3. segs[x].key = key /\ \A k \in 0 .. x - 1 : segs[k].key # key
  BY <1>2 DEF StateOK
<1> QED BY <1>2, <1>3 DEF FirstWithKey

\* A decision to allocate means that the pages fit below SHMMAXSEG.
LEMMA AllocFits ==
    ASSUME StateOK, NEW key, NEW size \in Sizes, NEW flag,
           ShmgetDecision(key, size, flag).status = "alloc"
    PROVE  LET n == Pages(PGROUNDUP(size))
           IN  /\ n \in Nat
               /\ SegIndex(n) \in Nat
               /\ SegIndex(n) + n <= SHMMAXSEG
               /\ Appends(n) => SegIndex(n) = last + 1
<1> DEFINE n == Pages(PGROUNDUP(size))
<1>1. n \in Nat
  BY PagesType, InputAssumption
<1>2. AllocStatus(size) = "alloc"
  BY DEF ShmgetDecision
<1>3. SegIndex(n) + n <= SHMMAXSEG
  BY <1>1, <1>2, SegIndexType, SizeAssumption DEF AllocStatus
<1> QED BY <1>1, <1>3, SegIndexType

LEMMA FramesFinite ==
    ASSUME NEW S \in SUBSET Frames
    PROVE  IsFiniteSet(S) /\ Cardinality(S) \in Nat
BY FS_Subset, FS_CardinalityType, NameAssumption

\* An attach that meets no obstacle stays inside both tables.
LEMMA AttachStaysInside ==
    ASSUME NEW p \in Procs, NEW id \in Ids, NEW s \in Int, NEW n \in Nat,
           AttachStatus(p, id, s, n) = "ok"
    PROVE  \A i \in 0 .. n - 1 : /\ s + i < SHMMAXSEG
                                 /\ id + i < SHMMAXSEG
                                 /\ ~pte[p][s + i].present
<1> DEFINE bad == {i \in 0 .. n - 1 : MapStatus(p, id, s, n, i) # "ok"}
<1>1. bad = {}
  <2> SUFFICES ASSUME bad # {} PROVE FALSE
    OBVIOUS
  <2>1. bad \in SUBSET Nat
    OBVIOUS
  <2>2. \E x \in bad : \A y \in bad : x <= y
    <3> HIDE DEF bad
    <3> QED BY <2>1, LeastNat
  <2>3. (CHOOSE i \in bad : \A j \in bad : i <= j) \in bad
    <3> HIDE DEF bad
    <3> QED BY <2>2
  <2>4. MapStatus(p, id, s, n, CHOOSE i \in bad : \A j \in bad : i <= j) # "ok"
    BY <2>3
  <2> QED BY <2>4 DEF AttachStatus
<1> SUFFICES ASSUME NEW i \in 0 .. n - 1
             PROVE  /\ s + i < SHMMAXSEG
                    /\ id + i < SHMMAXSEG
                    /\ ~pte[p][s + i].present
  OBVIOUS
<1>2. MapStatus(p, id, s, n, i) = "ok"
  BY <1>1
<1> QED BY <1>2, SizeAssumption DEF MapStatus, Ids


----------------------------------------------------------------------------
(* Type correctness, action by action *)

LEMMA NullPaType == NullPa \in PhysAddr /\ NoPte \in PteRec /\ NoAttach \in SlotRec
BY SizeAssumption DEF NullPa, NoPte, NoAttach, Addr, PhysAddr, PteRec, SlotRec

LEMMA V2PType == ASSUME NEW a \in Addr PROVE V2P(a) \in Addr /\ V2P(a).f = a.f
BY DEF V2P, Addr

LEMMA PhysAddrType == PhysAddr \subseteq Addr
BY DEF Addr, PhysAddr

LEMMA InitTypeOK == Init => StateOK
<1> SUFFICES ASSUME Init PROVE StateOK
  OBVIOUS
<1>1. InitSeg \in Seg
  BY NullPaType, SizeAssumption DEF InitSeg, Seg, UInt
<1>2. segs \in [Ids -> Seg]
  BY <1>1 DEF Init
<1>3. att \in [Procs -> [Slots -> SlotRec]] /\ pte \in [Procs -> [Slots -> PteRec]]
  BY NullPaType DEF Init
<1>4. \A p \in Procs, u \in Slots : ~att[p][u].isAttached
  BY DEF Init, NoAttach
<1> QED BY <1>2, <1>3, <1>4, SizeAssumption, NameAssumption DEF Init, StateOK, Faults

LEMMA PanicTypeOK ==
    ASSUME StateOK, NEW reason \in Faults, Panic(reason)
    PROVE  StateOK'
BY DEF StateOK, Panic

LEMMA WithPagesType ==
    ASSUME StateOK, NEW base \in Nat, NEW k \in Nat,
           NEW g \in [0 .. k - 1 -> free], NEW key \in Int, NEW size \in Nat
    PROVE  WithPages(base, k, g, key, size) \in [Ids -> Seg]
<1>1. \A j \in Ids : j \in Span(base, k) => g[j - base] \in Frames
  BY DEF StateOK, Span, Ids
<1>2. \A f \in Frames : V2P(Mem(f)) \in PhysAddr
  BY DEF V2P, Mem, PhysAddr
<1>3. PGROUNDUP(size) \in Nat
  BY PagesType
<1>4. 0 \in UInt
  BY SizeAssumption DEF UInt
<1> QED BY <1>1, <1>2, <1>3, <1>4 DEF WithPages, Seg, StateOK

LEMMA ShmgetCreateTypeOK ==
    ASSUME StateOK, NEW p \in Procs, NEW key \in Keys, NEW size \in Sizes, NEW flag,
           ShmgetCreate(p, key, size, flag)
    PROVE  StateOK'
<1> DEFINE n == Pages(PGROUNDUP(size))
<1>1. n \in Nat /\ SegIndex(n) \in Nat /\ SegIndex(n) + n <= SHMMAXSEG
      /\ (Appends(n) => SegIndex(n) = last + 1)
  BY AllocFits DEF ShmgetCreate
<1>2. segs' \in [Ids -> Seg] /\ free' \in SUBSET Frames
  <2>1. PICK g \in Injection(0 .. n - 1, free) :
            segs' = WithPages(SegIndex(n), n, g, key, size) /\ free' = free \ Range(g)
    BY DEF ShmgetCreate
  <2>2. g \in [0 .. n - 1 -> free]
    BY <2>1 DEF Injection
  <2>3. key \in Int /\ size \in Nat
    BY InputAssumption
  <2>4. WithPages(SegIndex(n), n, g, key, size) \in [Ids -> Seg]
    BY <1>1, <2>2, <2>3, WithPagesType
  <2> QED BY <2>1, <2>4 DEF StateOK
<1>3. last' \in -1 .. SHMMAXSEG - 1
  <2>1. last' = IF Appends(n) THEN last + n ELSE last
    BY DEF ShmgetCreate
  <2>2. last \in -1 .. SHMMAXSEG - 1
    BY DEF StateOK
  <2> HIDE DEF n
  <2>3. CASE Appends(n)
    BY <2>1, <2>2, <2>3, <1>1, SizeAssumption
  <2>4. CASE ~Appends(n)
    BY <2>1, <2>2, <2>4
  <2> QED BY <2>3, <2>4
<1>4. info' \in [used_ids : 0 .. MaxCreates, shm_tot : 0 .. SHMMAXSEG]
  BY <1>3, SizeAssumption DEF ShmgetCreate, StateOK
<1>5. live' \in SUBSET Ids
  <2>1. n > 0
    <3>1. AllocStatus(size) = "alloc"
      BY DEF ShmgetCreate, ShmgetDecision
    <3>2. size \in Nat /\ ~(size < SHMMIN)
      BY <3>1, InputAssumption DEF AllocStatus
    <3> QED BY <3>2, OnePageAtLeast
  <2>2. SegIndex(n) \in Ids
    <3> HIDE DEF n
    <3> QED BY <1>1, <2>1, SizeAssumption DEF Ids
  <2> QED BY <2>2 DEF ShmgetCreate, StateOK
<1> QED BY <1>2, <1>3, <1>4, <1>5 DEF ShmgetCreate, StateOK


LEMMA ShmgetNoMemoryTypeOK ==
    ASSUME StateOK, NEW p \in Procs, NEW key \in Keys, NEW size \in Sizes, NEW flag,
           ShmgetNoMemory(p, key, size, flag)
    PROVE  StateOK'
<1> DEFINE n == Pages(PGROUNDUP(size))
           k == Cardinality(free)
           newlast == IF Appends(n) THEN last + k ELSE last
<1>1. n \in Nat /\ SegIndex(n) \in Nat /\ SegIndex(n) + n <= SHMMAXSEG
      /\ (Appends(n) => SegIndex(n) = last + 1)
  BY AllocFits DEF ShmgetNoMemory
<1>2. k \in Nat /\ k < n
  BY FramesFinite DEF ShmgetNoMemory, StateOK
<1>3. CASE k < newlast
  <2>1. Panic("wild")
    BY <1>3 DEF ShmgetNoMemory
  <2> QED BY <2>1, PanicTypeOK DEF Faults
<1>4. CASE ~(k < newlast)
  <2>1. PICK g \in Injection(0 .. k - 1, free) :
            segs' = [j \in Ids |->
                        IF j \in newlast + 1 .. k
                        THEN UnmappedSeg(WithPages(SegIndex(n), k, g, key, size)[j])
                        ELSE WithPages(SegIndex(n), k, g, key, size)[j]]
    BY <1>4 DEF ShmgetNoMemory
  <2>2. free' = {} /\ last' = newlast
        /\ UNCHANGED <<lock, info, state, att, pte, pgtab, other, fault, live, attaches>>
    BY <1>4 DEF ShmgetNoMemory
  <2>3. last' \in -1 .. SHMMAXSEG - 1
    <3>1. last \in -1 .. SHMMAXSEG - 1
      BY DEF StateOK
    <3>2. last' = newlast
      BY <2>2
    <3> HIDE DEF n, k
    <3> QED BY <1>1, <1>2, <3>1, <3>2, SizeAssumption
  <2>4. segs' \in [Ids -> Seg]
    <3> DEFINE m == WithPages(SegIndex(n), k, g, key, size)
    <3>1. g \in [0 .. k - 1 -> free] /\ key \in Int /\ size \in Nat
      BY InputAssumption DEF Injection
    <3>2. m \in [Ids -> Seg]
      BY <1>1, <1>2, <3>1, WithPagesType
    <3>3. \A x \in Seg : UnmappedSeg(x) \in Seg
      <4>1. NullPa \in PhysAddr /\ FreeKey \in Int /\ {} \in SUBSET ModeBits /\ 0 \in Nat
        BY NullPaType DEF FreeKey
      <4> QED BY <4>1 DEF UnmappedSeg, Seg
    <3>4. segs' = [j \in Ids |-> IF j \in newlast + 1 .. k THEN UnmappedSeg(m[j]) ELSE m[j]]
      BY <2>1
    <3> HIDE DEF m, newlast
    <3> QED BY <3>2, <3>3, <3>4
  <2> QED BY <2>2, <2>3, <2>4 DEF StateOK
<1> QED BY <1>3, <1>4

LEMMA AttachPagesTypeOK ==
    ASSUME StateOK, NEW p \in Procs, NEW id \in Ids, NEW s \in Slots, NEW n \in Nat,
           NEW flag \in AtFlags,
           AttachStatus(p, id, s, n) = "ok", AttachPages(p, id, s, n, flag)
    PROVE  StateOK'
<1>1. Attached(id, n) \in [Ids -> Seg]
  <2>1. \A c \in UInt : (c + 1) % UINTMOD \in UInt
    BY SizeAssumption DEF UInt
  <2>2. \A x \in Seg : [x EXCEPT !.nattch = (@ + 1) % UINTMOD] \in Seg
    BY <2>1 DEF Seg
  <2> QED BY <2>2 DEF Attached, StateOK
<1>2. MappedPtes(p, id, s, n, flag) \in [Slots -> PteRec]
  <2> SUFFICES ASSUME NEW u \in Slots, u \in Span(s, n)
               PROVE  V2P(segs[id + (u - s)].pa) \in Addr
    BY DEF MappedPtes, StateOK, PteRec
  <2>1. u - s \in 0 .. n - 1 /\ s \in Int
    BY DEF Span, Slots, Ids
  <2>2. id + (u - s) < SHMMAXSEG
    BY <2>1, AttachStaysInside
  <2>4. id + (u - s) \in Ids
    BY <2>1, <2>2, SizeAssumption DEF Ids
  <2>3. segs[id + (u - s)].pa \in Addr
    BY <2>4, PhysAddrType DEF StateOK, Seg
  <2> QED BY <2>3, V2PType
<1>3. [isAttached |-> TRUE, shmid |-> id] \in SlotRec
  BY DEF SlotRec, Ids
<1>4. att' \in [Procs -> [Slots -> SlotRec]]
  BY <1>3 DEF AttachPages, StateOK
<1>5. \A q \in Procs, u \in Slots : att'[q][u].isAttached => att'[q][u].shmid # -1
  <2> SUFFICES ASSUME NEW q \in Procs, NEW u \in Slots, att'[q][u].isAttached
               PROVE  att'[q][u].shmid # -1
    OBVIOUS
  <2>1. CASE q = p /\ u \in Span(s, n)
    BY <2>1 DEF AttachPages, StateOK, Ids
  <2>2. CASE ~(q = p /\ u \in Span(s, n))
    BY <2>2 DEF AttachPages, StateOK
  <2> QED BY <2>1, <2>2
<1>6. pgtab' \in [Procs -> [Pts -> Frames \cup {NoFrame}]] /\ free' \in SUBSET Frames
  <2>1. PICK g \in Injection(MissingPts(p, s, n), free) :
          /\ pgtab' = [pgtab EXCEPT ![p] = [t \in Pts |->
                          IF t \in MissingPts(p, s, n) THEN g[t] ELSE pgtab[p][t]]]
          /\ free' = free \ Range(g)
    BY DEF AttachPages
  <2>2. g \in [MissingPts(p, s, n) -> free]
    BY DEF Injection
  <2> QED BY <2>1, <2>2 DEF StateOK
<1>7. attaches' \in [Procs -> SUBSET AttachRec]
  <2>1. [slot |-> s, shmid |-> id] \in AttachRec
    BY DEF AttachRec
  <2> QED BY <2>1 DEF AttachPages, StateOK
<1>8. segs' \in [Ids -> Seg] /\ pte' \in [Procs -> [Slots -> PteRec]]
  BY <1>1, <1>2 DEF AttachPages, StateOK
<1> QED BY <1>4, <1>5, <1>6, <1>7, <1>8 DEF AttachPages, StateOK

LEMMA AttachFailsTypeOK ==
    ASSUME StateOK, NEW p \in Procs, NEW id \in Ids, NEW s \in Slots,
           AttachFails(p, id, s)
    PROVE  StateOK'
<1>1. [isAttached |-> TRUE, shmid |-> id] \in SlotRec /\ id # -1
  BY DEF SlotRec, Ids
<1>2. att' \in [Procs -> [Slots -> SlotRec]]
  BY <1>1 DEF AttachFails, StateOK
<1>3. \A q \in Procs, u \in Slots : att'[q][u].isAttached => att'[q][u].shmid # -1
  BY <1>1 DEF AttachFails, StateOK
<1> QED BY <1>2, <1>3 DEF AttachFails, StateOK

LEMMA AttachStatusType ==
    ASSUME NEW p, NEW id, NEW s, NEW n
    PROVE  AttachStatus(p, id, s, n) \in {"ok", "ENOMEM", "remap", "kfree", "wild"}
BY DEF AttachStatus, MapStatus

LEMMA ShmatTypeOK ==
    ASSUME StateOK, NEW p \in Procs, NEW id \in Ids, NEW addr \in AtSlots \cup {NULL},
           NEW flag \in AtFlags, Shmat(p, id, addr, flag)
    PROVE  StateOK'
<1> DEFINE n == Pages(segs[id].segsz)
           s == IF addr = NULL THEN FreeSlot(p, n) ELSE addr
<1>1. n \in Nat
  BY PagesType DEF StateOK, Seg
<1>2. CASE addr # NULL /\ flag # SHM_RND
  BY <1>2, PanicTypeOK DEF Shmat, Faults
<1>3. CASE ~(addr # NULL /\ flag # SHM_RND)
  <2>1. s \in Slots
    <3>1. CASE addr = NULL
      <4>1. FreeSlot(p, n) \in -1 .. SHMMAXSEG - 1
        BY <1>1, FreeSlotType
      <4>2. FreeSlot(p, n) # -1
        BY <3>1, <1>3 DEF Shmat
      <4> QED BY <3>1, <4>1, <4>2 DEF Slots, Ids
    <3>2. CASE addr # NULL
      BY <3>2, InputAssumption DEF Slots, Ids
    <3> QED BY <3>1, <3>2
  <2>2. CASE AttachStatus(p, id, s, n) = "ok"
    BY <2>2, <2>1, <1>1, <1>3, AttachPagesTypeOK DEF Shmat
  <2>3. CASE AttachStatus(p, id, s, n) = "ENOMEM"
    BY <2>3, <2>1, <1>1, <1>3, AttachFailsTypeOK DEF Shmat
  <2>4. CASE AttachStatus(p, id, s, n) \in {"remap", "kfree", "wild"}
    <3>1. Panic(AttachStatus(p, id, s, n))
      BY <2>4, <1>3 DEF Shmat
    <3> QED BY <3>1, <2>4, PanicTypeOK DEF Faults
  <2> QED BY <2>2, <2>3, <2>4, AttachStatusType
<1> QED BY <1>2, <1>3


LEMMA DetachPagesTypeOK ==
    ASSUME StateOK, NEW p \in Procs, NEW id \in Ids, NEW s \in Slots, NEW n \in Nat,
           DetachPages(p, id, s, n)
    PROVE  StateOK'
<1>1. segs' \in [Ids -> Seg]
  <2>1. \A c \in UInt : (c + UINTMOD - 1) % UINTMOD \in UInt
    BY SizeAssumption DEF UInt
  <2>2. \A x \in Seg, j \in Ids :
           [x EXCEPT
              !.nattch = IF j \in Span(id, n) THEN (@ + UINTMOD - 1) % UINTMOD ELSE @,
              !.mode = IF j = id THEN @ \cup {"SHM_DEST"} ELSE @] \in Seg
    BY <2>1 DEF Seg, ModeBits
  <2> QED BY <2>2 DEF DetachPages, Detached, StateOK
<1>2. ReleasedSlots(p, s, n) \in [Slots -> SlotRec]
  <2>1. \A x \in SlotRec : [x EXCEPT !.isAttached = FALSE] \in SlotRec
    BY DEF SlotRec
  <2> QED BY <2>1, NullPaType DEF ReleasedSlots, StateOK
<1>3. att' \in [Procs -> [Slots -> SlotRec]]
  BY <1>2 DEF DetachPages, StateOK
<1>4. \A q \in Procs, u \in Slots : att'[q][u].isAttached => att'[q][u].shmid # -1
  <2> SUFFICES ASSUME NEW q \in Procs, NEW u \in Slots, att'[q][u].isAttached
               PROVE  att'[q][u].shmid # -1
    OBVIOUS
  <2>1. att'[q][u] = IF q = p THEN ReleasedSlots(p, s, n)[u] ELSE att[q][u]
    BY DEF DetachPages, StateOK
  <2>2. att'[q][u] = att[q][u]
    BY <2>1 DEF ReleasedSlots, NoAttach, StateOK, SlotRec
  <2> QED BY <2>2 DEF StateOK
<1>5. pte' \in [Procs -> [Slots -> PteRec]]
  BY NullPaType DEF DetachPages, StateOK
<1>6. attaches' \in [Procs -> SUBSET AttachRec]
  BY DEF DetachPages, StateOK
<1> QED BY <1>1, <1>3, <1>4, <1>5, <1>6 DEF DetachPages, StateOK

LEMMA ShmdtTypeOK ==
    ASSUME StateOK, NEW p \in Procs, NEW s \in Slots, Shmdt(p, s)
    PROVE  StateOK'
<1> DEFINE id == att[p][s].shmid
           n == Pages(segs[id].segsz)
<1>1. id \in Ids
  BY DEF Shmdt, StateOK, SlotRec, Ids
<1>2. n \in Nat
  BY <1>1, PagesType DEF StateOK, Seg
<1>3. DetachStatus(p, id, s, n) \in {"ok", "wild", "clearmapping"}
  BY DEF DetachStatus, UnmapStatus
<1>4. CASE DetachStatus(p, id, s, n) = "ok"
  BY <1>4, <1>1, <1>2, DetachPagesTypeOK DEF Shmdt
<1>5. CASE DetachStatus(p, id, s, n) # "ok"
  <2>1. Panic(DetachStatus(p, id, s, n))
    BY <1>5 DEF Shmdt
  <2> QED BY <2>1, <1>3, <1>5, PanicTypeOK DEF Faults
<1> QED BY <1>4, <1>5

LEMMA ShmctlSetTypeOK ==
    ASSUME StateOK, NEW p \in Procs, NEW id \in Ids, NEW buf \in SetBufs,
           ShmctlSet(p, id, buf)
    PROVE  StateOK'
<1> DEFINE n == Pages(buf.segsz)
<1>1. CASE id + n > SHMMAXSEG
  BY <1>1, PanicTypeOK DEF ShmctlSet, Faults
<1>2. CASE ~(id + n > SHMMAXSEG)
  <2>1. buf \in [key : Int, mode : SUBSET ModeBits, segsz : Nat, nattch : UInt]
    <3>1. SetBufs \subseteq [key : Int, mode : SUBSET {"SHM_R", "SHM_W", "SHM_DEST"},
                             segsz : Nat, nattch : 0 .. UINTMOD - 1]
      BY InputAssumption
    <3> QED BY <3>1 DEF ModeBits, UInt
  <2>2. \A x \in Seg : [x EXCEPT !.key = buf.key, !.mode = buf.mode,
                                 !.segsz = buf.segsz, !.nattch = buf.nattch] \in Seg
    BY <2>1 DEF Seg
  <2>3. segs' \in [Ids -> Seg]
    <3>1. segs' = [j \in Ids |->
             IF j \in Span(id, n)
             THEN [segs[j] EXCEPT !.key = buf.key, !.mode = buf.mode,
                                  !.segsz = buf.segsz, !.nattch = buf.nattch]
             ELSE segs[j]]
      BY <1>2 DEF ShmctlSet
    <3> QED BY <3>1, <2>2 DEF StateOK
  <2> QED BY <1>2, <2>3 DEF ShmctlSet, StateOK
<1> QED BY <1>1, <1>2

LEMMA ShmctlRmidTypeOK ==
    ASSUME StateOK, NEW p \in Procs, NEW id \in Ids, ShmctlRmid(p, id)
    PROVE  StateOK'
<1> DEFINE n == Pages(segs[id].segsz)
<1>1. CASE id + n > SHMMAXSEG
  BY <1>1, PanicTypeOK DEF ShmctlRmid, Faults
<1>2. CASE ~(id + n > SHMMAXSEG)
  <2>1. \A x \in Seg : [x EXCEPT !.mode = @ \cup {"SHM_DEST"}] \in Seg
    BY DEF Seg, ModeBits
  <2>2. segs' \in [Ids -> Seg]
    <3>1. segs' = [j \in Ids |->
             IF j \in Span(id, n) THEN [segs[j] EXCEPT !.mode = @ \cup {"SHM_DEST"}]
             ELSE segs[j]]
      BY <1>2 DEF ShmctlRmid
    <3> QED BY <3>1, <2>1 DEF StateOK
  <2> QED BY <1>2, <2>2 DEF ShmctlRmid, StateOK
<1> QED BY <1>1, <1>2

\* What the addresses kfree is given stand for.
LEMMA FreedFrames ==
    ASSUME StateOK, NEW id \in Ids, NEW n \in Nat, ~(id + n > SHMMAXSEG),
           \A j \in Span(id, n) : segs[j].pa # NullPa
    PROVE  \A j \in Span(id, n) : /\ j \in Ids
                                  /\ V2P(segs[j].pa).f = segs[j].pa.f
                                  /\ segs[j].pa.f \in Frames
<1> SUFFICES ASSUME NEW j \in Span(id, n)
             PROVE  /\ j \in Ids
                    /\ V2P(segs[j].pa).f = segs[j].pa.f
                    /\ segs[j].pa.f \in Frames
  OBVIOUS
<1>1. j \in Ids
  BY SizeAssumption DEF Span, Ids
<1>2. segs[j].pa \in PhysAddr /\ segs[j].pa # NullPa
  BY <1>1 DEF StateOK, Seg
<1>3. segs[j].pa.f \in Frames
  BY <1>2 DEF PhysAddr, NullPa
<1> QED BY <1>1, <1>2, <1>3, V2PType, PhysAddrType


LEMMA RemoveIdTypeOK ==
    ASSUME StateOK, NEW id \in Ids, RemoveId(id)
    PROVE  StateOK'
<1> DEFINE n == Pages(segs[id].segsz)
           frees == segs[id].nattch = 0 /\ (n > 0 \/ "SHM_DEST" \in segs[id].mode)
<1>1. n \in Nat
  BY PagesType DEF StateOK, Seg
<1>2. CASE id + n > SHMMAXSEG
  BY <1>2, PanicTypeOK DEF RemoveId, Faults
<1>3. CASE ~(id + n > SHMMAXSEG) /\ frees
  <2>1. FreeshmPages(id, n)
    BY <1>3 DEF RemoveId
  <2>2. CASE \E j \in Span(id, n) : segs[j].pa = NullPa
    BY <2>1, <2>2, PanicTypeOK DEF FreeshmPages, Faults
  <2>3. CASE \A j \in Span(id, n) : segs[j].pa # NullPa
    <3>1. free' \in SUBSET Frames
      <4>1. \A j \in Span(id, n) : V2P(segs[j].pa).f \in Frames
        BY <1>1, <1>3, <2>3, FreedFrames
      <4>2. free' = free \cup {V2P(segs[j].pa).f : j \in Span(id, n)}
        BY <2>1, <2>3 DEF FreeshmPages
      <4> QED BY <4>1, <4>2 DEF StateOK
    <3>2. FreedSeg \in Seg
      <4>1. FreeKey \in Int /\ {} \in SUBSET ModeBits /\ 0 \in Nat
        BY DEF FreeKey
      <4>2. 0 \in UInt
        BY SizeAssumption DEF UInt
      <4> QED BY <4>1, <4>2, NullPaType DEF FreedSeg, Seg
    <3>3. segs' \in [Ids -> Seg]
      BY <2>1, <2>3, <3>2 DEF FreeshmPages, Freed, StateOK
    <3>4. live' \in SUBSET Ids
      BY <2>1, <2>3 DEF FreeshmPages, StateOK
    <3> QED BY <2>1, <2>3, <3>1, <3>3, <3>4 DEF FreeshmPages, StateOK
  <2> QED BY <2>2, <2>3
<1>4. CASE ~(id + n > SHMMAXSEG) /\ ~frees
  <2>1. segs' = [j \in Ids |->
           IF j \in Span(id, n) THEN [segs[j] EXCEPT !.mode = {"SHM_DEST"}] ELSE segs[j]]
    BY <1>4 DEF RemoveId
  <2>2. \A x \in Seg : [x EXCEPT !.mode = {"SHM_DEST"}] \in Seg
    BY DEF Seg, ModeBits
  <2>3. segs' \in [Ids -> Seg]
    BY <2>1, <2>2 DEF StateOK
  <2>4. UNCHANGED <<last, lock, info, state, att, pte, pgtab, free, other, fault, live,
                    attaches>>
    BY <1>4 DEF RemoveId
  <2> QED BY <2>3, <2>4 DEF StateOK
<1> QED BY <1>2, <1>3, <1>4

LEMMA RemoveshmTypeOK ==
    ASSUME StateOK, NEW p \in Procs, NEW id \in RemoveIds, Removeshm(p, id)
    PROVE  StateOK'
<1>1. CASE id \in Ids
  BY <1>1, RemoveIdTypeOK DEF Removeshm
<1>2. CASE id \notin Ids
  BY <1>2, PanicTypeOK DEF Removeshm, Faults
<1> QED BY <1>1, <1>2

LEMMA RemoveshmKeyTypeOK ==
    ASSUME StateOK, NEW p \in Procs, NEW key \in Keys, RemoveshmKey(p, key)
    PROVE  StateOK'
<1>1. FirstWithKey(key) \in 0 .. last
  BY FirstWithKeyType DEF RemoveshmKey
<1>2. FirstWithKey(key) \in Ids
  BY <1>1, SizeAssumption DEF StateOK, Ids
<1> QED BY <1>2, RemoveIdTypeOK DEF RemoveshmKey

\* The number of runs fork and exec see is a natural number.
LEMMA TouchesType ==
    ASSUME NEW p \in Procs, NEW S \in SUBSET Slots, NEW j \in Ids
    PROVE  Touches(p, S, j) \in Nat
<1>1. IsFiniteSet(Slots)
  BY FS_Interval, SizeAssumption DEF Slots, Ids
<1>2. {u \in RunStarts(p, S) : j \in TouchedBy(p, u)} \in SUBSET Slots
  BY DEF RunStarts
<1> QED BY <1>1, <1>2, FS_Subset, FS_CardinalityType DEF Touches

LEMMA ForkTypeOK ==
    ASSUME StateOK, NEW p \in Procs, NEW c \in Procs, Fork(p, c)
    PROVE  StateOK'
<1> DEFINE S == IF p = Root THEN {} ELSE SlotsForked(p)
<1>1. CASE OverrunsTable(p, S)
  BY <1>1, PanicTypeOK DEF Fork, Faults
<1>2. CASE ~OverrunsTable(p, S)
  <2>1. segs' = [j \in Ids |-> [segs[j] EXCEPT !.nattch = (@ + Touches(p, S, j)) % UINTMOD]]
    BY <1>2 DEF Fork
  <2>2. \A x \in Seg, m \in Nat : [x EXCEPT !.nattch = (@ + m) % UINTMOD] \in Seg
    <3>1. \A a \in UInt, m \in Nat : (a + m) % UINTMOD \in UInt
      BY SizeAssumption DEF UInt
    <3> QED BY <3>1 DEF Seg
  <2>3. \A j \in Ids : Touches(p, S, j) \in Nat
    BY TouchesType DEF SlotsForked
  <2>4. segs' \in [Ids -> Seg]
    BY <2>1, <2>2, <2>3 DEF StateOK
  <2>5. att' = [att EXCEPT ![c] = IF p = Root THEN [u \in Slots |-> NoAttach] ELSE att[p]]
    BY <1>2 DEF Fork
  <2>6. att' \in [Procs -> [Slots -> SlotRec]]
    BY <2>5, NullPaType DEF StateOK
  <2>7. \A q \in Procs, u \in Slots : att'[q][u].isAttached => att'[q][u].shmid # -1
    BY <2>5 DEF StateOK, NoAttach
  <2>8. state' \in [Procs -> {"unused", "running", "zombie"}]
        /\ attaches' \in [Procs -> SUBSET AttachRec]
    BY <1>2 DEF Fork, StateOK
  <2> QED BY <1>2, <2>4, <2>6, <2>7, <2>8 DEF Fork, StateOK
<1> QED BY <1>1, <1>2

LEMMA FreeVmTypeOK ==
    ASSUME StateOK, NEW p \in Procs, FreeVm(p)
    PROVE  /\ pte' \in [Procs -> [Slots -> PteRec]]
           /\ pgtab' \in [Procs -> [Pts -> Frames \cup {NoFrame}]]
           /\ free' \in SUBSET Frames
<1>1. pte' \in [Procs -> [Slots -> PteRec]]
  BY NullPaType DEF FreeVm, StateOK
<1>2. pgtab' \in [Procs -> [Pts -> Frames \cup {NoFrame}]]
  BY DEF FreeVm, StateOK
<1>3. free' \in SUBSET Frames
  BY DEF FreeVm, PtFrames, StateOK
<1> QED BY <1>1, <1>2, <1>3

LEMMA ExecTypeOK ==
    ASSUME StateOK, NEW p \in Procs, Exec(p)
    PROVE  StateOK'
<1> DEFINE S == SlotsAttached(p)
<1>1. CASE OverrunsTable(p, S)
  BY <1>1, PanicTypeOK DEF Exec, Faults
<1>2. CASE ~OverrunsTable(p, S)
  <2>1. segs' = [j \in Ids |->
           [segs[j] EXCEPT !.nattch =
               (@ + UINTMOD * Touches(p, S, j) - Touches(p, S, j)) % UINTMOD]]
    BY <1>2 DEF Exec
  <2>2. \A x \in Seg, m \in Nat :
           [x EXCEPT !.nattch = (@ + UINTMOD * m - m) % UINTMOD] \in Seg
    <3>1. \A a \in UInt, m \in Nat : (a + UINTMOD * m - m) % UINTMOD \in UInt
      <4> SUFFICES ASSUME NEW a \in UInt, NEW m \in Nat
                   PROVE  (a + UINTMOD * m - m) % UINTMOD \in UInt
        OBVIOUS
      <4> DEFINE b == a + UINTMOD * m - m
      <4>1. b \in Int
        BY SizeAssumption DEF UInt
      <4> HIDE DEF b
      <4>2. b % UINTMOD \in UInt
        BY <4>1, SizeAssumption DEF UInt
      <4> QED BY <4>2 DEF b
    <3> QED BY <3>1 DEF Seg
  <2>3. \A j \in Ids : Touches(p, S, j) \in Nat
    BY TouchesType DEF SlotsAttached
  <2>4. segs' \in [Ids -> Seg]
    BY <2>1, <2>2, <2>3 DEF StateOK
  <2>5. att' = [att EXCEPT ![p] = [u \in Slots |-> IF u \in S THEN NoAttach ELSE att[p][u]]]
    BY <1>2 DEF Exec
  <2>6. att' \in [Procs -> [Slots -> SlotRec]]
    BY <2>5, NullPaType DEF StateOK
  <2>7. \A q \in Procs, u \in Slots : att'[q][u].isAttached => att'[q][u].shmid # -1
    BY <2>5 DEF StateOK, NoAttach
  <2>8. FreeVm(p) /\ attaches' \in [Procs -> SUBSET AttachRec]
    BY <1>2 DEF Exec, StateOK
  <2> QED BY <1>2, <2>4, <2>6, <2>7, <2>8, FreeVmTypeOK DEF Exec, StateOK
<1> QED BY <1>1, <1>2

LEMMA OtherTypeOK ==
    ASSUME StateOK,
           \/ \E p \in Procs : Exit(p) \/ Wait(p) \/ HolderPanics(p)
           \/ KallocOther \/ KfreeOther \/ Halted
    PROVE  StateOK'
<1>1. ASSUME NEW p \in Procs, Exit(p) PROVE StateOK'
  BY <1>1 DEF Exit, StateOK
<1>2. ASSUME NEW p \in Procs, Wait(p) PROVE StateOK'
  BY <1>2, FreeVmTypeOK DEF Wait, StateOK
<1>3. ASSUME NEW p \in Procs, HolderPanics(p) PROVE StateOK'
  BY <1>3, PanicTypeOK DEF HolderPanics, Faults
<1>4. CASE KallocOther
  BY <1>4 DEF KallocOther, StateOK
<1>5. CASE KfreeOther
  BY <1>5 DEF KfreeOther, StateOK
<1>6. CASE Halted
  BY <1>6 DEF Halted, vars, StateOK
<1> QED BY <1>1, <1>2, <1>3, <1>4, <1>5, <1>6

LEMMA NextTypeOK == StateOK /\ [Next]_vars => StateOK'
<1> SUFFICES ASSUME StateOK, [Next]_vars PROVE StateOK'
  OBVIOUS
<1>1. CASE UNCHANGED vars
  BY <1>1 DEF vars, StateOK
<1>2. CASE Next
  BY <1>2, ShmgetCreateTypeOK, ShmgetNoMemoryTypeOK, ShmatTypeOK, ShmdtTypeOK,
     ShmctlSetTypeOK, ShmctlRmidTypeOK, RemoveshmTypeOK, RemoveshmKeyTypeOK,
     ForkTypeOK, ExecTypeOK, OtherTypeOK
     DEF Next
<1> QED BY <1>1, <1>2

LEMMA StateOKHolds == Spec => []StateOK
BY InitTypeOK, NextTypeOK, PTL DEF Spec

\* Every step counts at most one stray, and none is taken back.
LEMMA NextStrays ==
    ASSUME strays \in 0 .. MaxStrays, [Next]_vars
    PROVE  strays' \in 0 .. MaxStrays /\ (strays' = 0 => strays = 0)
<1>1. UNCHANGED strays \/ \E rule \in BOOLEAN : Keeps(rule)
  <2>1. ASSUME NEW p \in Procs, NEW key \in Keys, NEW size \in Sizes, NEW flag,
               ShmgetCreate(p, key, size, flag) \/ ShmgetNoMemory(p, key, size, flag)
        PROVE  \E rule \in BOOLEAN : Keeps(rule)
    BY <2>1 DEF ShmgetCreate, ShmgetNoMemory
  <2>2. ASSUME NEW p \in Procs, NEW id \in Ids, NEW addr \in AtSlots \cup {NULL},
               NEW flag \in AtFlags, Shmat(p, id, addr, flag)
        PROVE  \E rule \in BOOLEAN : Keeps(rule)
    <3> DEFINE n == Pages(segs[id].segsz)
               s == IF addr = NULL THEN FreeSlot(p, n) ELSE addr
               r == /\ MayAttach(p, id, addr, n, flag)
                    /\ Cardinality(MissingPts(p, s, n)) <= Cardinality(free)
    <3>1. Keeps(r)
      BY <2>2 DEF Shmat
    <3>2. r \in BOOLEAN
      OBVIOUS
    <3> QED BY <3>1, <3>2
  <2>3. ASSUME NEW p \in Procs, NEW s \in Slots, Shmdt(p, s)
        PROVE  \E rule \in BOOLEAN : Keeps(rule)
    BY <2>3 DEF Shmdt, MayDetach
  <2>4. ASSUME NEW p \in Procs, NEW id \in Ids,
               \/ \E buf \in SetBufs : ShmctlSet(p, id, buf)
               \/ ShmctlRmid(p, id)
        PROVE  \E rule \in BOOLEAN : Keeps(rule)
    <3>1. ASSUME NEW buf \in SetBufs, ShmctlSet(p, id, buf)
          PROVE  \E rule \in BOOLEAN : Keeps(rule)
      <4>1. Keeps(MaySet(id, buf)) /\ MaySet(id, buf) \in BOOLEAN
        BY <3>1 DEF ShmctlSet, MaySet
      <4> QED BY <4>1
    <3>2. ASSUME ShmctlRmid(p, id) PROVE \E rule \in BOOLEAN : Keeps(rule)
      <4> DEFINE r == id \in live
      <4>1. Keeps(r) /\ r \in BOOLEAN
        BY <3>2 DEF ShmctlRmid
      <4> HIDE DEF r
      <4> QED BY <4>1
    <3> QED BY <2>4, <3>1, <3>2
  <2>5. ASSUME NEW p \in Procs,
               \/ \E id \in RemoveIds : Removeshm(p, id)
               \/ \E key \in Keys : RemoveshmKey(p, key)
        PROVE  \E rule \in BOOLEAN : Keeps(rule)
    <3>1. ASSUME NEW id \in RemoveIds, Removeshm(p, id)
          PROVE  \E rule \in BOOLEAN : Keeps(rule)
      <4> DEFINE r == id \in live
      <4>1. Keeps(r) /\ r \in BOOLEAN
        BY <3>1 DEF Removeshm
      <4> HIDE DEF r
      <4> QED BY <4>1
    <3>2. ASSUME NEW key \in Keys, RemoveshmKey(p, key)
          PROVE  \E rule \in BOOLEAN : Keeps(rule)
      <4> DEFINE r == key # FreeKey
      <4>1. Keeps(r) /\ r \in BOOLEAN
        BY <3>2 DEF RemoveshmKey
      <4> HIDE DEF r
      <4> QED BY <4>1
    <3> QED BY <2>5, <3>1, <3>2
  <2>6. ASSUME NEW p \in Procs,
               \/ \E c \in Procs : Fork(p, c)
               \/ Exec(p) \/ Exit(p) \/ Wait(p) \/ HolderPanics(p)
        PROVE  UNCHANGED strays
    BY <2>6 DEF Fork, Exec, Exit, Wait, HolderPanics
  <2>7. CASE KallocOther \/ KfreeOther \/ Halted \/ UNCHANGED vars
    BY <2>7 DEF KallocOther, KfreeOther, Halted, vars
  <2> QED BY <2>1, <2>2, <2>3, <2>4, <2>5, <2>6, <2>7 DEF Next
<1>2. CASE UNCHANGED strays
  BY <1>2
<1>3. ASSUME NEW rule \in BOOLEAN, Keeps(rule)
      PROVE  strays' \in 0 .. MaxStrays /\ (strays' = 0 => strays = 0)
  <2>1. CASE rule
    BY <1>3, <2>1 DEF Keeps
  <2>2. CASE ~rule
    BY <1>3, <2>2, SizeAssumption DEF Keeps
  <2> QED BY <2>1, <2>2
<1> QED BY <1>1, <1>2, <1>3

\* A call by which the count is still zero kept its rule.
LEMMA KeptRule ==
    ASSUME NEW rule \in BOOLEAN, strays \in 0 .. MaxStrays, Keeps(rule), strays' = 0
    PROVE  rule
BY SizeAssumption DEF Keeps

\* Every variable of the shared-memory code keeps its type: in particular
\* lastShmSegIndex and every id and slot stay inside their tables and the
\* uint shm_nattch inside its range (shm.c).
THEOREM TypeOKHolds == Spec => []TypeOK
<1>1. Init => TypeOK
  BY InitTypeOK, SizeAssumption DEF Init, TypeOK
<1>2. TypeOK /\ [Next]_vars => TypeOK'
  BY NextTypeOK, NextStrays DEF TypeOK
<1> QED BY <1>1, <1>2, PTL DEF Spec

----------------------------------------------------------------------------
(* Frame ownership *)

\* A step that moves no frame keeps the owners apart.
LEMMA SameFrames ==
    ASSUME FrameOwnership,
           \A j \in Ids : segs'[j].pa = segs[j].pa,
           UNCHANGED <<pgtab, free, other>>
    PROVE  FrameOwnership'
BY DEF FrameOwnership, SegFramesDistinct, PtFramesDistinct, SegVsPt, FreeVsOwned

LEMMA PanicFrames ==
    ASSUME FrameOwnership, NEW reason, Panic(reason)
    PROVE  FrameOwnership'
BY SameFrames DEF Panic

LEMMA InitFrames == Init => FrameOwnership
BY NameAssumption
   DEF Init, InitSeg, NullPa, FrameOwnership, SegFramesDistinct, PtFramesDistinct,
       SegVsPt, FreeVsOwned

(***************************************************************************)
(* Entries may lose their page or take one of distinct free frames; those  *)
(* frames leave the free list.                                             *)
(***************************************************************************)
LEMMA SegsTakeFrames ==
    ASSUME StateOK, FrameOwnership,
           NEW base \in Nat, NEW k \in Nat, NEW g \in Injection(0 .. k - 1, free),
           \A j \in Ids : \/ segs'[j].pa.f = NoFrame
                          \/ segs'[j].pa.f = segs[j].pa.f
                          \/ j \in Span(base, k) /\ segs'[j].pa.f = g[j - base],
           free' \subseteq free \ Range(g),
           UNCHANGED <<pgtab, other>>
    PROVE  FrameOwnership'
<1>1. \A x \in 0 .. k - 1 : g[x] \in free /\ g[x] \in Range(g)
  BY DEF Injection, Range
<1>2. \A x, y \in 0 .. k - 1 : g[x] = g[y] => x = y
  BY DEF Injection, IsInjective
<1>3. \A j \in Span(base, k) : j - base \in 0 .. k - 1
  BY DEF Span
<1>4. free \subseteq Frames /\ NoFrame \notin Frames
  BY NameAssumption DEF StateOK
<1>5. SegFramesDistinct'
  <2> SUFFICES ASSUME NEW a \in Ids, NEW b \in Ids,
                      segs'[a].pa.f = segs'[b].pa.f, segs'[a].pa.f # NoFrame
               PROVE  a = b
    BY DEF SegFramesDistinct
  <2>1. CASE segs'[a].pa.f = segs[a].pa.f /\ segs'[b].pa.f = segs[b].pa.f
    BY <2>1 DEF FrameOwnership, SegFramesDistinct
  <2>2. CASE /\ a \in Span(base, k) /\ segs'[a].pa.f = g[a - base]
             /\ b \in Span(base, k) /\ segs'[b].pa.f = g[b - base]
    <3>1. a - base = b - base
      BY <2>2, <1>2, <1>3
    <3> QED BY <3>1 DEF Ids
  <2>3. CASE /\ a \in Span(base, k) /\ segs'[a].pa.f = g[a - base]
             /\ segs'[b].pa.f = segs[b].pa.f
    BY <2>3, <1>1, <1>3 DEF FrameOwnership, FreeVsOwned
  <2>4. CASE /\ b \in Span(base, k) /\ segs'[b].pa.f = g[b - base]
             /\ segs'[a].pa.f = segs[a].pa.f
    BY <2>4, <1>1, <1>3 DEF FrameOwnership, FreeVsOwned
  <2> QED BY <2>1, <2>2, <2>3, <2>4
<1>6. PtFramesDistinct'
  BY DEF FrameOwnership, PtFramesDistinct
<1>7. SegVsPt'
  <2> SUFFICES ASSUME NEW a \in Ids, NEW p \in Procs, NEW t \in Pts,
                      segs'[a].pa.f = pgtab[p][t]
               PROVE  pgtab[p][t] = NoFrame
    BY DEF SegVsPt
  <2>1. CASE segs'[a].pa.f = NoFrame
    BY <2>1
  <2>2. CASE segs'[a].pa.f = segs[a].pa.f
    BY <2>2 DEF FrameOwnership, SegVsPt
  <2>3. CASE a \in Span(base, k) /\ segs'[a].pa.f = g[a - base]
    BY <2>3, <1>1, <1>3 DEF FrameOwnership, FreeVsOwned
  <2> QED BY <2>1, <2>2, <2>3
<1>8. FreeVsOwned'
  <2>1. \A a \in Ids : segs'[a].pa.f \notin free' \cup other'
    <3> SUFFICES ASSUME NEW a \in Ids PROVE segs'[a].pa.f \notin free' \cup other
      OBVIOUS
    <3>1. CASE segs'[a].pa.f = NoFrame
      BY <3>1, <1>4 DEF StateOK
    <3>2. CASE segs'[a].pa.f = segs[a].pa.f
      BY <3>2 DEF FrameOwnership, FreeVsOwned
    <3>3. CASE a \in Span(base, k) /\ segs'[a].pa.f = g[a - base]
      BY <3>3, <1>1, <1>3 DEF FrameOwnership, FreeVsOwned
    <3> QED BY <3>1, <3>2, <3>3
  <2> QED BY <2>1 DEF FrameOwnership, FreeVsOwned
<1> QED BY <1>5, <1>6, <1>7, <1>8 DEF FrameOwnership

\* The page of an entry mapShmSegPage wrote is the frame kalloc returned.
LEMMA WithPagesFrames ==
    ASSUME NEW base \in Nat, NEW k \in Nat, NEW g, NEW key, NEW size, NEW j \in Ids
    PROVE  WithPages(base, k, g, key, size)[j].pa.f =
             IF j \in Span(base, k) THEN g[j - base] ELSE segs[j].pa.f
BY DEF WithPages, V2P, Mem

LEMMA ShmgetCreateFrames ==
    ASSUME StateOK, FrameOwnership,
           NEW p \in Procs, NEW key \in Keys, NEW size \in Sizes, NEW flag,
           ShmgetCreate(p, key, size, flag)
    PROVE  FrameOwnership'
<1> DEFINE n == Pages(PGROUNDUP(size))
           base == SegIndex(n)
<1>1. n \in Nat /\ base \in Nat
  BY AllocFits DEF ShmgetCreate
<1>2. PICK g \in Injection(0 .. n - 1, free) :
          segs' = WithPages(base, n, g, key, size) /\ free' = free \ Range(g)
  BY DEF ShmgetCreate
<1>3. UNCHANGED <<pgtab, other>>
  BY DEF ShmgetCreate
<1> HIDE DEF n, base
<1>4. \A j \in Ids : \/ segs'[j].pa.f = segs[j].pa.f
                     \/ j \in Span(base, n) /\ segs'[j].pa.f = g[j - base]
  <2> SUFFICES ASSUME NEW j \in Ids
               PROVE  \/ segs'[j].pa.f = segs[j].pa.f
                      \/ j \in Span(base, n) /\ segs'[j].pa.f = g[j - base]
    OBVIOUS
  <2>1. segs'[j].pa.f = WithPages(base, n, g, key, size)[j].pa.f
    BY <1>2
  <2>2. WithPages(base, n, g, key, size)[j].pa.f =
             IF j \in Span(base, n) THEN g[j - base] ELSE segs[j].pa.f
    BY DEF WithPages, V2P, Mem
  <2> QED BY <2>1, <2>2
<1> QED BY <1>1, <1>2, <1>3, <1>4, SegsTakeFrames

LEMMA ShmgetNoMemoryFrames ==
    ASSUME StateOK, FrameOwnership,
           NEW p \in Procs, NEW key \in Keys, NEW size \in Sizes, NEW flag,
           ShmgetNoMemory(p, key, size, flag)
    PROVE  FrameOwnership'
<1> DEFINE n == Pages(PGROUNDUP(size))
           base == SegIndex(n)
           k == Cardinality(free)
           newlast == IF Appends(n) THEN last + k ELSE last
<1>1. k \in Nat /\ base \in Nat
  <2>1. k \in Nat
    BY FramesFinite DEF StateOK
  <2>2. base \in Nat
    BY AllocFits DEF ShmgetNoMemory
  <2> QED BY <2>1, <2>2
<1>2. CASE k < newlast
  BY <1>2, PanicFrames DEF ShmgetNoMemory
<1>3. CASE ~(k < newlast)
  <2>1. PICK g \in Injection(0 .. k - 1, free) :
            segs' = [j \in Ids |->
                        IF j \in newlast + 1 .. k
                        THEN UnmappedSeg(WithPages(base, k, g, key, size)[j])
                        ELSE WithPages(base, k, g, key, size)[j]]
    BY <1>3 DEF ShmgetNoMemory
  <2>2. free' = {} /\ UNCHANGED <<pgtab, other>>
    BY <1>3 DEF ShmgetNoMemory
  <2> HIDE DEF n, base, k, newlast
  <2>3. \A j \in Ids : \/ segs'[j].pa.f = NoFrame
                       \/ segs'[j].pa.f = segs[j].pa.f
                       \/ j \in Span(base, k) /\ segs'[j].pa.f = g[j - base]
    <3> SUFFICES ASSUME NEW j \in Ids
                 PROVE  \/ segs'[j].pa.f = NoFrame
                        \/ segs'[j].pa.f = segs[j].pa.f
                        \/ j \in Span(base, k) /\ segs'[j].pa.f = g[j - base]
      OBVIOUS
    <3> DEFINE w == WithPages(base, k, g, key, size)[j]
    <3>1. segs'[j] = IF j \in newlast + 1 .. k THEN UnmappedSeg(w) ELSE w
      BY <2>1
    <3>2. w.pa.f = IF j \in Span(base, k) THEN g[j - base] ELSE segs[j].pa.f
      BY <1>1, WithPagesFrames
    <3>3. CASE j \in newlast + 1 .. k
      <4>1. w \in Seg
        <5>1. g \in [0 .. k - 1 -> free] /\ key \in Int /\ size \in Nat
          BY InputAssumption DEF Injection
        <5> QED BY <1>1, <5>1, WithPagesType
      <4>2. UnmappedSeg(w).pa = NullPa
        BY <4>1 DEF UnmappedSeg, Seg
      <4> QED BY <3>1, <3>3, <4>2 DEF NullPa
    <3>4. CASE ~(j \in newlast + 1 .. k)
      BY <3>1, <3>2, <3>4
    <3> QED BY <3>3, <3>4
  <2>4. free' \subseteq free \ Range(g)
    BY <2>2
  <2> QED BY <1>1, <2>2, <2>3, <2>4, SegsTakeFrames
<1> QED BY <1>2, <1>3


\* Distinct free frames become the missing page-table pages of process p.
LEMMA AttachPagesFrames ==
    ASSUME StateOK, FrameOwnership,
           NEW p \in Procs, NEW id \in Ids, NEW s \in Slots, NEW n \in Nat, NEW flag,
           AttachPages(p, id, s, n, flag)
    PROVE  FrameOwnership'
<1> DEFINE M == MissingPts(p, s, n)
<1>1. PICK g \in Injection(M, free) :
        /\ pgtab' = [pgtab EXCEPT ![p] = [t \in Pts |->
                        IF t \in M THEN g[t] ELSE pgtab[p][t]]]
        /\ free' = free \ Range(g)
  BY DEF AttachPages
<1>2. \A x \in M : g[x] \in free /\ g[x] \in Range(g)
  BY DEF Injection, Range
<1>3. \A x, y \in M : g[x] = g[y] => x = y
  BY DEF Injection, IsInjective
<1>4. \A j \in Ids : segs'[j].pa = segs[j].pa
  <2>1. \A x \in Seg : [x EXCEPT !.nattch = (@ + 1) % UINTMOD].pa = x.pa
    BY DEF Seg
  <2> QED BY <2>1 DEF AttachPages, Attached, StateOK
<1>5. other' = other
  BY DEF AttachPages
<1>6. free \subseteq Frames /\ NoFrame \notin Frames
  BY NameAssumption DEF StateOK
<1> HIDE DEF M
\* every page-table page is an old one, or g of a missing one of p
<1>7. \A q \in Procs, t \in Pts :
        \/ pgtab'[q][t] = pgtab[q][t]
        \/ q = p /\ t \in M /\ pgtab'[q][t] = g[t]
  BY <1>1 DEF StateOK
<1>8. SegFramesDistinct'
  BY <1>4 DEF FrameOwnership, SegFramesDistinct
<1>9. PtFramesDistinct'
  <2> SUFFICES ASSUME NEW q \in Procs, NEW r \in Procs, NEW t \in Pts, NEW u \in Pts,
                      pgtab'[q][t] = pgtab'[r][u], pgtab'[q][t] # NoFrame
               PROVE  q = r /\ t = u
    BY DEF PtFramesDistinct
  <2>1. CASE pgtab'[q][t] = pgtab[q][t] /\ pgtab'[r][u] = pgtab[r][u]
    <3>1. pgtab[q][t] = pgtab[r][u] /\ pgtab[q][t] # NoFrame
      BY <2>1
    <3>2. PtFramesDistinct
      BY DEF FrameOwnership
    <3> QED BY <3>1, <3>2 DEF PtFramesDistinct
  <2>2. CASE q = p /\ t \in M /\ pgtab'[q][t] = g[t] /\ r = p /\ u \in M /\ pgtab'[r][u] = g[u]
    BY <2>2, <1>3
  <2>3. CASE q = p /\ t \in M /\ pgtab'[q][t] = g[t] /\ pgtab'[r][u] = pgtab[r][u]
    BY <2>3, <1>2 DEF FrameOwnership, FreeVsOwned
  <2>4. CASE r = p /\ u \in M /\ pgtab'[r][u] = g[u] /\ pgtab'[q][t] = pgtab[q][t]
    BY <2>4, <1>2 DEF FrameOwnership, FreeVsOwned
  <2> QED BY <2>1, <2>2, <2>3, <2>4, <1>7
<1>10. SegVsPt'
  <2> SUFFICES ASSUME NEW j \in Ids, NEW q \in Procs, NEW t \in Pts,
                      segs[j].pa.f = pgtab'[q][t]
               PROVE  pgtab'[q][t] = NoFrame
    BY <1>4 DEF SegVsPt
  <2>1. CASE pgtab'[q][t] = pgtab[q][t]
    BY <2>1 DEF FrameOwnership, SegVsPt
  <2>2. CASE t \in M /\ pgtab'[q][t] = g[t]
    BY <2>2, <1>2 DEF FrameOwnership, FreeVsOwned
  <2> QED BY <2>1, <2>2, <1>7
<1>11. FreeVsOwned'
  <2>1. \A j \in Ids : segs'[j].pa.f \notin free' \cup other'
    BY <1>1, <1>4, <1>5 DEF FrameOwnership, FreeVsOwned
  <2>2. \A q \in Procs, t \in Pts : pgtab'[q][t] \notin free' \cup other'
    <3> SUFFICES ASSUME NEW q \in Procs, NEW t \in Pts
                 PROVE  pgtab'[q][t] \notin free' \cup other'
      OBVIOUS
    <3>1. CASE pgtab'[q][t] = pgtab[q][t]
      BY <3>1, <1>1, <1>5 DEF FrameOwnership, FreeVsOwned
    <3>2. CASE t \in M /\ pgtab'[q][t] = g[t]
      BY <3>2, <1>1, <1>2, <1>5 DEF FrameOwnership, FreeVsOwned
    <3> QED BY <3>1, <3>2, <1>7
  <2>3. free' \cap other' = {}
    BY <1>1, <1>5 DEF FrameOwnership, FreeVsOwned
  <2> QED BY <2>1, <2>2, <2>3 DEF FreeVsOwned
<1> QED BY <1>8, <1>9, <1>10, <1>11 DEF FrameOwnership

LEMMA ShmatFrames ==
    ASSUME StateOK, FrameOwnership,
           NEW p \in Procs, NEW id \in Ids, NEW addr \in AtSlots \cup {NULL},
           NEW flag \in AtFlags, Shmat(p, id, addr, flag)
    PROVE  FrameOwnership'
<1> DEFINE n == Pages(segs[id].segsz)
           s == IF addr = NULL THEN FreeSlot(p, n) ELSE addr
<1>1. n \in Nat
  BY PagesType DEF StateOK, Seg
<1>2. CASE addr # NULL /\ flag # SHM_RND
  BY <1>2, PanicFrames DEF Shmat
<1>3. CASE ~(addr # NULL /\ flag # SHM_RND)
  <2>1. s \in Slots
    <3>1. CASE addr = NULL
      <4>1. FreeSlot(p, n) \in -1 .. SHMMAXSEG - 1
        BY <1>1, FreeSlotType
      <4>2. FreeSlot(p, n) # -1
        BY <3>1, <1>3 DEF Shmat
      <4> QED BY <3>1, <4>1, <4>2 DEF Slots, Ids
    <3>2. CASE addr # NULL
      BY <3>2, InputAssumption DEF Slots, Ids
    <3> QED BY <3>1, <3>2
  <2>2. CASE AttachPages(p, id, s, n, flag)
    BY <2>2, <2>1, <1>1, AttachPagesFrames
  <2>3. CASE AttachFails(p, id, s)
    BY <2>3, SameFrames DEF AttachFails
  <2>4. CASE Panic(AttachStatus(p, id, s, n))
    BY <2>4, PanicFrames
  <2> QED BY <2>2, <2>3, <2>4, <1>3, AttachStatusType DEF Shmat
<1> QED BY <1>2, <1>3

LEMMA ShmdtFrames ==
    ASSUME StateOK, FrameOwnership, NEW p \in Procs, NEW s \in Slots, Shmdt(p, s)
    PROVE  FrameOwnership'
<1> DEFINE id == att[p][s].shmid
           n == Pages(segs[id].segsz)
<1>1. CASE DetachPages(p, id, s, n)
  <2>1. \A j \in Ids : segs'[j].pa = segs[j].pa
    BY <1>1 DEF DetachPages, Detached, StateOK, Seg
  <2> QED BY <1>1, <2>1, SameFrames DEF DetachPages
<1>2. CASE Panic(DetachStatus(p, id, s, n))
  BY <1>2, PanicFrames
<1> QED BY <1>1, <1>2 DEF Shmdt

\* IPC_SET and IPC_RMID never write pa.
LEMMA ShmctlFrames ==
    ASSUME StateOK, FrameOwnership, NEW p \in Procs, NEW id \in Ids,
           \/ \E buf \in SetBufs : ShmctlSet(p, id, buf)
           \/ ShmctlRmid(p, id)
    PROVE  FrameOwnership'
<1>1. ASSUME NEW buf \in SetBufs, ShmctlSet(p, id, buf) PROVE FrameOwnership'
  <2> DEFINE n == Pages(buf.segsz)
  <2>1. CASE id + n > SHMMAXSEG
    BY <1>1, <2>1, PanicFrames DEF ShmctlSet
  <2>2. CASE ~(id + n > SHMMAXSEG)
    <3>1. segs' = [j \in Ids |->
             IF j \in Span(id, n)
             THEN [segs[j] EXCEPT !.key = buf.key, !.mode = buf.mode,
                                  !.segsz = buf.segsz, !.nattch = buf.nattch]
             ELSE segs[j]]
      BY <1>1, <2>2 DEF ShmctlSet
    <3>2. \A x \in Seg : [x EXCEPT !.key = buf.key, !.mode = buf.mode,
                                   !.segsz = buf.segsz, !.nattch = buf.nattch].pa = x.pa
      BY DEF Seg
    <3>3. \A j \in Ids : segs'[j].pa = segs[j].pa
      BY <3>1, <3>2 DEF StateOK
    <3>4. UNCHANGED <<pgtab, free, other>>
      BY <1>1, <2>2 DEF ShmctlSet
    <3> QED BY <3>3, <3>4, SameFrames
  <2> QED BY <2>1, <2>2
<1>2. CASE ShmctlRmid(p, id)
  <2> DEFINE n == Pages(segs[id].segsz)
  <2>1. CASE id + n > SHMMAXSEG
    BY <1>2, <2>1, PanicFrames DEF ShmctlRmid
  <2>2. CASE ~(id + n > SHMMAXSEG)
    <3>1. segs' = [j \in Ids |->
             IF j \in Span(id, n) THEN [segs[j] EXCEPT !.mode = @ \cup {"SHM_DEST"}]
             ELSE segs[j]]
      BY <1>2, <2>2 DEF ShmctlRmid
    <3>2. \A x \in Seg : [x EXCEPT !.mode = @ \cup {"SHM_DEST"}].pa = x.pa
      BY DEF Seg
    <3>3. \A j \in Ids : segs'[j].pa = segs[j].pa
      BY <3>1, <3>2 DEF StateOK
    <3>4. UNCHANGED <<pgtab, free, other>>
      BY <1>2, <2>2 DEF ShmctlRmid
    <3> QED BY <3>3, <3>4, SameFrames
  <2> QED BY <2>1, <2>2
<1> QED BY <1>1, <1>2


\* removeshm moves the pages of the entries it clears to the free list.
LEMMA RemoveIdFrames ==
    ASSUME StateOK, FrameOwnership, NEW id \in Ids, RemoveId(id)
    PROVE  FrameOwnership'
<1> DEFINE n == Pages(segs[id].segsz)
           frees == segs[id].nattch = 0 /\ (n > 0 \/ "SHM_DEST" \in segs[id].mode)
<1>1. n \in Nat
  BY PagesType DEF StateOK, Seg
<1>2. CASE id + n > SHMMAXSEG
  BY <1>2, PanicFrames DEF RemoveId
<1>3. CASE ~(id + n > SHMMAXSEG) /\ frees
  <2>1. FreeshmPages(id, n)
    BY <1>3 DEF RemoveId
  <2>2. CASE \E j \in Span(id, n) : segs[j].pa = NullPa
    BY <2>1, <2>2, PanicFrames DEF FreeshmPages
  <2>3. CASE \A j \in Span(id, n) : segs[j].pa # NullPa
    <3>1. /\ segs' = Freed(id, n)
          /\ free' = free \cup {V2P(segs[j].pa).f : j \in Span(id, n)}
          /\ UNCHANGED <<pgtab, other>>
      BY <2>1, <2>3 DEF FreeshmPages
    <3>2. \A j \in Span(id, n) : /\ j \in Ids
                                 /\ V2P(segs[j].pa).f = segs[j].pa.f
                                 /\ segs[j].pa.f \in Frames
      BY <1>1, <1>3, <2>3, FreedFrames
    <3> HIDE DEF n
    <3>3. \A j \in Ids : segs'[j].pa.f = IF j \in Span(id, n) THEN NoFrame ELSE segs[j].pa.f
      BY <3>1 DEF Freed, FreedSeg, NullPa
    <3>4. \A f \in free' : f \in free \/ \E j \in Span(id, n) : f = segs[j].pa.f
      BY <3>1, <3>2
    <3>5. NoFrame \notin free' \cup other
      <4>1. free' \subseteq Frames
        BY <3>2, <3>4 DEF StateOK
      <4> QED BY <4>1, NameAssumption DEF StateOK
    <3>6. SegFramesDistinct'
      BY <3>3 DEF FrameOwnership, SegFramesDistinct
    <3>7. PtFramesDistinct'
      BY <3>1 DEF FrameOwnership, PtFramesDistinct
    <3>8. SegVsPt'
      BY <3>1, <3>3 DEF FrameOwnership, SegVsPt
    <3>9. FreeVsOwned'
      <4>1. \A j \in Ids : segs'[j].pa.f \notin free' \cup other'
        <5> SUFFICES ASSUME NEW j \in Ids PROVE segs'[j].pa.f \notin free' \cup other
          BY <3>1
        <5>1. CASE j \in Span(id, n)
          BY <5>1, <3>3, <3>5
        <5>2. CASE j \notin Span(id, n)
          \* another entry: its frame is not one of those freed
          <6>1. segs'[j].pa.f = segs[j].pa.f
            BY <5>2, <3>3
          <6>2. \A k \in Span(id, n) : segs[k].pa.f # segs[j].pa.f
            BY <5>2, <3>2, NameAssumption DEF FrameOwnership, SegFramesDistinct
          <6> QED BY <6>1, <6>2, <3>4 DEF FrameOwnership, FreeVsOwned
        <5> QED BY <5>1, <5>2
      <4>2. \A q \in Procs, t \in Pts : pgtab'[q][t] \notin free' \cup other'
        <5> SUFFICES ASSUME NEW q \in Procs, NEW t \in Pts
                     PROVE  pgtab[q][t] \notin free' \cup other
          BY <3>1
        <5>1. \A k \in Span(id, n) : segs[k].pa.f # pgtab[q][t]
          BY <3>2, NameAssumption DEF FrameOwnership, SegVsPt
        <5> QED BY <5>1, <3>4 DEF FrameOwnership, FreeVsOwned
      <4>3. free' \cap other' = {}
        BY <3>1, <3>2, <3>4 DEF FrameOwnership, FreeVsOwned
      <4> QED BY <4>1, <4>2, <4>3 DEF FreeVsOwned
    <3> QED BY <3>6, <3>7, <3>8, <3>9 DEF FrameOwnership
  <2> QED BY <2>2, <2>3
<1>4. CASE ~(id + n > SHMMAXSEG) /\ ~frees
  <2>1. segs' = [j \in Ids |->
           IF j \in Span(id, n) THEN [segs[j] EXCEPT !.mode = {"SHM_DEST"}] ELSE segs[j]]
    BY <1>4 DEF RemoveId
  <2>2. \A x \in Seg : [x EXCEPT !.mode = {"SHM_DEST"}].pa = x.pa
    BY DEF Seg
  <2>3. \A j \in Ids : segs'[j].pa = segs[j].pa
    BY <2>1, <2>2 DEF StateOK
  <2>4. UNCHANGED <<pgtab, free, other>>
    BY <1>4 DEF RemoveId
  <2> QED BY <2>3, <2>4, SameFrames
<1> QED BY <1>2, <1>3, <1>4

LEMMA RemoveshmFrames ==
    ASSUME StateOK, FrameOwnership, NEW p \in Procs,
           \/ \E id \in RemoveIds : Removeshm(p, id)
           \/ \E key \in Keys : RemoveshmKey(p, key)
    PROVE  FrameOwnership'
<1>1. ASSUME NEW id \in RemoveIds, Removeshm(p, id) PROVE FrameOwnership'
  <2>1. CASE id \in Ids
    BY <1>1, <2>1, RemoveIdFrames DEF Removeshm
  <2>2. CASE id \notin Ids
    BY <1>1, <2>2, PanicFrames DEF Removeshm
  <2> QED BY <2>1, <2>2
<1>2. ASSUME NEW key \in Keys, RemoveshmKey(p, key) PROVE FrameOwnership'
  <2>1. FirstWithKey(key) \in 0 .. last
    BY <1>2, FirstWithKeyType DEF RemoveshmKey
  <2>2. FirstWithKey(key) \in Ids
    BY <2>1, SizeAssumption DEF StateOK, Ids
  <2> QED BY <1>2, <2>2, RemoveIdFrames DEF RemoveshmKey
<1> QED BY <1>1, <1>2

LEMMA ForkFrames ==
    ASSUME StateOK, FrameOwnership, NEW p \in Procs, NEW c \in Procs, Fork(p, c)
    PROVE  FrameOwnership'
<1> DEFINE S == IF p = Root THEN {} ELSE SlotsForked(p)
<1>1. CASE OverrunsTable(p, S)
  BY <1>1, PanicFrames DEF Fork
<1>2. CASE ~OverrunsTable(p, S)
  <2>1. segs' = [j \in Ids |-> [segs[j] EXCEPT !.nattch = (@ + Touches(p, S, j)) % UINTMOD]]
    BY <1>2 DEF Fork
  <2>2. \A j \in Ids : segs'[j].pa = segs[j].pa
    BY <2>1 DEF StateOK, Seg
  <2>3. UNCHANGED <<pgtab, free, other>>
    BY <1>2 DEF Fork
  <2> QED BY <2>2, <2>3, SameFrames
<1> QED BY <1>1, <1>2

\* freevm moves the page-table pages of p to the free list.
LEMMA FreeVmFrames ==
    ASSUME StateOK, FrameOwnership, NEW p \in Procs, FreeVm(p),
           \A j \in Ids : segs'[j].pa = segs[j].pa, other' = other
    PROVE  FrameOwnership'
<1>1. \A q \in Procs, t \in Pts : pgtab'[q][t] = IF q = p THEN NoFrame ELSE pgtab[q][t]
  BY DEF FreeVm, StateOK
<1>2. \A f \in free' : f \in free \/ (f # NoFrame /\ \E t \in Pts : f = pgtab[p][t])
  <2>1. free' = free \cup PtFrames(p)
    BY DEF FreeVm
  <2>2. \A f \in PtFrames(p) : f # NoFrame /\ \E t \in Pts : f = pgtab[p][t]
    BY DEF PtFrames
  <2> QED BY <2>1, <2>2
<1>3. NoFrame \notin free' \cup other
  BY <1>2, NameAssumption DEF StateOK
<1>4. SegFramesDistinct'
  BY DEF FrameOwnership, SegFramesDistinct
<1>5. PtFramesDistinct'
  <2> SUFFICES ASSUME NEW q \in Procs, NEW r \in Procs, NEW t \in Pts, NEW u \in Pts,
                      pgtab'[q][t] = pgtab'[r][u], pgtab'[q][t] # NoFrame
               PROVE  q = r /\ t = u
    BY DEF PtFramesDistinct
  <2>1. pgtab[q][t] = pgtab[r][u] /\ pgtab[q][t] # NoFrame
    BY <1>1
  <2> QED BY <2>1 DEF FrameOwnership, PtFramesDistinct
<1>6. SegVsPt'
  BY <1>1 DEF FrameOwnership, SegVsPt
<1>7. FreeVsOwned'
  <2>1. \A j \in Ids : segs'[j].pa.f \notin free' \cup other'
    <3> SUFFICES ASSUME NEW j \in Ids PROVE segs[j].pa.f \notin free' \cup other
      OBVIOUS
    <3>1. \A t \in Pts : pgtab[p][t] # NoFrame => segs[j].pa.f # pgtab[p][t]
      BY DEF FrameOwnership, SegVsPt
    <3> QED BY <3>1, <1>2 DEF FrameOwnership, FreeVsOwned
  <2>2. \A q \in Procs, t \in Pts : pgtab'[q][t] \notin free' \cup other'
    <3> SUFFICES ASSUME NEW q \in Procs, NEW t \in Pts
                 PROVE  pgtab'[q][t] \notin free' \cup other
      OBVIOUS
    <3>1. CASE q = p
      BY <3>1, <1>1, <1>3
    <3>2. CASE q # p
      <4>1. pgtab'[q][t] = pgtab[q][t]
        BY <3>2, <1>1
      <4>2. \A u \in Pts : pgtab[p][u] # NoFrame => pgtab[q][t] # pgtab[p][u]
        BY <3>2 DEF FrameOwnership, PtFramesDistinct
      <4> QED BY <4>1, <4>2, <1>2 DEF FrameOwnership, FreeVsOwned
    <3> QED BY <3>1, <3>2
  <2>3. free' \cap other' = {}
    BY <1>2 DEF FrameOwnership, FreeVsOwned
  <2> QED BY <2>1, <2>2, <2>3 DEF FreeVsOwned
<1> QED BY <1>4, <1>5, <1>6, <1>7 DEF FrameOwnership

LEMMA ExecFrames ==
    ASSUME StateOK, FrameOwnership, NEW p \in Procs, Exec(p)
    PROVE  FrameOwnership'
<1> DEFINE S == SlotsAttached(p)
<1>1. CASE OverrunsTable(p, S)
  BY <1>1, PanicFrames DEF Exec
<1>2. CASE ~OverrunsTable(p, S)
  <2>1. segs' = [j \in Ids |->
           [segs[j] EXCEPT !.nattch =
               (@ + UINTMOD * Touches(p, S, j) - Touches(p, S, j)) % UINTMOD]]
    BY <1>2 DEF Exec
  <2>2. \A j \in Ids : segs'[j].pa = segs[j].pa
    BY <2>1 DEF StateOK, Seg
  <2>3. FreeVm(p) /\ other' = other
    BY <1>2 DEF Exec
  <2> QED BY <2>2, <2>3, FreeVmFrames
<1> QED BY <1>1, <1>2

LEMMA OtherFrames ==
    ASSUME StateOK, FrameOwnership,
           \/ \E p \in Procs : Exit(p) \/ Wait(p) \/ HolderPanics(p)
           \/ KallocOther \/ KfreeOther \/ Halted
    PROVE  FrameOwnership'
<1>1. ASSUME NEW p \in Procs, Exit(p) PROVE FrameOwnership'
  BY <1>1, SameFrames DEF Exit
<1>2. ASSUME NEW p \in Procs, Wait(p) PROVE FrameOwnership'
  BY <1>2, FreeVmFrames DEF Wait
<1>3. ASSUME NEW p \in Procs, HolderPanics(p) PROVE FrameOwnership'
  BY <1>3, PanicFrames DEF HolderPanics
<1>4. CASE KallocOther
  BY <1>4 DEF KallocOther, FrameOwnership, SegFramesDistinct, PtFramesDistinct, SegVsPt,
              FreeVsOwned
<1>5. CASE KfreeOther
  BY <1>5 DEF KfreeOther, FrameOwnership, SegFramesDistinct, PtFramesDistinct, SegVsPt,
              FreeVsOwned
<1>6. CASE Halted
  BY <1>6, SameFrames DEF Halted, vars
<1> QED BY <1>1, <1>2, <1>3, <1>4, <1>5, <1>6

(***************************************************************************)
(* No page of memory ever has two owners among shm_segs, the page tables,  *)
(* the free list and the rest of the kernel, whatever keys, ids, addresses *)
(* and buffers programs pass (allocShmSeg, allocshmuvm, freeshmPages,      *)
(* freevm), up to the first access outside the tables: removeshm with an   *)
(* id that is no entry is one, and nothing is claimed of what it frees.    *)
(***************************************************************************)
THEOREM FrameOwnershipHolds == Spec => []FrameOwnership
<1>1. Init => FrameOwnership
  BY InitFrames
<1>2. StateOK /\ FrameOwnership /\ [Next]_vars => FrameOwnership'
  <2> SUFFICES ASSUME StateOK, FrameOwnership, [Next]_vars PROVE FrameOwnership'
    OBVIOUS
  <2>1. CASE UNCHANGED vars
    BY <2>1, SameFrames DEF vars
  <2>2. CASE Next
    BY <2>2, ShmgetCreateFrames, ShmgetNoMemoryFrames, ShmatFrames, ShmdtFrames,
       ShmctlFrames, RemoveshmFrames, ForkFrames, ExecFrames, OtherFrames
       DEF Next
  <2> QED BY <2>1, <2>2
<1> QED BY <1>1, <1>2, StateOKHolds, PTL DEF Spec

----------------------------------------------------------------------------
(* The tiling of the table *)

\* An entry that belongs to no segment.
Vacant(x) == x.key = FreeKey /\ x.segsz = 0 /\ x.pa = NullPa

Covered(j) == \E b \in live : j \in Span(b, PagesOf(b))

LEMMA VacantRecord ==
    ASSUME NEW x \in Seg
    PROVE  Vacant(x) <=> x = [FreedSeg EXCEPT !.nattch = x.nattch, !.mode = x.mode]
<1>1. \A y, z \in Seg : /\ y.key = z.key /\ y.mode = z.mode /\ y.segsz = z.segsz
                        /\ y.nattch = z.nattch /\ y.pa = z.pa
                        => y = z
  BY DEF Seg
<1> DEFINE r == [FreedSeg EXCEPT !.nattch = x.nattch, !.mode = x.mode]
<1>2. FreedSeg \in [key : Int, mode : SUBSET ModeBits, segsz : Nat, nattch : {0}, pa : PhysAddr]
  <2>1. FreeKey \in Int /\ {} \in SUBSET ModeBits /\ 0 \in Nat
    BY DEF FreeKey
  <2> QED BY <2>1, NullPaType DEF FreedSeg
<1>3. /\ r \in Seg
      /\ r.nattch = x.nattch /\ r.mode = x.mode
      /\ r.key = FreedSeg.key /\ r.segsz = FreedSeg.segsz /\ r.pa = FreedSeg.pa
  BY <1>2 DEF Seg
<1>4. FreedSeg.key = FreeKey /\ FreedSeg.segsz = 0 /\ FreedSeg.pa = NullPa
  BY DEF FreedSeg
<1> HIDE DEF r
<1>5. Vacant(x) <=> x = r
  BY <1>1, <1>3, <1>4 DEF Vacant
<1> QED BY <1>5 DEF r

LEMMA SpanBase ==
    ASSUME NEW b \in Int, NEW n \in Int, n > 0
    PROVE  b \in Span(b, n)
BY DEF Span

LEMMA PagesOfType ==
    ASSUME StateOK, NEW b \in Ids
    PROVE  PagesOf(b) \in Nat /\ b \in Nat
<1>1. segs[b].segsz \in Nat
  BY DEF StateOK, Seg
<1> QED BY <1>1, PagesType DEF PagesOf, Ids

\* The tiling, with the entries outside of every segment said to be vacant.
LEMMA TiledParts ==
    ASSUME StateOK
    PROVE  Tiled <=>
             /\ \A b \in live : PagesOf(b) > 0 /\ Span(b, PagesOf(b)) \subseteq 0 .. last
             /\ \A b, c \in live : b < c => b + PagesOf(b) <= c
             /\ \A b \in live : \A j \in Span(b, PagesOf(b)) :
                   /\ segs[j].key = segs[b].key /\ segs[j].key # FreeKey
                   /\ segs[j].segsz = segs[b].segsz
                   /\ segs[j].pa.f # NoFrame
             /\ \A j \in 0 .. last : Covered(j) \/ Vacant(segs[j])
<1>1. \A j \in 0 .. last :
          Vacant(segs[j]) <=> segs[j] = [FreedSeg EXCEPT !.nattch = segs[j].nattch,
                                                         !.mode = segs[j].mode]
  <2> SUFFICES ASSUME NEW j \in 0 .. last PROVE segs[j] \in Seg
    BY VacantRecord
  <2>1. j \in Ids
    BY SizeAssumption DEF StateOK, Ids
  <2> QED BY <2>1 DEF StateOK
<1> QED BY <1>1 DEF Tiled, Covered

\* A step that leaves the keys, sizes and pages of the entries alone.
LEMMA SameTiled ==
    ASSUME StateOK, StateOK', Tiled, last' = last, live' = live,
           \A j \in Ids : /\ segs'[j].key = segs[j].key
                          /\ segs'[j].segsz = segs[j].segsz
                          /\ segs'[j].pa = segs[j].pa
    PROVE  Tiled'
<1>1. \A b \in live : PagesOf(b)' = PagesOf(b)
  BY DEF PagesOf, StateOK
<1>2. 0 .. last \subseteq Ids /\ live \subseteq Ids
  BY SizeAssumption DEF StateOK, Ids
<1>3. \A b \in live : PagesOf(b) > 0 /\ Span(b, PagesOf(b)) \subseteq 0 .. last
  BY DEF Tiled
<1>4. \A b, c \in live : b < c => b + PagesOf(b) <= c
  BY DEF Tiled
<1>5. \A b \in live : \A j \in Span(b, PagesOf(b)) :
                   /\ segs[j].key = segs[b].key /\ segs[j].key # FreeKey
                   /\ segs[j].segsz = segs[b].segsz
                   /\ segs[j].pa.f # NoFrame
  BY DEF Tiled
<1>6. \A j \in 0 .. last : Covered(j) \/ Vacant(segs[j])
  BY TiledParts
<1>7. (\A b \in live : PagesOf(b) > 0 /\ Span(b, PagesOf(b)) \subseteq 0 .. last)'
  BY <1>1, <1>3
<1>8. (\A b, c \in live : b < c => b + PagesOf(b) <= c)'
  BY <1>1, <1>4
<1>9. (\A b \in live : \A j \in Span(b, PagesOf(b)) :
                   /\ segs[j].key = segs[b].key /\ segs[j].key # FreeKey
                   /\ segs[j].segsz = segs[b].segsz
                   /\ segs[j].pa.f # NoFrame)'
  <2> SUFFICES ASSUME NEW b \in live, NEW j \in Span(b, PagesOf(b))
               PROVE  /\ segs'[j].key = segs'[b].key /\ segs'[j].key # FreeKey
                      /\ segs'[j].segsz = segs'[b].segsz
                      /\ segs'[j].pa.f # NoFrame
    BY <1>1
  <2>1. j \in Ids /\ b \in Ids
    BY <1>2, <1>3
  <2> QED BY <2>1, <1>5
<1>10. (\A j \in 0 .. last : Covered(j) \/ Vacant(segs[j]))'
  <2> SUFFICES ASSUME NEW j \in 0 .. last PROVE Covered(j)' \/ Vacant(segs[j])'
    OBVIOUS
  <2>1. CASE Covered(j)
    BY <2>1, <1>1 DEF Covered
  <2>2. CASE Vacant(segs[j])
    BY <2>2, <1>2 DEF Vacant
  <2> QED BY <2>1, <2>2, <1>6
<1> QED BY <1>7, <1>8, <1>9, <1>10, TiledParts, PTL

LEMMA PanicTiled ==
    ASSUME StateOK, StateOK', Tiled, NEW reason, Panic(reason)
    PROVE  Tiled'
BY SameTiled DEF Panic

LEMMA InitTiled == Init => Tiled
BY DEF Init, Tiled

LEMMA CreateTiled ==
    ASSUME StateOK, StateOK', Tiled,
           NEW p \in Procs, NEW key \in Keys, key # FreeKey, NEW size \in Sizes, NEW flag,
           ShmgetCreate(p, key, size, flag)
    PROVE  Tiled'
<1> DEFINE n == Pages(PGROUNDUP(size))
<1>0. PICK base : base = SegIndex(n)
  OBVIOUS
<1>1. n \in Nat /\ base \in Nat /\ base + n <= SHMMAXSEG
  BY <1>0, AllocFits DEF ShmgetCreate
<1>2. n > 0
  <2>1. AllocStatus(size) = "alloc"
    BY DEF ShmgetCreate, ShmgetDecision
  <2>2. size \in Nat /\ ~(size < SHMMIN)
    BY <2>1, InputAssumption DEF AllocStatus
  <2> QED BY <2>2, OnePageAtLeast
<1>3. PICK g \in Injection(0 .. n - 1, free) : segs' = WithPages(base, n, g, key, size)
  BY <1>0 DEF ShmgetCreate
<1>4. live' = live \cup {base} /\ last' = IF Appends(n) THEN last + n ELSE last
  BY <1>0 DEF ShmgetCreate
<1>5. \A j \in Ids : j \in Span(base, n) =>
          /\ segs'[j].key = key /\ segs'[j].segsz = PGROUNDUP(size)
          /\ segs'[j].pa.f # NoFrame
  <2> SUFFICES ASSUME NEW j \in Ids, j \in Span(base, n)
               PROVE  /\ segs'[j].key = key /\ segs'[j].segsz = PGROUNDUP(size)
                      /\ segs'[j].pa.f # NoFrame
    OBVIOUS
  <2>1. segs'[j] = [key |-> key, mode |-> {}, segsz |-> PGROUNDUP(size), nattch |-> 0,
                    pa |-> V2P(Mem(g[j - base]))]
    BY <1>3 DEF WithPages
  <2>2. j - base \in 0 .. n - 1
    <3> HIDE DEF n
    <3> QED BY <1>1 DEF Span, Ids
  <2>3. g[j - base] \in Frames
    BY <2>2 DEF Injection, StateOK
  <2>4. segs'[j].pa.f = g[j - base]
    BY <2>1 DEF V2P, Mem
  <2> QED BY <2>1, <2>3, <2>4, NameAssumption
<1>6. \A j \in Ids : j \notin Span(base, n) => segs'[j] = segs[j]
  BY <1>3 DEF WithPages
<1>7. last \in -1 .. SHMMAXSEG - 1 /\ live \subseteq Ids /\ 0 .. last \subseteq Ids
  BY SizeAssumption DEF StateOK, Ids
<1>8. \/ base = last + 1 /\ last' = base + n - 1
      \/ /\ last' = last /\ base + n <= last + 1
         /\ \A j \in Span(base, n) : segs[j].key = FreeKey
  <2>1. CASE Appends(n)
    BY <2>1, <1>0, <1>4, <1>1, <1>7 DEF SegIndex
  <2>2. CASE ~Appends(n)
    <3> DEFINE fr == [j \in Ids |-> segs[j].key = FreeKey]
    <3>1. FitsAt(fr, last + 1, n, base)
      <4>1. base = FitIndex(n) /\ FitIndex(n) # -1 /\ FitIndex(n) = ScanResult(fr, last + 1, n)
        BY <2>2, <1>0 DEF SegIndex, Appends, FitIndex
      <4>2. last + 1 \in Nat
        BY <1>7
      <4> HIDE DEF fr, n
      <4> QED BY <4>1, <4>2, <1>1, ScanResultFits
    <3>2. base + n <= last + 1 /\ \A j \in Span(base, n) : fr[j]
      BY <3>1 DEF FitsAt, Span
    <3>3. Span(base, n) \subseteq Ids
      <4> HIDE DEF n
      <4> QED BY <1>1, SizeAssumption DEF Span, Ids
    <3> QED BY <2>2, <1>4, <3>2, <3>3
  <2> QED BY <2>1, <2>2
<1> HIDE DEF n
<1>9. /\ \A b \in live : PagesOf(b) > 0 /\ Span(b, PagesOf(b)) \subseteq 0 .. last
      /\ \A b, c \in live : b < c => b + PagesOf(b) <= c
      /\ \A b \in live : \A j \in Span(b, PagesOf(b)) :
                   /\ segs[j].key = segs[b].key /\ segs[j].key # FreeKey
                   /\ segs[j].segsz = segs[b].segsz
                   /\ segs[j].pa.f # NoFrame
      /\ \A j \in 0 .. last : Covered(j) \/ Vacant(segs[j])
  BY TiledParts
<1>10. \A b \in live : PagesOf(b) \in Nat /\ b \in Nat /\ b \in Span(b, PagesOf(b))
  <2> SUFFICES ASSUME NEW b \in live
               PROVE  PagesOf(b) \in Nat /\ b \in Nat /\ b \in Span(b, PagesOf(b))
    OBVIOUS
  <2>1. PagesOf(b) \in Nat /\ b \in Nat /\ PagesOf(b) > 0
    BY <1>7, <1>9, PagesOfType
  <2> QED BY <2>1, SpanBase
\* No entry the new segment takes belongs to another one.
<1>11. \A b \in live : \A j \in Span(b, PagesOf(b)) : j \notin Span(base, n)
  <2> SUFFICES ASSUME NEW b \in live, NEW j \in Span(b, PagesOf(b)), j \in Span(base, n)
               PROVE  FALSE
    OBVIOUS
  <2>1. j \in 0 .. last /\ segs[j].key # FreeKey
    BY <1>9
  <2> QED BY <2>1, <1>8, <1>1, <1>7 DEF Span
<1>12. \A b \in live : /\ segs'[b] = segs[b] /\ PagesOf(b)' = PagesOf(b)
                       /\ \A j \in Span(b, PagesOf(b)) : segs'[j] = segs[j]
  <2> SUFFICES ASSUME NEW b \in live, NEW j \in Span(b, PagesOf(b))
               PROVE  segs'[j] = segs[j]
    BY <1>10 DEF PagesOf
  <2> QED BY <1>6, <1>7, <1>9, <1>11
<1>13. /\ base \in Ids /\ base \in Span(base, n) /\ Span(base, n) \subseteq 0 .. last'
       /\ 0 .. last' \subseteq Ids /\ last <= last'
  BY <1>1, <1>2, <1>7, <1>8, SizeAssumption DEF Span, Ids, StateOK
<1>14. PagesOf(base)' = n
  BY <1>5, <1>13 DEF PagesOf, n
<1>15. (\A b \in live : PagesOf(b) > 0 /\ Span(b, PagesOf(b)) \subseteq 0 .. last)'
  <2> SUFFICES ASSUME NEW b \in live'
               PROVE  PagesOf(b)' > 0 /\ Span(b, PagesOf(b)') \subseteq 0 .. last'
    BY DEF Span
  <2>1. CASE b \in live
    <3>1. 0 .. last \subseteq 0 .. last'
      BY <1>7, <1>13, <1>8, <1>1
    <3> QED BY <2>1, <3>1, <1>9, <1>12
  <2>2. CASE b = base
    BY <2>2, <1>2, <1>13, <1>14
  <2> QED BY <2>1, <2>2, <1>4
<1>16. (\A b, c \in live : b < c => b + PagesOf(b) <= c)'
  <2> SUFFICES ASSUME NEW b \in live', NEW c \in live', b < c
               PROVE  b + PagesOf(b)' <= c
    OBVIOUS
  <2>1. CASE b \in live /\ c \in live
    BY <2>1, <1>9, <1>12
  <2>2. CASE b = base /\ c \in live
    <3>1. c \notin Span(base, n)
      BY <2>2, <1>10, <1>11
    <3> QED BY <2>2, <3>1, <1>1, <1>10, <1>14 DEF Span
  <2>3. CASE b \in live /\ c = base
    <3>1. base \notin Span(b, PagesOf(b))
      BY <2>3, <1>11, <1>13
    <3>2. PagesOf(b)' = PagesOf(b) /\ PagesOf(b) \in Nat /\ b \in Nat
      BY <2>3, <1>10, <1>12
    <3> HIDE DEF n
    <3> QED BY <2>3, <3>1, <3>2, <1>1 DEF Span
  <2>4. CASE b = base /\ c = base
    BY <2>4, <1>1
  <2> QED BY <2>1, <2>2, <2>3, <2>4, <1>4
<1>17. (\A b \in live : \A j \in Span(b, PagesOf(b)) :
                   /\ segs[j].key = segs[b].key /\ segs[j].key # FreeKey
                   /\ segs[j].segsz = segs[b].segsz
                   /\ segs[j].pa.f # NoFrame)'
  <2> SUFFICES ASSUME NEW b \in live', NEW j \in Span(b, PagesOf(b)')
               PROVE  /\ segs'[j].key = segs'[b].key /\ segs'[j].key # FreeKey
                      /\ segs'[j].segsz = segs'[b].segsz
                      /\ segs'[j].pa.f # NoFrame
    BY DEF Span
  <2>1. CASE b \in live
    BY <2>1, <1>9, <1>12
  <2>2. CASE b = base
    <3>1. j \in Span(base, n) /\ j \in Ids /\ key # FreeKey
      BY <2>2, <1>13, <1>14
    <3> QED BY <2>2, <3>1, <1>5, <1>13
  <2> QED BY <2>1, <2>2, <1>4
<1>18. (\A j \in 0 .. last : Covered(j) \/ Vacant(segs[j]))'
  <2> SUFFICES ASSUME NEW j \in 0 .. last', ~Covered(j)' PROVE Vacant(segs[j])'
    OBVIOUS
  <2>1. j \notin Span(base, n)
    BY <1>4, <1>14 DEF Covered, Span
  <2>2. j \in 0 .. last
    BY <2>1, <1>8, <1>1, <1>7 DEF Span
  <2>3. ~Covered(j)
    BY <1>4, <1>12 DEF Covered, Span
  <2>4. segs'[j] = segs[j]
    BY <2>1, <2>2, <1>6, <1>7
  <2> QED BY <2>2, <2>3, <2>4, <1>9 DEF Vacant
<1> QED BY <1>15, <1>16, <1>17, <1>18, TiledParts, PTL

\* removeshm of an existing segment: nothing of it is left, the others stay.
LEMMA FreeTiled ==
    ASSUME StateOK, StateOK', Tiled, NEW id \in live, FreeshmPages(id, PagesOf(id))
    PROVE  Tiled'
<1>1. /\ \A b \in live : PagesOf(b) > 0 /\ Span(b, PagesOf(b)) \subseteq 0 .. last
      /\ \A b, c \in live : b < c => b + PagesOf(b) <= c
      /\ \A b \in live : \A j \in Span(b, PagesOf(b)) :
                   /\ segs[j].key = segs[b].key /\ segs[j].key # FreeKey
                   /\ segs[j].segsz = segs[b].segsz
                   /\ segs[j].pa.f # NoFrame
      /\ \A j \in 0 .. last : Covered(j) \/ Vacant(segs[j])
  BY TiledParts
<1>2. live \subseteq Ids /\ 0 .. last \subseteq Ids
  BY SizeAssumption DEF StateOK, Ids
<1>3. CASE \E j \in Span(id, PagesOf(id)) : segs[j].pa = NullPa
  BY <1>3, PanicTiled DEF FreeshmPages
<1>4. CASE ~\E j \in Span(id, PagesOf(id)) : segs[j].pa = NullPa
  <2>1. PICK n : n = PagesOf(id)
    OBVIOUS
  <2>2. last' = last /\ live' = live \ {id} /\ segs' = Freed(id, n)
    BY <1>4, <2>1 DEF FreeshmPages
  <2>3. \A j \in Ids : segs'[j] = IF j \in Span(id, n) THEN FreedSeg ELSE segs[j]
    BY <2>2 DEF Freed
  <2>4. \A b \in live : PagesOf(b) \in Nat /\ b \in Nat /\ b \in Span(b, PagesOf(b))
    <3> SUFFICES ASSUME NEW b \in live
                 PROVE  PagesOf(b) \in Nat /\ b \in Nat /\ b \in Span(b, PagesOf(b))
      OBVIOUS
    <3>1. PagesOf(b) \in Nat /\ b \in Nat /\ PagesOf(b) > 0
      BY <1>1, <1>2, PagesOfType
    <3> QED BY <3>1, SpanBase
  <2>5. \A b \in live \ {id} : \A j \in Span(b, PagesOf(b)) : j \notin Span(id, n)
    <3> SUFFICES ASSUME NEW b \in live \ {id}, NEW j \in Span(b, PagesOf(b)),
                        j \in Span(id, n)
                 PROVE  FALSE
      OBVIOUS
    <3>1. b < id \/ id < b
      BY <2>4
    <3>2. b + PagesOf(b) <= id \/ id + n <= b
      BY <1>1, <2>1, <3>1
    <3> QED BY <3>2, <2>1, <2>4 DEF Span
  <2>6. \A b \in live' : /\ b \in live /\ segs'[b] = segs[b] /\ PagesOf(b)' = PagesOf(b)
                         /\ \A j \in Span(b, PagesOf(b)) : segs'[j] = segs[j]
    <3> SUFFICES ASSUME NEW b \in live \ {id}, NEW j \in Span(b, PagesOf(b))
                 PROVE  segs'[j] = segs[j]
      BY <2>2, <2>4 DEF PagesOf
    <3> QED BY <1>1, <1>2, <2>3, <2>5
  <2>7. (\A b \in live : PagesOf(b) > 0 /\ Span(b, PagesOf(b)) \subseteq 0 .. last)'
    BY <1>1, <2>2, <2>6 DEF Span
  <2>8. (\A b, c \in live : b < c => b + PagesOf(b) <= c)'
    BY <1>1, <2>6
  <2>9. (\A b \in live : \A j \in Span(b, PagesOf(b)) :
                   /\ segs[j].key = segs[b].key /\ segs[j].key # FreeKey
                   /\ segs[j].segsz = segs[b].segsz
                   /\ segs[j].pa.f # NoFrame)'
    <3> SUFFICES ASSUME NEW b \in live', NEW j \in Span(b, PagesOf(b)')
                 PROVE  /\ segs'[j].key = segs'[b].key /\ segs'[j].key # FreeKey
                        /\ segs'[j].segsz = segs'[b].segsz
                        /\ segs'[j].pa.f # NoFrame
      BY DEF Span
    <3> QED BY <1>1, <2>6
  <2>10. (\A j \in 0 .. last : Covered(j) \/ Vacant(segs[j]))'
    <3> SUFFICES ASSUME NEW j \in 0 .. last, ~Covered(j)' PROVE Vacant(segs[j])'
      BY <2>2
    <3>1. CASE j \in Span(id, n)
      <4>1. segs'[j] = FreedSeg
        BY <3>1, <1>2, <2>3
      <4> QED BY <4>1 DEF Vacant, FreedSeg
    <3>2. CASE j \notin Span(id, n)
      <4>1. ~Covered(j)
        BY <3>2, <2>1, <2>2, <2>6 DEF Covered, Span
      <4> QED BY <4>1, <3>2, <1>1, <1>2, <2>3 DEF Vacant
    <3> QED BY <3>1, <3>2
  <2> QED BY <2>7, <2>8, <2>9, <2>10, TiledParts, PTL
<1> QED BY <1>3, <1>4

LEMMA RemoveIdTiled ==
    ASSUME StateOK, StateOK', Tiled, NEW id \in live, RemoveId(id)
    PROVE  Tiled'
<1> DEFINE n == Pages(segs[id].segsz)
           frees == segs[id].nattch = 0 /\ (n > 0 \/ "SHM_DEST" \in segs[id].mode)
<1>1. CASE id + n > SHMMAXSEG
  BY <1>1, PanicTiled DEF RemoveId
<1>2. CASE ~(id + n > SHMMAXSEG) /\ frees
  BY <1>2, FreeTiled DEF RemoveId, PagesOf
<1>3. CASE ~(id + n > SHMMAXSEG) /\ ~frees
  <2>1. segs' = [j \in Ids |->
           IF j \in Span(id, n) THEN [segs[j] EXCEPT !.mode = {"SHM_DEST"}] ELSE segs[j]]
    BY <1>3 DEF RemoveId
  <2>2. last' = last /\ live' = live
    BY <1>3 DEF RemoveId
  <2>3. \A x \in Seg : LET y == [x EXCEPT !.mode = {"SHM_DEST"}]
                       IN  y.key = x.key /\ y.segsz = x.segsz /\ y.pa = x.pa
    BY DEF Seg
  <2>4. \A j \in Ids : segs[j] \in Seg
    BY DEF StateOK
  <2>5. \A j \in Ids : /\ segs'[j].key = segs[j].key
                       /\ segs'[j].segsz = segs[j].segsz
                       /\ segs'[j].pa = segs[j].pa
    <3> HIDE DEF n
    <3> QED BY <2>1, <2>3, <2>4
  <2> QED BY <2>2, <2>5, SameTiled
<1> QED BY <1>1, <1>2, <1>3

\* The lowest entry with a key is the first entry of a segment.
LEMMA FirstWithKeyLive ==
    ASSUME StateOK, Tiled, NEW key, key # FreeKey, HasKey(key)
    PROVE  FirstWithKey(key) \in live
<1> DEFINE T == {j \in 0 .. last : segs[j].key = key}
<1>1. T \in SUBSET Nat /\ T # {}
  BY DEF HasKey
<1>2. PICK x \in T : \A y \in T : x <= y
  <2> HIDE DEF T
  <2> QED BY <1>1, LeastNat
<1>3. x \in 0 .. last /\ segs[x].key = key /\ \A k \in 0 .. x - 1 : segs[k].key # key
  BY <1>2 DEF StateOK
<1>4. PICK f \in 0 .. last :
        f = FirstWithKey(key) /\ segs[f].key = key /\ \A k \in 0 .. f - 1 : segs[k].key # key
  BY <1>3 DEF FirstWithKey
<1>5. Covered(f)
  BY <1>4, TiledParts DEF Vacant
<1>6. PICK b \in live : f \in Span(b, PagesOf(b))
  BY <1>5 DEF Covered
<1>7. segs[f].key = segs[b].key
  BY <1>6, TiledParts
<1>8. PagesOf(b) \in Nat /\ b \in Nat
  BY PagesOfType DEF StateOK
<1>9. b = f
  BY <1>4, <1>6, <1>7, <1>8 DEF Span
<1> QED BY <1>9, <1>4

\* The page of an entry of a live segment lies inside the table.
LEMMA SpanInTable ==
    ASSUME StateOK, Tiled, NEW b \in live
    PROVE  /\ b \in Ids /\ PagesOf(b) \in Nat /\ PagesOf(b) > 0
           /\ Span(b, PagesOf(b)) \subseteq Ids
           /\ b \in Span(b, PagesOf(b))
<1>1. b \in Ids
  BY DEF StateOK
<1>2. PagesOf(b) \in Nat /\ PagesOf(b) > 0 /\ b \in Nat
  BY <1>1, PagesOfType DEF Tiled
<1>3. 0 .. last \subseteq Ids
  BY SizeAssumption DEF StateOK, Ids
<1>4. Span(b, PagesOf(b)) \subseteq 0 .. last
  BY DEF Tiled
<1> QED BY <1>1, <1>2, <1>3, <1>4, SpanBase

\* Different live segments share no entry.
LEMMA LiveDisjoint ==
    ASSUME StateOK, Tiled, NEW b \in live, NEW c \in live,
           NEW j \in Span(b, PagesOf(b)), j \in Span(c, PagesOf(c))
    PROVE  b = c
<1>1. b \in Nat /\ c \in Nat /\ PagesOf(b) \in Nat /\ PagesOf(c) \in Nat
  BY SpanInTable DEF Ids
<1>2. (b < c => b + PagesOf(b) <= c) /\ (c < b => c + PagesOf(c) <= b)
  BY DEF Tiled
<1> QED BY <1>1, <1>2 DEF Span

(***************************************************************************)
(* IPC_SET with the size and the count of the segment gives the entries of *)
(* the segment another key and mode, and changes nothing else.             *)
(***************************************************************************)
LEMMA SetSegs ==
    ASSUME StateOK, Tiled, NEW p \in Procs, NEW id \in live, NEW buf \in SetBufs,
           ShmctlSet(p, id, buf), MaySet(id, buf)
    PROVE  \/ Panic("wild")
           \/ /\ \A j \in Ids : segs'[j].segsz = segs[j].segsz /\ segs'[j].pa = segs[j].pa
              /\ \A j \in Ids : segs'[j].key = IF j \in Span(id, PagesOf(id)) THEN buf.key
                                                ELSE segs[j].key
              /\ \A j \in Ids : j \notin Span(id, PagesOf(id)) => segs'[j] = segs[j]
              /\ segs'[id].nattch = segs[id].nattch
              /\ buf.key # FreeKey
              /\ UNCHANGED <<last, live, attaches, att, pte, state>>
<1>1. PICK n : n = PagesOf(id)
  OBVIOUS
<1>2. n = Pages(buf.segsz) /\ buf.key # FreeKey
      /\ buf.segsz = segs[id].segsz /\ buf.nattch = segs[id].nattch
  BY <1>1 DEF MaySet, PagesOf
<1>3. CASE id + n > SHMMAXSEG
  BY <1>2, <1>3 DEF ShmctlSet
<1>4. CASE ~(id + n > SHMMAXSEG)
  <2>1. /\ segs' = [j \in Ids |->
              IF j \in Span(id, n)
              THEN [segs[j] EXCEPT !.key = buf.key, !.mode = buf.mode,
                                   !.segsz = buf.segsz, !.nattch = buf.nattch]
              ELSE segs[j]]
        /\ UNCHANGED <<last, live, attaches, att, pte, state>>
    BY <1>2, <1>4 DEF ShmctlSet
  <2>2. \A x \in Seg : \A k, m, z, c :
            LET y == [x EXCEPT !.key = k, !.mode = m, !.segsz = z, !.nattch = c]
            IN  y.key = k /\ y.segsz = z /\ y.nattch = c /\ y.pa = x.pa
    BY DEF Seg
  <2>3. \A j \in Ids : segs[j] \in Seg
    BY DEF StateOK
  <2>4. id \in Ids /\ id \in Span(id, n) /\ Span(id, n) \subseteq Ids
    BY <1>1, SpanInTable
  <2>5. \A j \in Span(id, n) : segs[j].segsz = segs[id].segsz
    BY <1>1 DEF Tiled
  <2>6. \A j \in Span(id, n) :
            /\ segs'[j].key = buf.key /\ segs'[j].segsz = buf.segsz
            /\ segs'[j].nattch = buf.nattch /\ segs'[j].pa = segs[j].pa
    <3> SUFFICES ASSUME NEW j \in Span(id, n)
                 PROVE  /\ segs'[j].key = buf.key /\ segs'[j].segsz = buf.segsz
                        /\ segs'[j].nattch = buf.nattch /\ segs'[j].pa = segs[j].pa
      OBVIOUS
    <3>1. j \in Ids /\ segs[j] \in Seg
      BY <2>3, <2>4
    <3>2. segs'[j] = [segs[j] EXCEPT !.key = buf.key, !.mode = buf.mode,
                                     !.segsz = buf.segsz, !.nattch = buf.nattch]
      BY <2>1, <3>1
    <3> QED BY <2>2, <3>1, <3>2
  <2>7. \A j \in Ids : j \notin Span(id, n) => segs'[j] = segs[j]
    BY <2>1
  <2> QED BY <1>1, <1>2, <2>1, <2>4, <2>5, <2>6, <2>7
<1> QED BY <1>3, <1>4

LEMMA SetTiled ==
    ASSUME StateOK, StateOK', Tiled, NEW p \in Procs, NEW id \in live, NEW buf \in SetBufs,
           ShmctlSet(p, id, buf), MaySet(id, buf)
    PROVE  Tiled'
<1> DEFINE n == PagesOf(id)
<1>1. CASE Panic("wild")
  BY <1>1, PanicTiled
<1>2. CASE ~Panic("wild")
  <2>1. /\ \A j \in Ids : segs'[j].segsz = segs[j].segsz /\ segs'[j].pa = segs[j].pa
        /\ \A j \in Ids : segs'[j].key = IF j \in Span(id, n) THEN buf.key ELSE segs[j].key
        /\ buf.key # FreeKey /\ last' = last /\ live' = live
        /\ \A j \in Ids : j \notin Span(id, n) => segs'[j] = segs[j]
    BY <1>2, SetSegs
  <2>2. \A b \in live : b \in Ids /\ PagesOf(b)' = PagesOf(b)
                        /\ Span(b, PagesOf(b)) \subseteq Ids /\ b \in Span(b, PagesOf(b))
    BY <2>1, SpanInTable DEF PagesOf
  <2>3. (\A b \in live : PagesOf(b) > 0 /\ Span(b, PagesOf(b)) \subseteq 0 .. last)'
    BY <2>1, <2>2 DEF Tiled
  <2>4. (\A b, c \in live : b < c => b + PagesOf(b) <= c)'
    BY <2>1, <2>2 DEF Tiled
  <2>5. (\A b \in live : \A j \in Span(b, PagesOf(b)) :
                     /\ segs[j].key = segs[b].key /\ segs[j].key # FreeKey
                     /\ segs[j].segsz = segs[b].segsz
                     /\ segs[j].pa.f # NoFrame)'
    <3> SUFFICES ASSUME NEW b \in live, NEW j \in Span(b, PagesOf(b))
                 PROVE  /\ segs'[j].key = segs'[b].key /\ segs'[j].key # FreeKey
                        /\ segs'[j].segsz = segs'[b].segsz
                        /\ segs'[j].pa.f # NoFrame
      BY <2>1, <2>2
    <3>1. j \in Ids /\ b \in Ids /\ b \in Span(b, PagesOf(b))
      BY <2>2
    <3>2. /\ segs[j].key = segs[b].key /\ segs[j].key # FreeKey
          /\ segs[j].segsz = segs[b].segsz
          /\ segs[j].pa.f # NoFrame
      BY DEF Tiled
    <3>3. CASE b = id
      <4>1. segs'[j].key = buf.key /\ segs'[b].key = buf.key
        BY <2>1, <3>1, <3>3
      <4> QED BY <2>1, <3>1, <3>2, <4>1
    <3>4. CASE b # id
      <4>1. j \notin Span(id, n) /\ b \notin Span(id, n)
        BY <3>1, <3>4, LiveDisjoint
      <4> QED BY <2>1, <3>1, <3>2, <4>1
    <3> QED BY <3>3, <3>4
  <2>6. (\A j \in 0 .. last : Covered(j) \/ Vacant(segs[j]))'
    <3> SUFFICES ASSUME NEW j \in 0 .. last PROVE Covered(j)' \/ Vacant(segs[j])'
      BY <2>1
    <3>1. CASE Covered(j)
      BY <3>1, <2>1, <2>2 DEF Covered
    <3>2. CASE ~Covered(j)
      <4>1. Vacant(segs[j]) /\ j \notin Span(id, n)
        BY <3>2, TiledParts DEF Covered
      <4>2. j \in Ids
        BY SizeAssumption DEF StateOK, Ids
      <4>3. segs'[j] = segs[j]
        BY <2>1, <4>1, <4>2
      <4> QED BY <4>1, <4>3 DEF Vacant
    <3> QED BY <3>1, <3>2
  <2> QED BY <2>3, <2>4, <2>5, <2>6, TiledParts, PTL
<1> QED BY <1>1, <1>2

LEMMA CallsTiled ==
    ASSUME StateOK, StateOK', Tiled, strays \in 0 .. MaxStrays, strays' = 0,
           NEW p \in Procs
    PROVE  /\ \A id \in Ids, addr \in AtSlots \cup {NULL}, flag \in AtFlags :
                 Shmat(p, id, addr, flag) => Tiled'
           /\ \A s \in Slots : Shmdt(p, s) => Tiled'
           /\ \A id \in Ids, buf \in SetBufs : ShmctlSet(p, id, buf) => Tiled'
           /\ \A id \in Ids : ShmctlRmid(p, id) => Tiled'
           /\ \A id \in RemoveIds : Removeshm(p, id) => Tiled'
           /\ \A key \in Keys : RemoveshmKey(p, key) => Tiled'
           /\ \A c \in Procs : Fork(p, c) => Tiled'
           /\ Exec(p) \/ Exit(p) \/ Wait(p) \/ HolderPanics(p) => Tiled'
<1>0. \A j \in Ids : segs[j] \in Seg
  BY DEF StateOK
<1>1. ASSUME NEW id \in Ids, NEW addr \in AtSlots \cup {NULL}, NEW flag \in AtFlags,
             Shmat(p, id, addr, flag)
      PROVE  Tiled'
  <2> DEFINE n == Pages(segs[id].segsz)
             s == IF addr = NULL THEN FreeSlot(p, n) ELSE addr
  <2>1. \/ \E reason : Panic(reason)
        \/ AttachPages(p, id, s, n, flag)
        \/ AttachFails(p, id, s)
    BY <1>1 DEF Shmat
  <2>2. CASE AttachPages(p, id, s, n, flag)
    <3>1. segs' = Attached(id, n) /\ last' = last /\ live' = live
      BY <2>2 DEF AttachPages
    <3>2. \A x \in Seg : \A d : LET y == [x EXCEPT !.nattch = d]
                                IN  y.key = x.key /\ y.segsz = x.segsz /\ y.pa = x.pa
      BY DEF Seg
    <3>3. \A j \in Ids : /\ segs'[j].key = segs[j].key
                         /\ segs'[j].segsz = segs[j].segsz
                         /\ segs'[j].pa = segs[j].pa
      <4> HIDE DEF n
      <4> QED BY <1>0, <3>1, <3>2 DEF Attached
    <3> QED BY <3>1, <3>3, SameTiled
  <2>3. CASE AttachFails(p, id, s)
    BY <2>3, SameTiled DEF AttachFails
  <2> QED BY <2>1, <2>2, <2>3, PanicTiled
<1>2. ASSUME NEW s \in Slots, Shmdt(p, s) PROVE Tiled'
  <2> DEFINE id == att[p][s].shmid
             n == Pages(segs[id].segsz)
  <2>1. \/ \E reason : Panic(reason)
        \/ DetachPages(p, id, s, n)
    BY <1>2 DEF Shmdt
  <2>2. CASE DetachPages(p, id, s, n)
    <3>1. segs' = Detached(id, n) /\ last' = last /\ live' = live
      BY <2>2 DEF DetachPages
    <3>2. \A x \in Seg : \A d, e : LET y == [x EXCEPT !.nattch = d, !.mode = e]
                                   IN  y.key = x.key /\ y.segsz = x.segsz /\ y.pa = x.pa
      BY DEF Seg
    <3>3. \A j \in Ids : /\ segs'[j].key = segs[j].key
                         /\ segs'[j].segsz = segs[j].segsz
                         /\ segs'[j].pa = segs[j].pa
      <4> HIDE DEF n, id
      <4> SUFFICES ASSUME NEW j \in Ids
                   PROVE  /\ segs'[j].key = segs[j].key
                          /\ segs'[j].segsz = segs[j].segsz
                          /\ segs'[j].pa = segs[j].pa
        OBVIOUS
      <4>1. PICK d, e : segs'[j] = [segs[j] EXCEPT !.nattch = d, !.mode = e]
        BY <3>1 DEF Detached
      <4> QED BY <4>1, <1>0, <3>2
    <3> QED BY <3>1, <3>3, SameTiled
  <2> QED BY <2>1, <2>2, PanicTiled
<1>3. ASSUME NEW id \in Ids, ShmctlRmid(p, id) PROVE Tiled'
  <2> DEFINE n == Pages(segs[id].segsz)
  <2>1. CASE id + n > SHMMAXSEG
    BY <1>3, <2>1, PanicTiled DEF ShmctlRmid
  <2>2. CASE ~(id + n > SHMMAXSEG)
    <3>1. /\ segs' = [j \in Ids |->
                IF j \in Span(id, n) THEN [segs[j] EXCEPT !.mode = @ \cup {"SHM_DEST"}]
                ELSE segs[j]]
          /\ last' = last /\ live' = live
      BY <1>3, <2>2 DEF ShmctlRmid
    <3>2. \A x \in Seg : \A e : LET y == [x EXCEPT !.mode = e]
                                IN  y.key = x.key /\ y.segsz = x.segsz /\ y.pa = x.pa
      BY DEF Seg
    <3>3. \A j \in Ids : /\ segs'[j].key = segs[j].key
                         /\ segs'[j].segsz = segs[j].segsz
                         /\ segs'[j].pa = segs[j].pa
      <4> HIDE DEF n
      <4> QED BY <1>0, <3>1, <3>2
    <3> QED BY <3>1, <3>3, SameTiled
  <2> QED BY <2>1, <2>2
<1>4. ASSUME NEW id \in RemoveIds, Removeshm(p, id) PROVE Tiled'
  <2>1. id \in live
    <3> DEFINE r == id \in live
    <3>1. Keeps(r) /\ r \in BOOLEAN
      BY <1>4 DEF Removeshm
    <3> HIDE DEF r
    <3>2. r
      BY <3>1, KeptRule
    <3> QED BY <3>2 DEF r
  <2>2. id \in Ids
    BY <2>1 DEF StateOK
  <2> QED BY <1>4, <2>1, <2>2, RemoveIdTiled DEF Removeshm
<1>5. ASSUME NEW key \in Keys, RemoveshmKey(p, key) PROVE Tiled'
  <2>1. key # FreeKey
    BY <1>5, KeptRule DEF RemoveshmKey
  <2> QED BY <1>5, <2>1, RemoveIdTiled, FirstWithKeyLive DEF RemoveshmKey
<1>6. \A x \in Seg : \A d : LET y == [x EXCEPT !.nattch = d]
                            IN  y.key = x.key /\ y.segsz = x.segsz /\ y.pa = x.pa
  BY DEF Seg
<1>7. ASSUME NEW c \in Procs, Fork(p, c) PROVE Tiled'
  <2> DEFINE S == IF p = Root THEN {} ELSE SlotsForked(p)
  <2>1. CASE OverrunsTable(p, S)
    BY <1>7, <2>1, PanicTiled DEF Fork
  <2>2. CASE ~OverrunsTable(p, S)
    <3>1. /\ segs' = [j \in Ids |->
                [segs[j] EXCEPT !.nattch = (@ + Touches(p, S, j)) % UINTMOD]]
          /\ last' = last /\ live' = live
      BY <1>7, <2>2 DEF Fork
    <3>2. \A j \in Ids : /\ segs'[j].key = segs[j].key
                         /\ segs'[j].segsz = segs[j].segsz
                         /\ segs'[j].pa = segs[j].pa
      <4> HIDE DEF S
      <4> QED BY <1>0, <1>6, <3>1
    <3> QED BY <3>1, <3>2, SameTiled
  <2> QED BY <2>1, <2>2
<1>8. ASSUME Exec(p) PROVE Tiled'
  <2> DEFINE S == SlotsAttached(p)
  <2>1. CASE OverrunsTable(p, S)
    BY <1>8, <2>1, PanicTiled DEF Exec
  <2>2. CASE ~OverrunsTable(p, S)
    <3>1. /\ segs' = [j \in Ids |->
                [segs[j] EXCEPT !.nattch =
                    (@ + UINTMOD * Touches(p, S, j) - Touches(p, S, j)) % UINTMOD]]
          /\ last' = last /\ live' = live
      BY <1>8, <2>2 DEF Exec
    <3>2. \A j \in Ids : /\ segs'[j].key = segs[j].key
                         /\ segs'[j].segsz = segs[j].segsz
                         /\ segs'[j].pa = segs[j].pa
      <4> HIDE DEF S
      <4> QED BY <1>0, <1>6, <3>1
    <3> QED BY <3>1, <3>2, SameTiled
  <2> QED BY <2>1, <2>2
<1>9. ASSUME Exit(p) \/ Wait(p) PROVE Tiled'
  BY <1>9, SameTiled DEF Exit, Wait
<1>10. ASSUME HolderPanics(p) PROVE Tiled'
  BY <1>10, PanicTiled DEF HolderPanics
<1>11. ASSUME NEW id \in Ids, NEW buf \in SetBufs, ShmctlSet(p, id, buf) PROVE Tiled'
  <2>1. MaySet(id, buf)
    BY <1>11, KeptRule DEF ShmctlSet, MaySet
  <2> QED BY <1>11, <2>1, SetTiled DEF MaySet
<1> QED BY <1>1, <1>2, <1>3, <1>4, <1>5, <1>7, <1>8, <1>9, <1>10, <1>11

(***************************************************************************)
(* The segments programs created and did not remove tile shm_segs: no      *)
(* sequence of shmget, shmat, shmdt, shmctl, removeshm, fork, exec and     *)
(* exit makes two of them share an entry, leaves a hole allocShmSeg cannot *)
(* reuse, or lets the key search of removeshm start inside a segment, as   *)
(* long as no call broke a rule or found no memory: after a kalloc that    *)
(* fails in the middle of allocShmSeg the clean-up of unmapShmSegPage      *)
(* loses the pages it got.                                                 *)
(***************************************************************************)
THEOREM TableTiledHolds == Spec => []TableTiled
<1>1. Init => TableTiled
  BY InitTiled DEF TableTiled
<1>2. TypeOK /\ TypeOK' /\ TableTiled /\ [Next]_vars => TableTiled'
  <2> SUFFICES ASSUME TypeOK, TypeOK', TableTiled, [Next]_vars, strays' = 0
               PROVE  Tiled'
    BY DEF TableTiled
  <2>0. StateOK /\ StateOK' /\ strays \in 0 .. MaxStrays /\ strays = 0 /\ Tiled
    BY NextStrays DEF TypeOK, TableTiled
  <2>1. CASE UNCHANGED vars
    BY <2>0, <2>1, SameTiled DEF vars
  <2>2. ASSUME NEW p \in Procs, NEW key \in Keys, NEW size \in Sizes, NEW flag,
               ShmgetNoMemory(p, key, size, flag)
        PROVE  FALSE
    BY <2>0, <2>2, KeptRule DEF ShmgetNoMemory
  <2>3. ASSUME NEW p \in Procs, NEW key \in Keys, NEW size \in Sizes, NEW flag,
               ShmgetCreate(p, key, size, flag)
        PROVE  Tiled'
    <3>1. key # FreeKey
      BY <2>0, <2>3, KeptRule DEF ShmgetCreate
    <3> QED BY <2>0, <2>3, <3>1, CreateTiled
  <2>4. CASE KallocOther \/ KfreeOther \/ Halted
    BY <2>0, <2>4, SameTiled DEF KallocOther, KfreeOther, Halted, vars
  <2>5. CASE Next
    BY <2>0, <2>2, <2>3, <2>4, <2>5, CallsTiled DEF Next
  <2> QED BY <2>1, <2>5
<1> QED BY <1>1, <1>2, TypeOKHolds, PTL DEF Spec

----------------------------------------------------------------------------
(* Attaches and their counts *)

\* shm_nattch is far from the end of its range: exit does not count down, so
\* nothing else keeps it there.
CountsSmall == \A j \in Ids : segs[j].nattch + SHMMAXSEG < UINTMOD

\* The slots of an attach are marked with its segment, which exists.
Held(p) ==
    \A a \in attaches[p] :
        /\ a.shmid \in live
        /\ Span(a.slot, PagesOf(a.shmid)) \subseteq Slots
        /\ \A u \in Span(a.slot, PagesOf(a.shmid)) :
              att[p][u].isAttached /\ att[p][u].shmid = a.shmid

\* A process attaches a segment once.
Once(p) == \A a, b \in attaches[p] : a.shmid = b.shmid => a = b

\* Every attached slot belongs to an attach.
Known(p) ==
    state[p] = "running" =>
        \A u \in Slots : att[p][u].isAttached =>
            \E a \in attaches[p] : u \in Span(a.slot, PagesOf(a.shmid))

\* The shell and processes that do not run have nothing attached.
Idle(p) == p = Root \/ state[p] # "running" => attaches[p] = {}

\* A mapped slot maps the page its attach says; only a zombie keeps others.
Mapped(p) ==
    state[p] # "zombie" =>
        \A u \in Slots : pte[p][u].present =>
            \E a \in attaches[p] :
                /\ u \in Span(a.slot, PagesOf(a.shmid))
                /\ pte[p][u].pa = V2P(segs[a.shmid + (u - a.slot)].pa)

ProcInv(p) == Held(p) /\ Once(p) /\ Known(p) /\ Idle(p) /\ Mapped(p)

\* The first entry of a segment counts all its attaches.
Counted(b) ==
    IsFiniteSet(Attachments(b)) /\ Cardinality(Attachments(b)) <= segs[b].nattch

AttachInv ==
    /\ state[Root] = "running"
    /\ \A p \in Procs : ProcInv(p)
    /\ \A b \in live : Counted(b)

LEMMA AttachTypes ==
    ASSUME StateOK, NEW p \in Procs, NEW a \in attaches[p]
    PROVE  /\ a.slot \in Slots /\ a.slot \in Nat
           /\ a.shmid \in Ids /\ a.shmid \in Nat
           /\ PagesOf(a.shmid) \in Nat
<1>1. a \in AttachRec
  BY DEF StateOK
<1>2. a.slot \in Slots /\ a.shmid \in Ids
  BY <1>1 DEF AttachRec
<1> QED BY <1>2, PagesOfType DEF Slots, Ids

\* What an attach of a tiled table says of its slots.
LEMMA HeldSlots ==
    ASSUME StateOK, Tiled, NEW p \in Procs, Held(p), NEW a \in attaches[p]
    PROVE  /\ PagesOf(a.shmid) > 0
           /\ a.slot \in Span(a.slot, PagesOf(a.shmid))
           /\ att[p][a.slot].isAttached /\ att[p][a.slot].shmid = a.shmid
<1>1. a.shmid \in live
  BY DEF Held
<1>2. PagesOf(a.shmid) > 0
  BY <1>1 DEF Tiled
<1>3. a.slot \in Span(a.slot, PagesOf(a.shmid))
  BY <1>2, AttachTypes, SpanBase
<1> QED BY <1>2, <1>3 DEF Held

\* A process whose own state a step does not change, while the segments it
\* has attached keep their size and pages.
LEMMA ProcKeeps ==
    ASSUME StateOK, NEW q \in Procs, ProcInv(q),
           attaches'[q] = attaches[q], att'[q] = att[q], pte'[q] = pte[q],
           state'[q] = state[q],
           \A a \in attaches[q] :
               /\ a.shmid \in live'
               /\ PagesOf(a.shmid)' = PagesOf(a.shmid)
               /\ \A j \in Span(a.shmid, PagesOf(a.shmid)) : segs'[j].pa = segs[j].pa
    PROVE  ProcInv(q)'
<1>1. Held(q)'
  BY DEF ProcInv, Held, Span
<1>2. Once(q)' /\ Idle(q)'
  BY DEF ProcInv, Once, Idle
<1>3. Known(q)'
  BY DEF ProcInv, Known, Span
<1>4. Mapped(q)'
  <2> SUFFICES ASSUME state[q] # "zombie", NEW u \in Slots, pte[q][u].present
               PROVE  \E a \in attaches[q] :
                        /\ u \in Span(a.slot, PagesOf(a.shmid)')
                        /\ pte[q][u].pa = V2P(segs'[a.shmid + (u - a.slot)].pa)
    BY DEF Mapped, Span
  <2>1. PICK a \in attaches[q] : /\ u \in Span(a.slot, PagesOf(a.shmid))
                                 /\ pte[q][u].pa = V2P(segs[a.shmid + (u - a.slot)].pa)
    BY DEF ProcInv, Mapped
  <2>2. a.shmid + (u - a.slot) \in Span(a.shmid, PagesOf(a.shmid))
    <3>1. a.slot \in Nat /\ a.shmid \in Nat /\ PagesOf(a.shmid) \in Nat
      BY AttachTypes
    <3> QED BY <2>1, <3>1 DEF Span
  <2> QED BY <2>1, <2>2
<1> QED BY <1>1, <1>2, <1>3, <1>4 DEF ProcInv

\* A step that leaves keys, sizes and pages alone keeps every segment.
LEMMA SameKeeps ==
    ASSUME StateOK, Tiled, NEW q \in Procs, ProcInv(q), live' = live,
           \A j \in Ids : segs'[j].segsz = segs[j].segsz /\ segs'[j].pa = segs[j].pa
    PROVE  \A a \in attaches[q] :
               /\ a.shmid \in live'
               /\ PagesOf(a.shmid)' = PagesOf(a.shmid)
               /\ \A j \in Span(a.shmid, PagesOf(a.shmid)) : segs'[j].pa = segs[j].pa
<1> SUFFICES ASSUME NEW a \in attaches[q]
             PROVE  /\ a.shmid \in live'
                    /\ PagesOf(a.shmid)' = PagesOf(a.shmid)
                    /\ \A j \in Span(a.shmid, PagesOf(a.shmid)) : segs'[j].pa = segs[j].pa
  OBVIOUS
<1>1. a.shmid \in live
  BY DEF ProcInv, Held
<1>2. a.shmid \in Ids /\ Span(a.shmid, PagesOf(a.shmid)) \subseteq Ids
  BY <1>1, SpanInTable
<1> QED BY <1>1, <1>2 DEF PagesOf

LEMMA AttachmentsSame ==
    ASSUME NEW b, attaches' = attaches
    PROVE  Attachments(b)' = Attachments(b)
BY DEF Attachments, AttachesOf

LEMMA InAttachments ==
    ASSUME NEW b
    PROVE  /\ \A q \in Procs : \A a : <<q, a>> \in Attachments(b)
                                      <=> a \in attaches[q] /\ a.shmid = b
           /\ \A x \in Attachments(b) : \E q \in Procs : \E a \in attaches[q] :
                                            x = <<q, a>> /\ a.shmid = b
BY DEF Attachments, AttachesOf

\* A step that changes no process and no count of a live segment.
LEMMA SameAttaches ==
    ASSUME StateOK, Tiled, AttachInv,
           UNCHANGED <<attaches, att, pte, state, live>>,
           \A j \in Ids : segs'[j].segsz = segs[j].segsz /\ segs'[j].pa = segs[j].pa,
           \A b \in live : segs'[b].nattch = segs[b].nattch
    PROVE  AttachInv'
<1>1. ASSUME NEW q \in Procs PROVE ProcInv(q)'
  BY SameKeeps, ProcKeeps DEF AttachInv
<1>2. ASSUME NEW b \in live PROVE Counted(b)'
  BY AttachmentsSame DEF AttachInv, Counted
<1> QED BY <1>1, <1>2 DEF AttachInv

LEMMA PanicAttaches ==
    ASSUME StateOK, Tiled, AttachInv, NEW reason, Panic(reason)
    PROVE  AttachInv'
BY SameAttaches DEF Panic

LEMMA InitAttaches == Init => AttachInv
<1> SUFFICES ASSUME Init PROVE AttachInv
  OBVIOUS
<1>1. ASSUME NEW p \in Procs PROVE ProcInv(p)
  BY DEF Init, ProcInv, Held, Once, Known, Idle, Mapped, NoAttach, NoPte
<1> QED BY <1>1, NameAssumption DEF Init, AttachInv

LEMMA CreateAttaches ==
    ASSUME StateOK, Tiled, AttachInv,
           NEW p \in Procs, NEW key \in Keys, NEW size \in Sizes, NEW flag,
           ShmgetCreate(p, key, size, flag)
    PROVE  AttachInv'
<1> DEFINE n == Pages(PGROUNDUP(size))
<1>0. PICK base : base = SegIndex(n)
  OBVIOUS
<1>1. n \in Nat /\ base \in Nat /\ base + n <= SHMMAXSEG /\ n > 0
  <2>1. AllocStatus(size) = "alloc"
    BY DEF ShmgetCreate, ShmgetDecision
  <2>2. size \in Nat /\ ~(size < SHMMIN)
    BY <2>1, InputAssumption DEF AllocStatus
  <2>3. n > 0
    BY <2>2, OnePageAtLeast
  <2>4. n \in Nat /\ base \in Nat /\ base + n <= SHMMAXSEG
    BY <1>0, AllocFits DEF ShmgetCreate
  <2> QED BY <2>3, <2>4
<1>2. PICK g : segs' = WithPages(base, n, g, key, size)
  BY <1>0 DEF ShmgetCreate
<1>3. live' = live \cup {base} /\ UNCHANGED <<state, att, pte, attaches>>
  BY <1>0 DEF ShmgetCreate
<1>4. \A j \in Ids : j \notin Span(base, n) => segs'[j] = segs[j]
  BY <1>2 DEF WithPages
<1>5. \A b \in live : \A j \in Span(b, PagesOf(b)) : j \in Ids /\ j \notin Span(base, n)
  <2> SUFFICES ASSUME NEW b \in live, NEW j \in Span(b, PagesOf(b)), j \in Span(base, n)
               PROVE  FALSE
    BY SpanInTable
  <2>1. j \in 0 .. last /\ segs[j].key # FreeKey
    BY DEF Tiled
  <2>2. CASE Appends(n)
    <3>1. base = last + 1
      BY <2>2, <1>0 DEF SegIndex
    <3> HIDE DEF n
    <3> QED BY <3>1, <2>1, <1>1 DEF Span, StateOK
  <2>3. CASE ~Appends(n)
    <3> DEFINE fr == [i \in Ids |-> segs[i].key = FreeKey]
    <3>1. base = FitIndex(n) /\ FitIndex(n) # -1 /\ FitIndex(n) = ScanResult(fr, last + 1, n)
      BY <2>3, <1>0 DEF SegIndex, Appends, FitIndex
    <3>2. last + 1 \in Nat
      BY DEF StateOK
    <3>3. FitsAt(fr, last + 1, n, base)
      <4> HIDE DEF fr, n
      <4> QED BY <3>1, <3>2, <1>1, ScanResultFits
    <3>4. fr[j]
      BY <3>3 DEF FitsAt, Span
    <3> QED BY <3>4, <2>1, SpanInTable
  <2> QED BY <2>2, <2>3
<1> HIDE DEF n
<1>6. \A b \in live : /\ segs'[b] = segs[b] /\ PagesOf(b)' = PagesOf(b)
                      /\ \A j \in Span(b, PagesOf(b)) : segs'[j] = segs[j]
  BY <1>4, <1>5, SpanInTable DEF PagesOf
<1>7. ASSUME NEW q \in Procs PROVE ProcInv(q)'
  <2>1. \A a \in attaches[q] : a.shmid \in live
    BY DEF AttachInv, ProcInv, Held
  <2> QED BY <1>3, <1>6, <2>1, ProcKeeps DEF AttachInv
<1>8. ASSUME NEW b \in live' PROVE Counted(b)'
  <2>1. CASE b \in live
    BY <2>1, <1>3, <1>6, AttachmentsSame DEF AttachInv, Counted
  <2>2. CASE b \notin live
    <3>1. b = base /\ base \in Ids /\ base \in Span(base, n)
      BY <2>2, <1>1, <1>3, SizeAssumption DEF Ids, Span
    <3>2. segs'[b].nattch = 0
      BY <3>1, <1>2 DEF WithPages
    <3>3. Attachments(b) = {}
      <4>1. \A q \in Procs, a \in UNION {attaches[r] : r \in Procs} :
                a \in attaches[q] => a.shmid # b
        BY <2>2 DEF AttachInv, ProcInv, Held
      <4> QED BY <4>1, InAttachments
    <3>4. Attachments(b)' = {}
      BY <3>3, <1>3, AttachmentsSame
    <3> QED BY <3>2, <3>4, FS_EmptySet DEF Counted
  <2> QED BY <2>1, <2>2
<1> QED BY <1>3, <1>7, <1>8 DEF AttachInv

\* What removeshm frees nobody has attached.
LEMMA FreedUnattached ==
    ASSUME StateOK, AttachInv, NEW id \in live, segs[id].nattch = 0
    PROVE  Attachments(id) = {}
<1>1. IsFiniteSet(Attachments(id)) /\ Cardinality(Attachments(id)) <= 0
  BY DEF AttachInv, Counted
<1>2. Cardinality(Attachments(id)) \in Nat
  BY <1>1, FS_CardinalityType
<1> QED BY <1>1, <1>2, FS_EmptySet

LEMMA RemoveIdAttaches ==
    ASSUME StateOK, Tiled, AttachInv, NEW id \in live, RemoveId(id)
    PROVE  /\ AttachInv'
           /\ \A b \in live \ live' : Attachments(b) = {}
<1> DEFINE n == Pages(segs[id].segsz)
           frees == segs[id].nattch = 0 /\ (n > 0 \/ "SHM_DEST" \in segs[id].mode)
<1>1. CASE id + n > SHMMAXSEG
  BY <1>1, PanicAttaches DEF RemoveId, Panic
<1>2. CASE ~(id + n > SHMMAXSEG) /\ frees
  <2>1. FreeshmPages(id, n)
    BY <1>2 DEF RemoveId
  <2>2. CASE \E j \in Span(id, n) : segs[j].pa = NullPa
    BY <2>1, <2>2, PanicAttaches DEF FreeshmPages, Panic
  <2>3. CASE ~\E j \in Span(id, n) : segs[j].pa = NullPa
    <3>1. /\ segs' = Freed(id, n) /\ live' = live \ {id}
          /\ UNCHANGED <<state, att, pte, attaches>>
      BY <2>1, <2>3 DEF FreeshmPages
    <3>2. Attachments(id) = {}
      BY <1>2, FreedUnattached
    <3>3. \A b \in live \ {id} : \A j \in Span(b, PagesOf(b)) : j \in Ids /\ segs'[j] = segs[j]
      <4> SUFFICES ASSUME NEW b \in live \ {id}, NEW j \in Span(b, PagesOf(b))
                   PROVE  j \in Ids /\ segs'[j] = segs[j]
        OBVIOUS
      <4>1. j \in Ids
        BY SpanInTable
      <4>2. j \notin Span(id, n)
        BY LiveDisjoint DEF PagesOf
      <4> QED BY <4>1, <4>2, <3>1 DEF Freed
    <3>4. \A b \in live \ {id} : segs'[b] = segs[b] /\ PagesOf(b)' = PagesOf(b)
      BY <3>3, SpanInTable DEF PagesOf
    <3>5. ASSUME NEW q \in Procs PROVE ProcInv(q)'
      <4>1. \A a \in attaches[q] : a.shmid \in live \ {id}
        <5> SUFFICES ASSUME NEW a \in attaches[q] PROVE a.shmid \in live \ {id}
          OBVIOUS
        <5>1. a.shmid \in live
          BY DEF AttachInv, ProcInv, Held
        <5>2. <<q, a>> \notin Attachments(id)
          BY <3>2
        <5> QED BY <5>1, <5>2, InAttachments
      <4> QED BY <3>1, <3>3, <3>4, <4>1, ProcKeeps DEF AttachInv
    <3>6. ASSUME NEW b \in live' PROVE Counted(b)'
      BY <3>1, <3>4, <3>6, AttachmentsSame DEF AttachInv, Counted
    <3>7. AttachInv'
      BY <3>1, <3>5, <3>6 DEF AttachInv
    <3> QED BY <3>1, <3>2, <3>7
  <2> QED BY <2>2, <2>3
<1>3. CASE ~(id + n > SHMMAXSEG) /\ ~frees
  <2>1. /\ segs' = [j \in Ids |->
              IF j \in Span(id, n) THEN [segs[j] EXCEPT !.mode = {"SHM_DEST"}] ELSE segs[j]]
        /\ UNCHANGED <<state, att, pte, attaches, live>>
    BY <1>3 DEF RemoveId
  <2>2. \A x \in Seg : LET y == [x EXCEPT !.mode = {"SHM_DEST"}]
                       IN  y.nattch = x.nattch /\ y.segsz = x.segsz /\ y.pa = x.pa
    BY DEF Seg
  <2>3. \A j \in Ids : segs[j] \in Seg
    BY DEF StateOK
  <2>4. \A j \in Ids : /\ segs'[j].nattch = segs[j].nattch
                       /\ segs'[j].segsz = segs[j].segsz
                       /\ segs'[j].pa = segs[j].pa
    <3> HIDE DEF n
    <3> QED BY <2>1, <2>2, <2>3
  <2>5. AttachInv'
    <3>1. live \subseteq Ids
      BY DEF StateOK
    <3> QED BY <2>1, <2>4, <3>1, SameAttaches
  <2> QED BY <2>1, <2>5
<1> QED BY <1>1, <1>2, <1>3

\* With a page for every table, mappages does not run out of memory.
LEMMA NoEnomem ==
    ASSUME StateOK, NEW p \in Procs, NEW id, NEW s, NEW n,
           Cardinality(MissingPts(p, s, n)) <= Cardinality(free)
    PROVE  AttachStatus(p, id, s, n) # "ENOMEM"
<1> DEFINE M == MissingPts(p, s, n)
<1>1. Cardinality(M) <= Cardinality(free)
  OBVIOUS
<1>2. IsFiniteSet(M) /\ M \subseteq Nat
  <2>1. (SHMMAXSEG - 1) \div PTSPAN \in Nat
    BY SizeAssumption
  <2>2. IsFiniteSet(Pts) /\ Pts \subseteq Nat
    BY <2>1, FS_Interval DEF Pts
  <2> QED BY <2>2, FS_Subset DEF MissingPts
<1>3. Cardinality(free) \in Nat
  BY FramesFinite DEF StateOK
<1>4. ASSUME NEW t \in M
      PROVE  ~(Cardinality({x \in M : x < t}) >= Cardinality(free))
  <2>1. {x \in M : x < t} \in SUBSET M /\ t \notin {x \in M : x < t}
    BY <1>2
  <2>2. /\ Cardinality({x \in M : x < t}) <= Cardinality(M)
        /\ Cardinality(M) # Cardinality({x \in M : x < t})
    <3> DEFINE L == {x \in M : x < t}
    <3> HIDE DEF M, L
    <3>1. L \in SUBSET M /\ t \notin L
      BY <2>1 DEF L
    <3>2. Cardinality(L) <= Cardinality(M) /\ (Cardinality(M) = Cardinality(L) => M = L)
      BY <1>2, <3>1, FS_Subset
    <3>3. Cardinality(M) # Cardinality(L)
      BY <3>1, <3>2
    <3> QED BY <3>2, <3>3 DEF L
  <2>3. Cardinality(M) \in Nat /\ Cardinality({x \in M : x < t}) \in Nat
    BY <1>2, <2>1, FS_Subset, FS_CardinalityType
  <2> QED BY <1>1, <1>3, <2>2, <2>3
<1>5. \A u : ~OutOfMemory(p, s, n, u)
  BY <1>4 DEF OutOfMemory
<1> QED BY <1>5 DEF AttachStatus, MapStatus

LEMMA AttachPagesAttaches ==
    ASSUME StateOK, Tiled, AttachInv, CountsSmall,
           NEW p \in Procs, Runs(p), NEW id \in live, NEW s \in Slots, NEW flag,
           s + PagesOf(id) <= SHMMAXSEG,
           \A u \in Span(s, PagesOf(id)) : ~att[p][u].isAttached,
           \A a \in attaches[p] : a.shmid # id,
           AttachPages(p, id, s, PagesOf(id), flag)
    PROVE  AttachInv'
<1>0. PICK n \in Nat : n = PagesOf(id) /\ n > 0 /\ id \in Ids /\ Span(id, n) \subseteq Ids
  BY SpanInTable
<1>1. PICK a0 : a0 = [slot |-> s, shmid |-> id]
  OBVIOUS
<1>2. a0.slot = s /\ a0.shmid = id
  BY <1>1
<1>3. /\ segs' = Attached(id, n)
      /\ att' = [att EXCEPT ![p] = [u \in Slots |->
                    IF u \in Span(s, n) THEN [isAttached |-> TRUE, shmid |-> id]
                    ELSE att[p][u]]]
      /\ pte' = [pte EXCEPT ![p] = MappedPtes(p, id, s, n, flag)]
      /\ attaches' = [attaches EXCEPT ![p] = @ \cup {a0}]
      /\ live' = live /\ state' = state
  BY <1>0, <1>1 DEF AttachPages
<1>4. \A j \in Ids : /\ segs'[j].segsz = segs[j].segsz /\ segs'[j].pa = segs[j].pa
                     /\ segs'[j].nattch = IF j \in Span(id, n)
                                          THEN (segs[j].nattch + 1) % UINTMOD
                                          ELSE segs[j].nattch
  <2>1. \A x \in Seg : \A d : LET y == [x EXCEPT !.nattch = d]
                              IN  y.nattch = d /\ y.segsz = x.segsz /\ y.pa = x.pa
    BY DEF Seg
  <2>2. \A j \in Ids : segs[j] \in Seg
    BY DEF StateOK
  <2> QED BY <1>3, <2>1, <2>2 DEF Attached
<1>5. \A b \in live : b \in Ids /\ PagesOf(b)' = PagesOf(b)
  BY <1>4 DEF StateOK, PagesOf
<1>6. Span(s, n) \subseteq Slots /\ s \in Nat /\ id \in Nat
  BY <1>0, SizeAssumption DEF Span, Slots, Ids
<1>7. ASSUME NEW q \in Procs, q # p PROVE ProcInv(q)'
  <2>1. /\ attaches'[q] = attaches[q] /\ att'[q] = att[q] /\ pte'[q] = pte[q]
        /\ state'[q] = state[q]
    BY <1>3, <1>7 DEF StateOK
  <2>2. ProcInv(q)
    BY DEF AttachInv
  <2> QED BY <1>3, <1>4, <2>1, <2>2, SameKeeps, ProcKeeps
<1>8. /\ attaches'[p] = attaches[p] \cup {a0}
      /\ state'[p] = "running" /\ p # Root
      /\ \A u \in Slots : att'[p][u] = IF u \in Span(s, n)
                                       THEN [isAttached |-> TRUE, shmid |-> id]
                                       ELSE att[p][u]
      /\ \A u \in Slots : pte'[p][u] = MappedPtes(p, id, s, n, flag)[u]
  BY <1>3 DEF StateOK, Runs
<1>9. ProcInv(p)
  BY DEF AttachInv
<1>10. ProcInv(p)'
  <2>1. Held(p)'
    <3> SUFFICES ASSUME NEW a \in attaches'[p]
                 PROVE  /\ a.shmid \in live
                        /\ Span(a.slot, PagesOf(a.shmid)') \subseteq Slots
                        /\ \A u \in Span(a.slot, PagesOf(a.shmid)') :
                              att'[p][u].isAttached /\ att'[p][u].shmid = a.shmid
      BY <1>3 DEF Held, Span
    <3>1. CASE a \in attaches[p]
      <4>1. /\ a.shmid \in live
            /\ Span(a.slot, PagesOf(a.shmid)) \subseteq Slots
            /\ \A u \in Span(a.slot, PagesOf(a.shmid)) :
                  att[p][u].isAttached /\ att[p][u].shmid = a.shmid
        BY <3>1, <1>9 DEF ProcInv, Held
      <4>2. PagesOf(a.shmid)' = PagesOf(a.shmid)
        BY <4>1, <1>5
      <4>3. \A u \in Span(a.slot, PagesOf(a.shmid)) : u \notin Span(s, n)
        BY <4>1, <1>0
      <4> QED BY <4>1, <4>2, <4>3, <1>8
    <3>2. CASE a = a0
      BY <3>2, <1>0, <1>2, <1>5, <1>6, <1>8
    <3> QED BY <3>1, <3>2, <1>8
  <2>2. Once(p)'
    BY <1>2, <1>8, <1>9 DEF ProcInv, Once
  <2>3. Known(p)'
    <3> SUFFICES ASSUME NEW u \in Slots, att'[p][u].isAttached
                 PROVE  \E a \in attaches'[p] : u \in Span(a.slot, PagesOf(a.shmid)')
      BY DEF Known, Span
    <3>1. CASE u \in Span(s, n)
      BY <3>1, <1>0, <1>2, <1>5, <1>8
    <3>2. CASE u \notin Span(s, n)
      <4>1. att[p][u].isAttached
        BY <3>2, <1>8
      <4>2. PICK a \in attaches[p] : u \in Span(a.slot, PagesOf(a.shmid))
        BY <4>1, <1>3, <1>8, <1>9 DEF ProcInv, Known
      <4>3. a.shmid \in live
        BY <1>9 DEF ProcInv, Held
      <4> QED BY <4>2, <4>3, <1>5, <1>8
    <3> QED BY <3>1, <3>2
  <2>4. Idle(p)'
    BY <1>8 DEF Idle
  <2>5. Mapped(p)'
    <3> SUFFICES ASSUME NEW u \in Slots, pte'[p][u].present
                 PROVE  \E a \in attaches'[p] :
                          /\ u \in Span(a.slot, PagesOf(a.shmid)')
                          /\ pte'[p][u].pa = V2P(segs'[a.shmid + (u - a.slot)].pa)
      BY DEF Mapped, Span
    <3>1. CASE u \in Span(s, n)
      <4>1. pte'[p][u].pa = V2P(segs[id + (u - s)].pa)
        <5>1. pte'[p][u] = [present |-> TRUE, pa |-> V2P(segs[id + (u - s)].pa),
                            w |-> flag \in {SHM_RDONLY, SHM_REMAP}]
          BY <3>1, <1>8 DEF MappedPtes
        <5> QED BY <5>1
      <4>2. id + (u - s) \in Ids
        BY <3>1, <1>0, <1>6 DEF Span
      <4>3. pte'[p][u].pa = V2P(segs'[id + (u - s)].pa)
        BY <4>1, <4>2, <1>4
      <4> QED BY <4>3, <3>1, <1>0, <1>2, <1>5, <1>8
    <3>2. CASE u \notin Span(s, n)
      <4>1. pte'[p][u] = pte[p][u]
        BY <3>2, <1>8 DEF MappedPtes
      <4>2. PICK a \in attaches[p] : /\ u \in Span(a.slot, PagesOf(a.shmid))
                                     /\ pte[p][u].pa = V2P(segs[a.shmid + (u - a.slot)].pa)
        BY <4>1, <1>3, <1>8, <1>9 DEF ProcInv, Mapped
      <4>3. a.shmid \in live
        BY <1>9 DEF ProcInv, Held
      <4>4. a.slot \in Nat /\ a.shmid \in Nat /\ PagesOf(a.shmid) \in Nat
            /\ Span(a.shmid, PagesOf(a.shmid)) \subseteq Ids
        BY <4>3, AttachTypes, SpanInTable
      <4>5. a.shmid + (u - a.slot) \in Ids
        BY <4>2, <4>4 DEF Span
      <4> QED BY <4>1, <4>2, <4>3, <4>5, <1>4, <1>5, <1>8
    <3> QED BY <3>1, <3>2
  <2> QED BY <2>1, <2>2, <2>3, <2>4, <2>5 DEF ProcInv
<1>11. ASSUME NEW b \in live PROVE Counted(b)'
  <2>1. IsFiniteSet(Attachments(b)) /\ Cardinality(Attachments(b)) <= segs[b].nattch
        /\ Cardinality(Attachments(b)) \in Nat
    BY FS_CardinalityType DEF AttachInv, Counted
  <2>2. b \in Ids /\ segs[b].nattch \in Nat /\ segs[b].nattch + SHMMAXSEG < UINTMOD
    BY <1>5 DEF StateOK, Seg, UInt, CountsSmall
  <2>3. CASE b = id
    <3>1. segs'[b].nattch = segs[b].nattch + 1
      <4>1. segs'[b].nattch = (segs[b].nattch + 1) % UINTMOD
        BY <2>3, <1>0, <1>4, <1>6 DEF Span
      <4>2. segs[b].nattch + 1 \in Nat /\ segs[b].nattch + 1 < UINTMOD
        BY <2>2, SizeAssumption
      <4> QED BY <4>1, <4>2, SizeAssumption
    <3>2. Attachments(b)' = Attachments(b) \cup {<<p, a0>>}
      BY <2>3, <1>2, <1>3 DEF Attachments, AttachesOf, StateOK
    <3>3. /\ IsFiniteSet(Attachments(b)')
          /\ Cardinality(Attachments(b)') <= Cardinality(Attachments(b)) + 1
      <4>1. /\ IsFiniteSet(Attachments(b) \cup {<<p, a0>>})
            /\ Cardinality(Attachments(b) \cup {<<p, a0>>})
                 = IF <<p, a0>> \in Attachments(b) THEN Cardinality(Attachments(b))
                   ELSE Cardinality(Attachments(b)) + 1
        BY <2>1, FS_AddElement, Zenon
      <4> QED BY <4>1, <3>2, <2>1
    <3>4. Cardinality(Attachments(b)') \in Nat
      BY <3>3, FS_CardinalityType
    <3> QED BY <2>1, <2>2, <3>1, <3>3, <3>4 DEF Counted
  <2>4. CASE b # id
    <3>1. b \notin Span(id, n)
      BY <2>4, <1>0, SpanInTable, LiveDisjoint
    <3>2. segs'[b].nattch = segs[b].nattch
      BY <3>1, <2>2, <1>4
    <3>3. Attachments(b)' = Attachments(b)
      BY <2>4, <1>2, <1>3 DEF Attachments, AttachesOf, StateOK
    <3> QED BY <2>1, <3>2, <3>3 DEF Counted
  <2> QED BY <2>3, <2>4
<1> QED BY <1>3, <1>7, <1>10, <1>11 DEF AttachInv

LEMMA ShmatAttaches ==
    ASSUME StateOK, Tiled, AttachInv, CountsSmall, strays \in 0 .. MaxStrays, strays' = 0,
           NEW p \in Procs, NEW id \in Ids, NEW addr \in AtSlots \cup {NULL}, NEW flag,
           Shmat(p, id, addr, flag)
    PROVE  AttachInv'
<1> DEFINE n == PagesOf(id)
           s == IF addr = NULL THEN FreeSlot(p, n) ELSE addr
           m == Cardinality(MissingPts(p, s, n)) <= Cardinality(free)
<1>1. Runs(p) /\ MayAttach(p, id, addr, n, flag) /\ m
  <2> DEFINE r == MayAttach(p, id, addr, n, flag) /\ m
  <2>1. Keeps(r) /\ Runs(p)
    BY DEF Shmat, PagesOf
  <2>2. r \in BOOLEAN
    BY DEF MayAttach
  <2> HIDE DEF r
  <2>3. r
    BY <2>1, <2>2, KeptRule
  <2> QED BY <2>1, <2>3 DEF r
<1>2. /\ id \in live /\ \A a \in attaches[p] : a.shmid # id
      /\ n \in Nat /\ n > 0
  BY <1>1, SpanInTable DEF MayAttach
<1>3. /\ addr = NULL => s # -1
      /\ CASE AttachStatus(p, id, s, n) = "ok" -> AttachPages(p, id, s, n, flag)
           [] AttachStatus(p, id, s, n) = "ENOMEM" -> AttachFails(p, id, s)
           [] OTHER -> Panic(AttachStatus(p, id, s, n))
  BY <1>1 DEF Shmat, PagesOf, MayAttach
<1>4. s \in Slots /\ s + n <= SHMMAXSEG /\ \A u \in Span(s, n) : ~att[p][u].isAttached
  <2>1. CASE addr = NULL
    <3> DEFINE fr == [u \in Slots |-> ~att[p][u].isAttached]
    <3>1. SHMMAXSEG \in Nat
      BY SizeAssumption
    <3>2. FitsAt(fr, SHMMAXSEG, n, s)
      <4>1. s = ScanResult(fr, SHMMAXSEG, n) /\ s # -1
        BY <2>1, <1>3 DEF FreeSlot
      <4> HIDE DEF fr, n, s
      <4> QED BY <4>1, <3>1, <1>2, ScanResultFits
    <3>3. s \in Slots /\ s + n <= SHMMAXSEG /\ \A u \in Span(s, n) : fr[u]
      <4> HIDE DEF fr, n, s
      <4> QED BY <3>2 DEF FitsAt, Span, Slots, Ids
    <3>4. Span(s, n) \subseteq Slots
      <4> HIDE DEF n, s
      <4> QED BY <3>3, <1>2, SizeAssumption DEF Span, Slots, Ids
    <3> QED BY <3>3, <3>4
  <2>2. CASE addr # NULL
    BY <2>2, <1>1, InputAssumption DEF MayAttach, Slots, Ids
  <2> QED BY <2>1, <2>2
<1>5. AttachStatus(p, id, s, n) # "ENOMEM"
  BY <1>1, NoEnomem
<1>6. CASE AttachStatus(p, id, s, n) = "ok"
  <2>1. AttachPages(p, id, s, n, flag)
    BY <1>6, <1>3
  <2> QED BY <2>1, <1>1, <1>2, <1>4, AttachPagesAttaches
<1>7. CASE AttachStatus(p, id, s, n) # "ok"
  BY <1>7, <1>3, <1>5, PanicAttaches
<1> QED BY <1>6, <1>7

LEMMA DetachAttaches ==
    ASSUME StateOK, Tiled, AttachInv,
           NEW p \in Procs, Runs(p), NEW a0 \in attaches[p],
           DetachPages(p, a0.shmid, a0.slot, PagesOf(a0.shmid))
    PROVE  AttachInv'
<1>0. PICK id, s, n : id = a0.shmid /\ s = a0.slot /\ n = PagesOf(a0.shmid)
  OBVIOUS
<1>1. ProcInv(p)
  BY DEF AttachInv
<1>2. /\ id \in live /\ id \in Ids /\ id \in Nat /\ n \in Nat /\ n > 0
      /\ s \in Slots /\ s \in Nat /\ Span(id, n) \subseteq Ids /\ id \in Span(id, n)
      /\ s \in Span(s, n)
      /\ \A u \in Span(s, n) : u \in Slots /\ att[p][u].isAttached /\ att[p][u].shmid = id
  <2>1. id \in live /\ \A u \in Span(s, n) : u \in Slots /\ att[p][u].isAttached
                                             /\ att[p][u].shmid = id
    BY <1>0, <1>1 DEF ProcInv, Held
  <2> QED BY <1>0, <2>1, SpanInTable, AttachTypes, SpanBase
<1>3. /\ segs' = Detached(id, n)
      /\ att' = [att EXCEPT ![p] = ReleasedSlots(p, s, n)]
      /\ pte' = [pte EXCEPT ![p] = [u \in Slots |->
                    IF u \in Span(s, n) THEN NoPte ELSE pte[p][u]]]
      /\ attaches' = [attaches EXCEPT ![p] = {a \in @ : a.slot # s}]
      /\ live' = live /\ state' = state
  BY <1>0 DEF DetachPages
<1>4. \A j \in Ids : /\ segs'[j].segsz = segs[j].segsz /\ segs'[j].pa = segs[j].pa
                     /\ segs'[j].nattch = IF j \in Span(id, n)
                                          THEN (segs[j].nattch + UINTMOD - 1) % UINTMOD
                                          ELSE segs[j].nattch
  <2>1. \A x \in Seg : \A d, e : LET y == [x EXCEPT !.nattch = d, !.mode = e]
                                 IN  y.nattch = d /\ y.segsz = x.segsz /\ y.pa = x.pa
    BY DEF Seg
  <2>2. \A j \in Ids : segs[j] \in Seg
    BY DEF StateOK
  <2> SUFFICES ASSUME NEW j \in Ids
               PROVE  /\ segs'[j].segsz = segs[j].segsz /\ segs'[j].pa = segs[j].pa
                      /\ segs'[j].nattch = IF j \in Span(id, n)
                                           THEN (segs[j].nattch + UINTMOD - 1) % UINTMOD
                                           ELSE segs[j].nattch
    OBVIOUS
  <2>3. PICK d, e : /\ segs'[j] = [segs[j] EXCEPT !.nattch = d, !.mode = e]
                    /\ d = IF j \in Span(id, n)
                           THEN (segs[j].nattch + UINTMOD - 1) % UINTMOD
                           ELSE segs[j].nattch
    BY <1>3 DEF Detached
  <2> QED BY <2>1, <2>2, <2>3
<1>5. \A b \in live : b \in Ids /\ PagesOf(b)' = PagesOf(b)
  BY <1>4 DEF StateOK, PagesOf
<1>7. ASSUME NEW q \in Procs, q # p PROVE ProcInv(q)'
  <2>1. /\ attaches'[q] = attaches[q] /\ att'[q] = att[q] /\ pte'[q] = pte[q]
        /\ state'[q] = state[q]
    BY <1>3, <1>7 DEF StateOK
  <2>2. ProcInv(q)
    BY DEF AttachInv
  <2> QED BY <1>3, <1>4, <2>1, <2>2, SameKeeps, ProcKeeps
<1>8. /\ attaches'[p] = {a \in attaches[p] : a.slot # s}
      /\ state[p] = "running" /\ state'[p] = "running" /\ p # Root
      /\ \A u \in Slots : att'[p][u] = ReleasedSlots(p, s, n)[u]
      /\ \A u \in Slots : pte'[p][u] = IF u \in Span(s, n) THEN NoPte ELSE pte[p][u]
  BY <1>3 DEF StateOK, Runs
<1>9. \A u \in Slots : /\ u \notin Span(s, n) => att'[p][u] = att[p][u]
                       /\ u \in Span(s, n) => ~att'[p][u].isAttached /\ ~pte'[p][u].present
  <2> SUFFICES ASSUME NEW u \in Slots
               PROVE  /\ u \notin Span(s, n) => att'[p][u] = att[p][u]
                      /\ u \in Span(s, n) => ~att'[p][u].isAttached /\ ~pte'[p][u].present
    OBVIOUS
  <2>1. \A x \in SlotRec : ~[x EXCEPT !.isAttached = FALSE].isAttached
    BY DEF SlotRec
  <2>2. att[p][u] \in SlotRec
    BY DEF StateOK
  <2>3. att'[p][u] = IF u = s THEN NoAttach
                     ELSE IF u \in Span(s, n) THEN [att[p][u] EXCEPT !.isAttached = FALSE]
                     ELSE att[p][u]
    BY <1>8 DEF ReleasedSlots
  <2>4. ~NoAttach.isAttached /\ ~NoPte.present
    BY DEF NoAttach, NoPte
  <2>5. CASE u \notin Span(s, n)
    BY <2>3, <2>5, <1>2
  <2>6. CASE u \in Span(s, n)
    <3>1. ~pte'[p][u].present
      BY <2>4, <2>6, <1>8
    <3>2. ~att'[p][u].isAttached
      BY <2>1, <2>2, <2>3, <2>4, <2>6
    <3> QED BY <3>1, <3>2, <2>6
  <2> QED BY <2>5, <2>6
\* The other attaches of p have other slots.
<1>10. \A a \in attaches[p] : a # a0 =>
           /\ a.slot # s /\ a.shmid # id
           /\ \A u \in Span(a.slot, PagesOf(a.shmid)) : u \notin Span(s, n)
  <2> SUFFICES ASSUME NEW a \in attaches[p], a # a0
               PROVE  /\ a.slot # s /\ a.shmid # id
                      /\ \A u \in Span(a.slot, PagesOf(a.shmid)) : u \notin Span(s, n)
    OBVIOUS
  <2>1. a.shmid # id
    BY <1>0, <1>1 DEF ProcInv, Once
  <2>2. \A u \in Span(a.slot, PagesOf(a.shmid)) : att[p][u].shmid = a.shmid
    BY <1>1 DEF ProcInv, Held
  <2>3. att[p][a.slot].shmid = a.shmid
    BY <1>1, HeldSlots DEF ProcInv
  <2> QED BY <1>2, <2>1, <2>2, <2>3
<1>11. attaches'[p] = attaches[p] \ {a0}
  BY <1>0, <1>8, <1>10
<1>12. ProcInv(p)'
  <2>1. Held(p)'
    <3> SUFFICES ASSUME NEW a \in attaches'[p]
                 PROVE  /\ a.shmid \in live
                        /\ Span(a.slot, PagesOf(a.shmid)') \subseteq Slots
                        /\ \A u \in Span(a.slot, PagesOf(a.shmid)') :
                              att'[p][u].isAttached /\ att'[p][u].shmid = a.shmid
      BY <1>3 DEF Held, Span
    <3>1. /\ a.shmid \in live
          /\ Span(a.slot, PagesOf(a.shmid)) \subseteq Slots
          /\ \A u \in Span(a.slot, PagesOf(a.shmid)) :
                  att[p][u].isAttached /\ att[p][u].shmid = a.shmid
      BY <1>1, <1>11 DEF ProcInv, Held
    <3> QED BY <3>1, <1>5, <1>9, <1>10, <1>11
  <2>2. Once(p)'
    BY <1>1, <1>11 DEF ProcInv, Once
  <2>3. Known(p)'
    <3> SUFFICES ASSUME NEW u \in Slots, att'[p][u].isAttached
                 PROVE  \E a \in attaches'[p] : u \in Span(a.slot, PagesOf(a.shmid)')
      BY DEF Known, Span
    <3>1. u \notin Span(s, n) /\ att[p][u].isAttached
      BY <1>9
    <3>2. PICK a \in attaches[p] : u \in Span(a.slot, PagesOf(a.shmid))
      BY <3>1, <1>1, <1>8 DEF ProcInv, Known
    <3>3. a # a0 /\ a.shmid \in live
      BY <3>1, <3>2, <1>0, <1>1 DEF ProcInv, Held
    <3> QED BY <3>2, <3>3, <1>5, <1>11
  <2>4. Idle(p)'
    BY <1>8 DEF Idle
  <2>5. Mapped(p)'
    <3> SUFFICES ASSUME NEW u \in Slots, pte'[p][u].present
                 PROVE  \E a \in attaches'[p] :
                          /\ u \in Span(a.slot, PagesOf(a.shmid)')
                          /\ pte'[p][u].pa = V2P(segs'[a.shmid + (u - a.slot)].pa)
      BY DEF Mapped, Span
    <3>1. u \notin Span(s, n) /\ pte'[p][u] = pte[p][u]
      BY <1>8, <1>9
    <3>2. PICK a \in attaches[p] : /\ u \in Span(a.slot, PagesOf(a.shmid))
                                   /\ pte[p][u].pa = V2P(segs[a.shmid + (u - a.slot)].pa)
      BY <3>1, <1>1, <1>8 DEF ProcInv, Mapped
    <3>3. a # a0 /\ a.shmid \in live
      BY <3>1, <3>2, <1>0, <1>1 DEF ProcInv, Held
    <3>4. a.slot \in Nat /\ a.shmid \in Nat /\ PagesOf(a.shmid) \in Nat
          /\ Span(a.shmid, PagesOf(a.shmid)) \subseteq Ids
      BY <3>3, AttachTypes, SpanInTable
    <3>5. a.shmid + (u - a.slot) \in Ids
      BY <3>2, <3>4 DEF Span
    <3> QED BY <3>1, <3>2, <3>3, <3>5, <1>4, <1>5, <1>11
  <2> QED BY <2>1, <2>2, <2>3, <2>4, <2>5 DEF ProcInv
<1>13. ASSUME NEW b \in live PROVE Counted(b)'
  <2>1. IsFiniteSet(Attachments(b)) /\ Cardinality(Attachments(b)) <= segs[b].nattch
        /\ Cardinality(Attachments(b)) \in Nat
    BY FS_CardinalityType DEF AttachInv, Counted
  <2>2. b \in Ids /\ segs[b].nattch \in 0 .. UINTMOD - 1
    BY <1>5 DEF StateOK, Seg, UInt
  <2>3. CASE b = id
    <3>1. <<p, a0>> \in Attachments(b)
      BY <2>3, <1>0, InAttachments
    <3>2. Attachments(b)' = Attachments(b) \ {<<p, a0>>}
      <4>1. \A q \in Procs : attaches'[q] = IF q = p THEN attaches[p] \ {a0} ELSE attaches[q]
        BY <1>3, <1>11 DEF StateOK
      <4> QED BY <4>1 DEF Attachments, AttachesOf
    <3>3. /\ IsFiniteSet(Attachments(b)')
          /\ Cardinality(Attachments(b)') = Cardinality(Attachments(b)) - 1
      BY <2>1, <3>1, <3>2, OneLess
    <3>4. Cardinality(Attachments(b)') \in Nat
      BY <3>3, FS_CardinalityType
    <3>5. segs'[b].nattch = segs[b].nattch - 1
      <4>1. segs'[b].nattch = (segs[b].nattch + UINTMOD - 1) % UINTMOD
        BY <2>3, <1>2, <1>4
      <4>2. segs[b].nattch >= 1
        BY <2>1, <2>2, <3>3, <3>4
      <4> QED BY <4>1, <4>2, <2>2, SizeAssumption
    <3> QED BY <2>1, <2>2, <3>3, <3>5 DEF Counted
  <2>4. CASE b # id
    <3>1. b \notin Span(id, n)
      BY <2>4, <1>0, <1>2, SpanInTable, LiveDisjoint
    <3>2. segs'[b].nattch = segs[b].nattch
      BY <3>1, <2>2, <1>4
    <3>3. Attachments(b)' = Attachments(b)
      <4>1. \A q \in Procs : attaches'[q] = IF q = p THEN attaches[p] \ {a0} ELSE attaches[q]
        BY <1>3, <1>11 DEF StateOK
      <4> QED BY <4>1, <2>4, <1>0 DEF Attachments, AttachesOf
    <3> QED BY <2>1, <3>2, <3>3 DEF Counted
  <2> QED BY <2>3, <2>4
<1> QED BY <1>3, <1>7, <1>12, <1>13 DEF AttachInv

LEMMA ShmdtAttaches ==
    ASSUME StateOK, Tiled, AttachInv, strays \in 0 .. MaxStrays, strays' = 0,
           NEW p \in Procs, NEW s \in Slots, Shmdt(p, s)
    PROVE  AttachInv'
<1>0. MayDetach(p, s)
  BY KeptRule DEF Shmdt, MayDetach
<1>1. PICK a \in attaches[p] : a.slot = s
  BY <1>0 DEF MayDetach
<1>2. att[p][s].shmid = a.shmid
  BY <1>1, HeldSlots DEF AttachInv, ProcInv
<1>3. Runs(p)
  BY DEF Shmdt
<1> DEFINE id == att[p][s].shmid
           n == Pages(segs[id].segsz)
<1>4. CASE DetachStatus(p, id, s, n) = "ok"
  BY <1>1, <1>2, <1>3, <1>4, DetachAttaches DEF Shmdt, PagesOf
<1>5. CASE DetachStatus(p, id, s, n) # "ok"
  BY <1>5, PanicAttaches DEF Shmdt
<1> QED BY <1>4, <1>5

\* exec sees one run of slots for each segment the process has attached.
LEMMA ExecTouches ==
    ASSUME StateOK, Tiled, NEW p \in Procs, ProcInv(p), state[p] = "running",
           NEW b \in live
    PROVE  \/ Touches(p, SlotsAttached(p), b) = 0
           \/ /\ Touches(p, SlotsAttached(p), b) = 1
              /\ \E a \in attaches[p] : a.shmid = b
<1> DEFINE S == SlotsAttached(p)
           R == {u \in RunStarts(p, S) : b \in TouchedBy(p, u)}
<1>1. ASSUME NEW u \in S
      PROVE  u \in Slots /\ \E a \in attaches[p] : /\ u \in Span(a.slot, PagesOf(a.shmid))
                                                   /\ att[p][u].shmid = a.shmid
                                                   /\ a.shmid \in live
  <2>1. u \in Slots /\ att[p][u].isAttached
    BY DEF SlotsAttached
  <2>2. PICK a \in attaches[p] : u \in Span(a.slot, PagesOf(a.shmid))
    BY <2>1 DEF ProcInv, Known
  <2> QED BY <2>1, <2>2 DEF ProcInv, Held
<1>2. ASSUME NEW u \in R
      PROVE  u \in S /\ \E a \in attaches[p] : /\ u \in Span(a.slot, PagesOf(a.shmid))
                                               /\ att[p][u].shmid = b /\ a.shmid = b
  <2>1. u \in S
    BY DEF RunStarts
  <2>2. PICK a \in attaches[p] : /\ u \in Span(a.slot, PagesOf(a.shmid))
                                 /\ att[p][u].shmid = a.shmid /\ a.shmid \in live
    BY <1>1, <2>1
  <2>3. b \in Span(a.shmid, PagesOf(a.shmid))
    BY <2>2 DEF TouchedBy, PagesOf
  <2>4. a.shmid = b
    BY <2>2, <2>3, SpanInTable, LiveDisjoint
  <2> QED BY <2>1, <2>2, <2>4
<1>3. ASSUME NEW u \in R, NEW v \in R, v < u PROVE FALSE
  <2>1. PICK a \in attaches[p] : /\ u \in Span(a.slot, PagesOf(a.shmid))
                                 /\ att[p][u].shmid = b /\ a.shmid = b
    BY <1>2
  <2>2. PICK c \in attaches[p] : /\ v \in Span(c.slot, PagesOf(c.shmid))
                                 /\ att[p][v].shmid = b /\ c.shmid = b
    BY <1>2
  <2>3. a = c
    BY <2>1, <2>2 DEF ProcInv, Once
  <2>4. u \in S /\ v \in S
    BY <1>2
  <2>5. PICK w \in S : v < w /\ w < u /\ att[p][w].shmid # att[p][u].shmid
    BY <1>3, <2>1, <2>2, <2>4 DEF RunStarts
  <2>6. a.slot \in Nat /\ PagesOf(a.shmid) \in Nat /\ w \in Nat
    BY <2>5, <1>1, AttachTypes DEF Slots, Ids
  <2>7. w \in Span(a.slot, PagesOf(a.shmid))
    BY <2>1, <2>2, <2>3, <2>5, <2>6 DEF Span
  <2>8. att[p][w].shmid = a.shmid
    BY <2>7 DEF ProcInv, Held
  <2> QED BY <2>1, <2>5, <2>8
<1>4. R \subseteq Nat
  BY <1>1, <1>2 DEF Slots, Ids
<1>5. Touches(p, S, b) = Cardinality(R)
  BY DEF Touches
<1>6. CASE R = {}
  BY <1>5, <1>6, FS_EmptySet
<1>7. CASE R # {}
  <2>1. PICK u \in R : TRUE
    BY <1>7
  <2>2. R = {u}
    <3> SUFFICES ASSUME NEW v \in R PROVE v = u
      BY <2>1
    <3>1. u \in Nat /\ v \in Nat
      BY <1>4, <2>1
    <3>2. ~(u < v) /\ ~(v < u)
      BY <1>3, <2>1
    <3> QED BY <3>1, <3>2
  <2>3. Cardinality(R) = 1
    BY <2>2, FS_Singleton
  <2> QED BY <2>1, <2>3, <1>2, <1>5
<1> QED BY <1>6, <1>7

\* fork sees at least one.
LEMMA ForkTouches ==
    ASSUME StateOK, Tiled, NEW p \in Procs, ProcInv(p), NEW a \in attaches[p]
    PROVE  Touches(p, SlotsForked(p), a.shmid) >= 1
<1> DEFINE b == a.shmid
           S == SlotsForked(p)
           T == {u \in S : att[p][u].shmid = b}
           R == {u \in RunStarts(p, S) : b \in TouchedBy(p, u)}
<1>1. T \in SUBSET Nat
  BY DEF SlotsForked, Slots, Ids
<1>2. b \in live /\ b \in Span(b, PagesOf(b)) /\ b \in Nat
  <2>1. b \in live
    BY DEF ProcInv, Held
  <2> QED BY <2>1, SpanInTable, AttachTypes
<1>3. a.slot \in T
  <2>1. att[p][a.slot].shmid = b
    BY HeldSlots DEF ProcInv
  <2> QED BY <2>1, <1>2, AttachTypes DEF SlotsForked
<1>4. PICK x \in T : \A y \in T : x <= y
  <2> HIDE DEF T
  <2> QED BY <1>1, <1>3, LeastNat
<1>5. x \in R
  <2>1. x \in S /\ att[p][x].shmid = b
    BY <1>4
  <2>2. ASSUME NEW v \in S, v < x, att[p][v].shmid = att[p][x].shmid PROVE FALSE
    <3>1. v \in T
      BY <2>1, <2>2
    <3> QED BY <3>1, <2>2, <1>1, <1>4
  <2>3. x \in RunStarts(p, S)
    BY <2>1, <2>2 DEF RunStarts
  <2> QED BY <2>1, <2>3, <1>2 DEF TouchedBy, PagesOf
<1>6. IsFiniteSet(R)
  <2>1. IsFiniteSet(Slots)
    BY FS_Interval, SizeAssumption DEF Slots, Ids
  <2>2. R \in SUBSET Slots
    BY DEF RunStarts, SlotsForked
  <2> QED BY <2>1, <2>2, FS_Subset
<1>7. Cardinality(R) \in Nat /\ Cardinality(R) # 0
  <2> HIDE DEF R
  <2> QED BY <1>5, <1>6, FS_CardinalityType, FS_EmptySet
<1> QED BY <1>7 DEF Touches

\* ... and at most one per slot.
LEMMA TouchesBound ==
    ASSUME NEW p \in Procs, NEW S \in SUBSET Slots, NEW j \in Ids
    PROVE  Touches(p, S, j) \in Nat /\ Touches(p, S, j) <= SHMMAXSEG
<1> DEFINE R == {u \in RunStarts(p, S) : j \in TouchedBy(p, u)}
<1>1. IsFiniteSet(Slots) /\ Cardinality(Slots) = SHMMAXSEG
  BY FS_Interval, SizeAssumption DEF Slots, Ids
<1>2. R \in SUBSET Slots
  BY DEF RunStarts
<1>3. Cardinality(R) <= Cardinality(Slots)
  <2> HIDE DEF R
  <2> QED BY <1>1, <1>2, FS_Subset
<1> QED BY <1>1, <1>3, TouchesType DEF Touches

LEMMA ForkAttaches ==
    ASSUME StateOK, Tiled, AttachInv, CountsSmall,
           NEW p \in Procs, NEW c \in Procs, Fork(p, c)
    PROVE  AttachInv'
<1> DEFINE S == IF p = Root THEN {} ELSE SlotsForked(p)
<1>1. CASE OverrunsTable(p, S)
  BY <1>1, PanicAttaches DEF Fork
<1>2. CASE ~OverrunsTable(p, S)
  <2>1. /\ segs' = [j \in Ids |->
              [segs[j] EXCEPT !.nattch = (@ + Touches(p, S, j)) % UINTMOD]]
        /\ att' = [att EXCEPT ![c] = IF p = Root THEN [u \in Slots |-> NoAttach]
                                     ELSE att[p]]
        /\ state' = [state EXCEPT ![c] = "running"]
        /\ attaches' = [attaches EXCEPT ![c] = attaches[p]]
        /\ live' = live /\ pte' = pte
        /\ state[p] = "running" /\ state[c] = "unused"
    BY <1>2 DEF Fork
  <2>2. p # c /\ c # Root /\ state'[Root] = "running"
    BY <2>1, NameAssumption DEF AttachInv, StateOK
  <2>3. S \in SUBSET Slots
    BY DEF SlotsForked
  <2>4. \A j \in Ids : /\ segs'[j].segsz = segs[j].segsz /\ segs'[j].pa = segs[j].pa
                       /\ segs'[j].nattch = segs[j].nattch + Touches(p, S, j)
    <3> SUFFICES ASSUME NEW j \in Ids
                 PROVE  /\ segs'[j].segsz = segs[j].segsz /\ segs'[j].pa = segs[j].pa
                        /\ segs'[j].nattch = segs[j].nattch + Touches(p, S, j)
      OBVIOUS
    <3>1. \A x \in Seg : \A d : LET y == [x EXCEPT !.nattch = d]
                                IN  y.nattch = d /\ y.segsz = x.segsz /\ y.pa = x.pa
      BY DEF Seg
    <3>2. segs[j] \in Seg
      BY DEF StateOK
    <3>3. Touches(p, S, j) \in Nat /\ Touches(p, S, j) <= SHMMAXSEG
      BY <2>3, TouchesBound
    <3>4. segs[j].nattch \in Nat /\ segs[j].nattch + SHMMAXSEG < UINTMOD
      BY <3>2 DEF Seg, UInt, CountsSmall
    <3> HIDE DEF S
    <3>5. (segs[j].nattch + Touches(p, S, j)) % UINTMOD = segs[j].nattch + Touches(p, S, j)
      <4> DEFINE z == segs[j].nattch + Touches(p, S, j)
      <4>1. z \in Nat /\ z < UINTMOD
        BY <3>3, <3>4, SizeAssumption
      <4> HIDE DEF z
      <4>2. z % UINTMOD = z
        BY <4>1, SizeAssumption
      <4> QED BY <4>2 DEF z
    <3> QED BY <2>1, <3>1, <3>2, <3>5
  <2>5. \A b \in live : b \in Ids /\ PagesOf(b)' = PagesOf(b)
    BY <2>4 DEF StateOK, PagesOf
  <2>6. ASSUME NEW q \in Procs, q # c PROVE ProcInv(q)'
    <3>1. /\ attaches'[q] = attaches[q] /\ att'[q] = att[q] /\ pte'[q] = pte[q]
          /\ state'[q] = state[q]
      BY <2>1, <2>6 DEF StateOK
    <3>2. ProcInv(q)
      BY DEF AttachInv
    <3> QED BY <2>1, <2>4, <3>1, <3>2, SameKeeps, ProcKeeps
  <2>7. /\ attaches'[c] = attaches[p] /\ state'[c] = "running" /\ pte'[c] = pte[c]
        /\ att'[c] = IF p = Root THEN [u \in Slots |-> NoAttach] ELSE att[p]
    BY <2>1 DEF StateOK
  <2>8. /\ ProcInv(p) /\ ProcInv(c) /\ attaches[c] = {}
        /\ p = Root => attaches[p] = {}
    BY <2>1 DEF AttachInv, ProcInv, Idle
  <2>9. ProcInv(c)'
    <3>1. Held(c)'
      <4> SUFFICES ASSUME NEW a \in attaches[p]
                   PROVE  /\ a.shmid \in live
                          /\ Span(a.slot, PagesOf(a.shmid)') \subseteq Slots
                          /\ \A u \in Span(a.slot, PagesOf(a.shmid)') :
                                att'[c][u].isAttached /\ att'[c][u].shmid = a.shmid
        BY <2>1, <2>7 DEF Held, Span
      <4>1. att'[c] = att[p]
        BY <2>7, <2>8
      <4> QED BY <4>1, <2>5, <2>8 DEF ProcInv, Held
    <3>2. Once(c)'
      BY <2>7, <2>8 DEF ProcInv, Once
    <3>3. Known(c)'
      <4>1. CASE p = Root
        BY <4>1, <2>7 DEF Known, NoAttach
      <4>2. CASE p # Root
        <5> SUFFICES ASSUME NEW u \in Slots, att[p][u].isAttached
                     PROVE  \E a \in attaches[p] : u \in Span(a.slot, PagesOf(a.shmid)')
          BY <4>2, <2>7 DEF Known, Span
        <5>1. PICK a \in attaches[p] : u \in Span(a.slot, PagesOf(a.shmid))
          BY <2>1, <2>8 DEF ProcInv, Known
        <5>2. a.shmid \in live
          BY <2>8 DEF ProcInv, Held
        <5> QED BY <5>1, <5>2, <2>5
      <4> QED BY <4>1, <4>2
    <3>4. Idle(c)'
      BY <2>2, <2>7 DEF Idle
    <3>5. Mapped(c)'
      <4>1. \A u \in Slots : ~pte[c][u].present
        BY <2>1, <2>8 DEF ProcInv, Mapped
      <4> QED BY <4>1, <2>7 DEF Mapped
    <3> QED BY <3>1, <3>2, <3>3, <3>4, <3>5 DEF ProcInv
  <2>10. ASSUME NEW b \in live PROVE Counted(b)'
    <3>1. IsFiniteSet(Attachments(b)) /\ Cardinality(Attachments(b)) <= segs[b].nattch
          /\ Cardinality(Attachments(b)) \in Nat
      BY FS_CardinalityType DEF AttachInv, Counted
    <3>2. /\ b \in Ids /\ segs[b].nattch \in Nat /\ Touches(p, S, b) \in Nat
          /\ segs'[b].nattch = segs[b].nattch + Touches(p, S, b)
      BY <2>3, <2>4, <2>5, TouchesBound DEF StateOK, Seg, UInt
    <3>3. \A q \in Procs : attaches'[q] = IF q = c THEN attaches[p] ELSE attaches[q]
      BY <2>1 DEF StateOK
    <3>4. CASE \A a \in attaches[p] : a.shmid # b
      <4>1. Attachments(b)' = Attachments(b)
        BY <3>3, <3>4, <2>8 DEF Attachments, AttachesOf
      <4> QED BY <4>1, <3>1, <3>2 DEF Counted
    <3>5. CASE \E a \in attaches[p] : a.shmid = b
      <4>1. PICK a \in attaches[p] : a.shmid = b
        BY <3>5
      <4>2. Attachments(b)' = Attachments(b) \cup {<<c, a>>}
        <5>1. AttachesOf(p, b) = {a}
          BY <4>1, <2>8 DEF AttachesOf, ProcInv, Once
        <5>2. \A q \in Procs : AttachesOf(q, b)' = IF q = c THEN {a} ELSE AttachesOf(q, b)
          BY <3>3, <5>1 DEF AttachesOf
        <5>3. AttachesOf(c, b) = {}
          BY <2>8 DEF AttachesOf
        <5> QED BY <5>2, <5>3 DEF Attachments
      <4>3. /\ IsFiniteSet(Attachments(b) \cup {<<c, a>>})
            /\ Cardinality(Attachments(b) \cup {<<c, a>>})
                 = IF <<c, a>> \in Attachments(b) THEN Cardinality(Attachments(b))
                   ELSE Cardinality(Attachments(b)) + 1
        BY <3>1, FS_AddElement, Zenon
      <4>4. Touches(p, S, b) >= 1
        BY <4>1, <2>8, ForkTouches
      <4> HIDE DEF S
      <4> QED BY <4>2, <4>3, <4>4, <3>1, <3>2 DEF Counted
    <3> QED BY <3>4, <3>5
  <2> QED BY <2>1, <2>2, <2>6, <2>9, <2>10 DEF AttachInv
<1> QED BY <1>1, <1>2

LEMMA FewerAttachments ==
    ASSUME StateOK, NEW p \in Procs, attaches' = [attaches EXCEPT ![p] = {}], NEW b
    PROVE  Attachments(b)' = Attachments(b) \ {<<p, a>> : a \in AttachesOf(p, b)}
<1>1. \A q \in Procs : attaches'[q] = IF q = p THEN {} ELSE attaches[q]
  BY DEF StateOK
<1>2. \A q \in Procs : AttachesOf(q, b)' = IF q = p THEN {} ELSE AttachesOf(q, b)
  BY <1>1 DEF AttachesOf
<1> QED BY <1>2 DEF Attachments

LEMMA ExecAttaches ==
    ASSUME StateOK, Tiled, AttachInv, NEW p \in Procs, Exec(p)
    PROVE  AttachInv'
<1> DEFINE S == SlotsAttached(p)
<1>1. CASE OverrunsTable(p, S)
  BY <1>1, PanicAttaches DEF Exec
<1>2. CASE ~OverrunsTable(p, S)
  <2>1. /\ segs' = [j \in Ids |->
              [segs[j] EXCEPT !.nattch =
                  (@ + UINTMOD * Touches(p, S, j) - Touches(p, S, j)) % UINTMOD]]
        /\ att' = [att EXCEPT ![p] = [u \in Slots |-> IF u \in S THEN NoAttach ELSE att[p][u]]]
        /\ pte' = [pte EXCEPT ![p] = [u \in Slots |-> NoPte]]
        /\ attaches' = [attaches EXCEPT ![p] = {}]
        /\ live' = live /\ state' = state /\ state[p] = "running"
    BY <1>2 DEF Exec, FreeVm, Runs
  <2>2. \A j \in Ids : /\ segs'[j].segsz = segs[j].segsz /\ segs'[j].pa = segs[j].pa
                       /\ segs'[j].nattch =
                            (segs[j].nattch + UINTMOD * Touches(p, S, j) - Touches(p, S, j))
                                % UINTMOD
    <3>1. \A x \in Seg : \A d : LET y == [x EXCEPT !.nattch = d]
                                IN  y.nattch = d /\ y.segsz = x.segsz /\ y.pa = x.pa
      BY DEF Seg
    <3>2. \A j \in Ids : segs[j] \in Seg
      BY DEF StateOK
    <3> HIDE DEF S
    <3> QED BY <2>1, <3>1, <3>2
  <2>3. ASSUME NEW q \in Procs, q # p PROVE ProcInv(q)'
    <3>1. /\ attaches'[q] = attaches[q] /\ att'[q] = att[q] /\ pte'[q] = pte[q]
          /\ state'[q] = state[q]
      BY <2>1, <2>3 DEF StateOK
    <3>2. ProcInv(q)
      BY DEF AttachInv
    <3> QED BY <2>1, <2>2, <3>1, <3>2, SameKeeps, ProcKeeps
  <2>4. ProcInv(p)'
    <3>1. attaches'[p] = {} /\ \A u \in Slots : ~pte'[p][u].present
      BY <2>1 DEF StateOK, NoPte
    <3>2. \A u \in Slots : ~att'[p][u].isAttached
      BY <2>1 DEF StateOK, NoAttach, SlotsAttached
    <3> QED BY <3>1, <3>2 DEF ProcInv, Held, Once, Known, Idle, Mapped
  <2>5. ASSUME NEW b \in live PROVE Counted(b)'
    <3>1. IsFiniteSet(Attachments(b)) /\ Cardinality(Attachments(b)) <= segs[b].nattch
          /\ Cardinality(Attachments(b)) \in Nat
      BY FS_CardinalityType DEF AttachInv, Counted
    <3>2. b \in Ids /\ segs[b].nattch \in 0 .. UINTMOD - 1
      BY DEF StateOK, Seg, UInt
    <3>3. Attachments(b)' = Attachments(b) \ {<<p, a>> : a \in AttachesOf(p, b)}
      BY <2>1, FewerAttachments
    <3>4. ProcInv(p)
      BY DEF AttachInv
    <3>5. CASE Touches(p, S, b) = 0
      <4>1. segs'[b].nattch = segs[b].nattch
        <5>1. segs'[b].nattch = (segs[b].nattch + UINTMOD * 0 - 0) % UINTMOD
          BY <3>2, <3>5, <2>2
        <5> QED BY <5>1, <3>2, SizeAssumption
      <4>2. /\ IsFiniteSet(Attachments(b)')
            /\ Cardinality(Attachments(b)') <= Cardinality(Attachments(b))
        BY <3>1, <3>3, FS_Subset
      <4>3. Cardinality(Attachments(b)') \in Nat
        BY <4>2, FS_CardinalityType
      <4> QED BY <4>1, <4>2, <4>3, <3>1, <3>2 DEF Counted
    <3>6. CASE Touches(p, S, b) = 1 /\ \E a \in attaches[p] : a.shmid = b
      <4>1. PICK a \in attaches[p] : a.shmid = b
        BY <3>6
      <4>2. AttachesOf(p, b) = {a} /\ <<p, a>> \in Attachments(b)
        BY <4>1, <3>4, InAttachments DEF AttachesOf, ProcInv, Once
      <4>3. Attachments(b)' = Attachments(b) \ {<<p, a>>}
        BY <4>2, <3>3
      <4>4. /\ IsFiniteSet(Attachments(b)')
            /\ Cardinality(Attachments(b)') = Cardinality(Attachments(b)) - 1
        BY <3>1, <4>2, <4>3, FS_RemoveElement
      <4>5. Cardinality(Attachments(b)') \in Nat
        BY <4>4, FS_CardinalityType
      <4>6. segs'[b].nattch = segs[b].nattch - 1
        <5>1. segs'[b].nattch = (segs[b].nattch + UINTMOD * 1 - 1) % UINTMOD
          BY <3>2, <3>6, <2>2
        <5>2. segs[b].nattch >= 1
          BY <3>1, <3>2, <4>4, <4>5
        <5> QED BY <5>1, <5>2, <3>2, SizeAssumption
      <4> QED BY <4>4, <4>6, <3>1, <3>2 DEF Counted
    <3> QED BY <2>1, <3>4, <3>5, <3>6, ExecTouches
  <2> QED BY <2>1, <2>3, <2>4, <2>5 DEF AttachInv
<1> QED BY <1>1, <1>2

\* exit forgets the attaches and leaves the counts too high.
LEMMA ExitAttaches ==
    ASSUME StateOK, Tiled, AttachInv, NEW p \in Procs, Exit(p)
    PROVE  AttachInv'
<1>1. /\ attaches' = [attaches EXCEPT ![p] = {}]
      /\ state' = [state EXCEPT ![p] = "zombie"]
      /\ UNCHANGED <<segs, att, pte, live>> /\ p # Root
  BY DEF Exit, Runs
<1>2. ASSUME NEW q \in Procs, q # p PROVE ProcInv(q)'
  <2>1. /\ attaches'[q] = attaches[q] /\ att'[q] = att[q] /\ pte'[q] = pte[q]
        /\ state'[q] = state[q]
    BY <1>1, <1>2 DEF StateOK
  <2>2. ProcInv(q)
    BY DEF AttachInv
  <2> QED BY <1>1, <2>1, <2>2, SameKeeps, ProcKeeps
<1>3. ProcInv(p)'
  <2>1. attaches'[p] = {} /\ state'[p] = "zombie"
    BY <1>1 DEF StateOK
  <2> QED BY <2>1 DEF ProcInv, Held, Once, Known, Idle, Mapped
<1>4. ASSUME NEW b \in live PROVE Counted(b)'
  <2>1. IsFiniteSet(Attachments(b)) /\ Cardinality(Attachments(b)) <= segs[b].nattch
        /\ Cardinality(Attachments(b)) \in Nat
    BY FS_CardinalityType DEF AttachInv, Counted
  <2>2. Attachments(b)' \in SUBSET Attachments(b)
    BY <1>1, FewerAttachments
  <2>3. /\ IsFiniteSet(Attachments(b)')
        /\ Cardinality(Attachments(b)') <= Cardinality(Attachments(b))
    BY <2>1, <2>2, FS_Subset
  <2>4. Cardinality(Attachments(b)') \in Nat /\ segs'[b].nattch = segs[b].nattch
    BY <1>1, <2>3, FS_CardinalityType
  <2>5. segs[b].nattch \in Nat
    BY DEF StateOK, Seg, UInt
  <2> QED BY <2>1, <2>3, <2>4, <2>5 DEF Counted
<1>5. state'[Root] = "running"
  BY <1>1, NameAssumption DEF AttachInv, StateOK
<1> QED BY <1>1, <1>2, <1>3, <1>4, <1>5 DEF AttachInv

LEMMA WaitAttaches ==
    ASSUME StateOK, Tiled, AttachInv, NEW p \in Procs, Wait(p)
    PROVE  AttachInv'
<1>1. /\ state[p] = "zombie" /\ state' = [state EXCEPT ![p] = "unused"]
      /\ pte' = [pte EXCEPT ![p] = [u \in Slots |-> NoPte]]
      /\ UNCHANGED <<segs, att, live, attaches>>
  BY DEF Wait, FreeVm
<1>2. ASSUME NEW q \in Procs, q # p PROVE ProcInv(q)'
  <2>1. /\ attaches'[q] = attaches[q] /\ att'[q] = att[q] /\ pte'[q] = pte[q]
        /\ state'[q] = state[q]
    BY <1>1, <1>2 DEF StateOK
  <2>2. ProcInv(q)
    BY DEF AttachInv
  <2> QED BY <1>1, <2>1, <2>2, SameKeeps, ProcKeeps
<1>3. ProcInv(p)'
  <2>1. attaches[p] = {}
    BY <1>1 DEF AttachInv, ProcInv, Idle
  <2>2. attaches'[p] = {} /\ state'[p] = "unused" /\ \A u \in Slots : ~pte'[p][u].present
    BY <1>1, <2>1 DEF StateOK, NoPte
  <2> QED BY <2>2 DEF ProcInv, Held, Once, Known, Idle, Mapped
<1>4. ASSUME NEW b \in live PROVE Counted(b)'
  BY <1>1, AttachmentsSame DEF AttachInv, Counted
<1>5. state'[Root] = "running"
  BY <1>1, NameAssumption DEF AttachInv, StateOK
<1> QED BY <1>1, <1>2, <1>3, <1>4, <1>5 DEF AttachInv

LEMMA RmidAttaches ==
    ASSUME StateOK, Tiled, AttachInv, NEW p \in Procs, NEW id \in Ids, ShmctlRmid(p, id)
    PROVE  AttachInv' /\ live' = live
<1> DEFINE n == Pages(segs[id].segsz)
<1>1. CASE id + n > SHMMAXSEG
  BY <1>1, PanicAttaches DEF ShmctlRmid, Panic
<1>2. CASE ~(id + n > SHMMAXSEG)
  <2>1. /\ segs' = [j \in Ids |->
              IF j \in Span(id, n) THEN [segs[j] EXCEPT !.mode = @ \cup {"SHM_DEST"}]
              ELSE segs[j]]
        /\ UNCHANGED <<state, att, pte, attaches, live>>
    BY <1>2 DEF ShmctlRmid
  <2>2. \A x \in Seg : \A e : LET y == [x EXCEPT !.mode = e]
                              IN  y.nattch = x.nattch /\ y.segsz = x.segsz /\ y.pa = x.pa
    BY DEF Seg
  <2>3. (\A j \in Ids : segs[j] \in Seg) /\ live \subseteq Ids
    BY DEF StateOK
  <2>4. \A j \in Ids : /\ segs'[j].nattch = segs[j].nattch
                       /\ segs'[j].segsz = segs[j].segsz
                       /\ segs'[j].pa = segs[j].pa
    <3> HIDE DEF n
    <3> QED BY <2>1, <2>2, <2>3
  <2> QED BY <2>1, <2>3, <2>4, SameAttaches
<1> QED BY <1>1, <1>2

LEMMA SetAttaches ==
    ASSUME StateOK, Tiled, AttachInv, NEW p \in Procs, NEW id \in live, NEW buf \in SetBufs,
           ShmctlSet(p, id, buf), MaySet(id, buf)
    PROVE  AttachInv' /\ live' = live
<1>1. CASE Panic("wild")
  BY <1>1, PanicAttaches DEF Panic
<1>2. CASE ~Panic("wild")
  <2>1. /\ \A j \in Ids : segs'[j].segsz = segs[j].segsz /\ segs'[j].pa = segs[j].pa
        /\ \A j \in Ids : j \notin Span(id, PagesOf(id)) => segs'[j] = segs[j]
        /\ segs'[id].nattch = segs[id].nattch
        /\ UNCHANGED <<attaches, att, pte, state, live>>
    BY <1>2, SetSegs
  <2>2. \A b \in live : segs'[b].nattch = segs[b].nattch
    <3> SUFFICES ASSUME NEW b \in live, b # id PROVE segs'[b].nattch = segs[b].nattch
      BY <2>1
    <3>1. b \in Ids /\ b \in Span(b, PagesOf(b))
      BY SpanInTable
    <3>2. b \notin Span(id, PagesOf(id))
      BY <3>1, LiveDisjoint
    <3> QED BY <2>1, <3>1, <3>2
  <2> QED BY <2>1, <2>2, SameAttaches
<1> QED BY <1>1, <1>2

\* One step, as long as no call strayed.
LEMMA NextAttaches ==
    ASSUME StateOK, Tiled, AttachInv, CountsSmall, strays \in 0 .. MaxStrays, strays' = 0,
           [Next]_vars
    PROVE  AttachInv' /\ \A b \in live \ live' : Attachments(b) = {}
<1>1. CASE UNCHANGED vars
  BY <1>1, SameAttaches DEF vars
<1>2. ASSUME NEW p \in Procs, NEW key \in Keys, NEW size \in Sizes, NEW flag \in GetFlags,
             ShmgetCreate(p, key, size, flag) \/ ShmgetNoMemory(p, key, size, flag)
      PROVE  AttachInv' /\ live \subseteq live'
  <2>1. ShmgetCreate(p, key, size, flag)
    BY <1>2, KeptRule DEF ShmgetNoMemory
  <2> QED BY <2>1, CreateAttaches DEF ShmgetCreate
<1>3. ASSUME NEW p \in Procs, NEW id \in Ids, NEW addr \in AtSlots \cup {NULL},
             NEW flag \in AtFlags, Shmat(p, id, addr, flag)
      PROVE  AttachInv' /\ live \subseteq live'
  <2>1. AttachInv'
    BY <1>3, ShmatAttaches
  <2>2. live' = live
    BY <1>3 DEF Shmat, AttachPages, AttachFails, Panic
  <2> QED BY <2>1, <2>2
<1>4. ASSUME NEW p \in Procs, NEW s \in Slots, Shmdt(p, s)
      PROVE  AttachInv' /\ live \subseteq live'
  <2>1. AttachInv'
    BY <1>4, ShmdtAttaches
  <2>2. live' = live
    BY <1>4 DEF Shmdt, DetachPages, Panic
  <2> QED BY <2>1, <2>2
<1>5. ASSUME NEW p \in Procs, NEW id \in RemoveIds, Removeshm(p, id)
      PROVE  AttachInv' /\ \A b \in live \ live' : Attachments(b) = {}
  <2>0. id \in live
    <3> DEFINE r == id \in live
    <3>1. Keeps(r) /\ r \in BOOLEAN
      BY <1>5 DEF Removeshm
    <3> HIDE DEF r
    <3>2. r
      BY <3>1, KeptRule
    <3> QED BY <3>2 DEF r
  <2>1. id \in live /\ RemoveId(id)
    BY <1>5, <2>0 DEF Removeshm, StateOK
  <2> QED BY <2>1, RemoveIdAttaches
<1>6. ASSUME NEW p \in Procs, NEW key \in Keys, RemoveshmKey(p, key)
      PROVE  AttachInv' /\ \A b \in live \ live' : Attachments(b) = {}
  <2>0. key # FreeKey
    BY <1>6, KeptRule DEF RemoveshmKey
  <2>1. FirstWithKey(key) \in live /\ RemoveId(FirstWithKey(key))
    BY <1>6, <2>0, FirstWithKeyLive DEF RemoveshmKey
  <2> QED BY <2>1, RemoveIdAttaches
<1>7. ASSUME NEW p \in Procs, NEW c \in Procs, Fork(p, c)
      PROVE  AttachInv' /\ live \subseteq live'
  <2>1. AttachInv'
    BY <1>7, ForkAttaches
  <2>2. live' = live
    BY <1>7 DEF Fork, Panic
  <2> QED BY <2>1, <2>2
<1>8. ASSUME NEW p \in Procs, Exec(p) \/ Exit(p) \/ Wait(p) \/ HolderPanics(p)
      PROVE  AttachInv' /\ live \subseteq live'
  <2>1. AttachInv'
    BY <1>8, ExecAttaches, ExitAttaches, WaitAttaches, PanicAttaches DEF HolderPanics
  <2>2. live' = live
    BY <1>8 DEF Exec, Exit, Wait, HolderPanics, Panic
  <2> QED BY <2>1, <2>2
<1>9. CASE KallocOther \/ KfreeOther \/ Halted
  BY <1>9, SameAttaches DEF KallocOther, KfreeOther, Halted, vars
<1>10. ASSUME NEW p \in Procs, NEW id \in Ids, NEW buf \in SetBufs, ShmctlSet(p, id, buf)
      PROVE  AttachInv' /\ live \subseteq live'
  <2>1. MaySet(id, buf)
    BY <1>10, KeptRule DEF ShmctlSet, MaySet
  <2> QED BY <1>10, <2>1, SetAttaches DEF MaySet
<1>11. CASE Next
  BY <1>2, <1>3, <1>4, <1>5, <1>6, <1>7, <1>8, <1>9, <1>10, <1>11, RmidAttaches DEF Next
<1> QED BY <1>1, <1>11

\* Until a call strays, slots, mappings and counts agree with the attaches.
Agree == strays = 0 => AttachInv

LEMMA AgreeHolds == Spec /\ []CountsSmall => [](TypeOK /\ TableTiled /\ Agree)
<1>1. Init => Agree
  BY InitAttaches DEF Agree
<1>2. TypeOK /\ TableTiled /\ Agree /\ CountsSmall /\ [Next]_vars => Agree'
  BY NextStrays, NextAttaches DEF TypeOK, TableTiled, Agree
<1> QED BY <1>1, <1>2, TypeOKHolds, TableTiledHolds, PTL DEF Spec

(***************************************************************************)
(* As long as no call strayed and no count comes near the end of its range *)
(* a slot of shmsegs is marked as attached exactly when the process        *)
(* attached, or inherited, a segment that covers it: allocshmuvm,          *)
(* shmdtHelper, fork and exec agree on the slots (shm.c:160-161,           *)
(* shm.c:366-378, proc.c:213-236).  Attaches at explicit addresses are in  *)
(* it, where the slots are free and the flag is SHM_RND.                   *)
(***************************************************************************)
THEOREM SlotsMatchAttachesHolds == Spec /\ []CountsSmall => []SlotsMatchAttaches
<1>1. TypeOK /\ TableTiled /\ Agree => SlotsMatchAttaches
  <2> SUFFICES ASSUME StateOK, Tiled, AttachInv,
                      NEW p \in Procs, state[p] = "running", NEW u \in Slots
               PROVE  att[p][u].isAttached
                      <=> \E a \in attaches[p] : u \in Span(a.slot, PagesOf(a.shmid))
                                                 /\ a.shmid = att[p][u].shmid
    BY DEF SlotsMatchAttaches, TypeOK, TableTiled, Agree
  <2> QED BY DEF AttachInv, ProcInv, Held, Known
<1> QED BY <1>1, AgreeHolds, PTL

(***************************************************************************)
(* Under the same conditions every page that a process has mapped above    *)
(* HEAPLIMIT was mapped from a page that its segment still owns: removeshm *)
(* and exit never leave a mapping made from a freed page behind.  That the *)
(* address is the page's is not part of it (the second V2P of shm.c:164).  *)
(***************************************************************************)
THEOREM MappedPagesOwnedHolds == Spec /\ []CountsSmall => []MappedPagesOwned
<1>1. TypeOK /\ TableTiled /\ Agree => MappedPagesOwned
  <2> SUFFICES ASSUME StateOK, Tiled, AttachInv,
                      NEW p \in Procs, NEW u \in Slots,
                      state[p] = "running", pte[p][u].present
               PROVE  \E a \in attaches[p] :
                          /\ a.shmid \in live /\ u \in Span(a.slot, PagesOf(a.shmid))
                          /\ segs[a.shmid + (u - a.slot)].pa.f \in Frames
                          /\ pte[p][u].pa.f = segs[a.shmid + (u - a.slot)].pa.f
    BY DEF MappedPagesOwned, TypeOK, TableTiled, Agree
  <2>1. PICK a \in attaches[p] : /\ u \in Span(a.slot, PagesOf(a.shmid))
                                 /\ pte[p][u].pa = V2P(segs[a.shmid + (u - a.slot)].pa)
    BY DEF AttachInv, ProcInv, Mapped
  <2>2. a.shmid \in live
    BY DEF AttachInv, ProcInv, Held
  <2>3. a.slot \in Nat /\ a.shmid \in Nat /\ PagesOf(a.shmid) \in Nat
    BY AttachTypes
  <2>4. a.shmid + (u - a.slot) \in Span(a.shmid, PagesOf(a.shmid))
    BY <2>1, <2>3 DEF Span
  <2>5. /\ a.shmid + (u - a.slot) \in Ids
        /\ segs[a.shmid + (u - a.slot)].pa.f # NoFrame
    BY <2>2, <2>4, SpanInTable DEF Tiled
  <2>6. segs[a.shmid + (u - a.slot)].pa \in PhysAddr
    BY <2>5 DEF StateOK, Seg
  <2>7. segs[a.shmid + (u - a.slot)].pa.f \in Frames
    BY <2>5, <2>6 DEF PhysAddr
  <2>8. pte[p][u].pa.f = segs[a.shmid + (u - a.slot)].pa.f
    BY <2>1, <2>6, PhysAddrType, V2PType
  <2> QED BY <2>1, <2>2, <2>7, <2>8
<1> QED BY <1>1, AgreeHolds, PTL

(***************************************************************************)
(* Under the same conditions shm_nattch is at least the number of attaches *)
(* there are, through shmat, shmdt, fork, exec and exit, which keep the    *)
(* count in five places, and through an IPC_SET that keeps the count.      *)
(***************************************************************************)
THEOREM NattchCoversHolds == Spec /\ []CountsSmall => []NattchCovers
<1>1. TypeOK /\ TableTiled /\ Agree => NattchCovers
  <2> SUFFICES ASSUME StateOK, AttachInv, NEW b \in live
               PROVE  segs[b].nattch >= Cardinality(Attachments(b))
    BY DEF NattchCovers, TypeOK, Agree
  <2>1. IsFiniteSet(Attachments(b)) /\ Cardinality(Attachments(b)) <= segs[b].nattch
    BY DEF AttachInv, Counted
  <2>2. Cardinality(Attachments(b)) \in Nat /\ segs[b].nattch \in Nat
    BY <2>1, FS_CardinalityType DEF StateOK, Seg, UInt
  <2> QED BY <2>1, <2>2
<1> QED BY <1>1, AgreeHolds, PTL

(***************************************************************************)
(* Under the same conditions removeshm, by id or by key, never frees the   *)
(* pages of a segment that some process has attached: the count it tests   *)
(* is zero only when nobody has (shm.c:510).                               *)
(***************************************************************************)
THEOREM RemovesOnlyDetached == Spec /\ []CountsSmall => RemoveOnlyDetached
<1>1. TypeOK /\ TableTiled /\ Agree /\ CountsSmall /\ [Next]_vars
      => [strays' = 0 => \A b \in live \ live' : Attachments(b) = {}]_vars
  BY NextStrays, NextAttaches DEF TypeOK, TableTiled, Agree
<1> QED BY <1>1, AgreeHolds, PTL DEF Spec, RemoveOnlyDetached

----------------------------------------------------------------------------
(* The loop that computes the first fit (module FirstFit), in its own state *)

VARIABLES scanFree, scanLen, scanNeed, scanI, scanSi, scanZc, scanIndex, scanDone

Loop == INSTANCE FirstFit WITH free <- scanFree, len <- scanLen, need <- scanNeed, i <- scanI,
                               si <- scanSi, zc <- scanZc, index <- scanIndex, done <- scanDone

\* A first fit is unique, so ScanResult names it.
LEMMA LoopFitUnique ==
    ASSUME NEW f, NEW l \in Nat, NEW n \in Nat, n > 0,
           NEW s \in Int, Loop!IsFirstFit(f, l, n, s)
    PROVE  Loop!ScanResult(f, l, n) = s
<1>1. s \in 0 .. l - 1 /\ Loop!FitsAt(f, l, n, s)
  BY DEF Loop!IsFirstFit, Loop!FitsAt
<1>2. \A t \in 0 .. l - 1 : Loop!IsFirstFit(f, l, n, t) => t = s
  <2> SUFFICES ASSUME NEW t \in 0 .. l - 1, Loop!IsFirstFit(f, l, n, t)
               PROVE  t = s
    OBVIOUS
  <2>1. s <= t /\ t <= s
    BY <1>1 DEF Loop!IsFirstFit
  <2> QED BY <2>1, <1>1
<1> QED BY <1>1, <1>2 DEF Loop!ScanResult

LEMMA LoopInit == Loop!Init => Loop!IInv
<1> SUFFICES ASSUME Loop!Init PROVE Loop!IInv
  OBVIOUS
<1> USE SizeAssumption
<1>1. Loop!TypeOK
  <2>1. scanDone \in BOOLEAN
    BY DEF Loop!Init
  <2>2. /\ scanIndex \in -1 .. scanLen - 1 /\ scanSi \in -1 .. scanLen - 1
        /\ scanZc \in 0 .. scanLen /\ scanI \in 0 .. scanLen
    BY DEF Loop!Init
  <2> QED BY <2>1, <2>2 DEF Loop!Init, Loop!TypeOK
<1>2. Loop!RunSoFar
  BY DEF Loop!Init, Loop!RunSoFar
<1>3. Loop!NoEarlierFit
  BY DEF Loop!Init, Loop!NoEarlierFit, Loop!FitsAt
<1> QED BY <1>1, <1>2, <1>3 DEF Loop!Init, Loop!IInv

LEMMA LoopExhausted == Loop!IInv /\ Loop!Exhausted => Loop!IInv'
<1> SUFFICES ASSUME Loop!IInv, Loop!Exhausted PROVE Loop!IInv'
  OBVIOUS
<1>1. Loop!TypeOK'
  BY DEF Loop!IInv, Loop!TypeOK, Loop!Exhausted, Loop!table
<1>2. scanIndex' = -1 /\ scanI' = scanLen' /\ scanDone'
  BY DEF Loop!IInv, Loop!Exhausted, Loop!table
<1>3. Loop!NoEarlierFit'
  BY DEF Loop!IInv, Loop!NoEarlierFit, Loop!FitsAt, Loop!Exhausted, Loop!table
<1> QED BY <1>1, <1>2, <1>3 DEF Loop!IInv

LEMMA LoopBusyEntry == Loop!IInv /\ Loop!BusyEntry => Loop!IInv'
<1> SUFFICES ASSUME Loop!IInv, Loop!BusyEntry PROVE Loop!IInv'
  OBVIOUS
<1> USE DEF Loop!BusyEntry, Loop!table
<1>1. Loop!TypeOK'
  BY DEF Loop!IInv, Loop!TypeOK
<1>2. Loop!RunSoFar'
  BY DEF Loop!IInv, Loop!TypeOK, Loop!RunSoFar
<1>3. Loop!NoEarlierFit'
  \* a run ending at i + 1 would contain the busy entry i
  <2> SUFFICES ASSUME scanNeed > 0, NEW s \in 0 .. scanLen - 1,
                      Loop!FitsAt(scanFree, scanLen, scanNeed, s)
               PROVE  s + scanNeed > scanI + 1
    BY DEF Loop!NoEarlierFit, Loop!FitsAt
  <2>1. s + scanNeed > scanI
    BY DEF Loop!IInv, Loop!NoEarlierFit
  <2>2. s + scanNeed # scanI + 1
    BY DEF Loop!FitsAt, Loop!IInv, Loop!TypeOK
  <2> QED BY <2>1, <2>2 DEF Loop!IInv, Loop!TypeOK
<1>4. ~scanDone' /\ scanIndex' = -1
  BY DEF Loop!IInv
<1> QED BY <1>1, <1>2, <1>3, <1>4 DEF Loop!IInv

LEMMA LoopFreeEntry == Loop!IInv /\ Loop!FreeEntry => Loop!IInv'
<1> SUFFICES ASSUME Loop!IInv, Loop!FreeEntry PROVE Loop!IInv'
  OBVIOUS
<1> USE DEF Loop!FreeEntry, Loop!table
<1>1. Loop!TypeOK /\ Loop!RunSoFar /\ Loop!NoEarlierFit /\ scanIndex = -1
  BY DEF Loop!IInv
<1>2. scanSi' = scanI - scanZc /\ scanZc' = scanZc + 1 /\ scanZc <= scanI
  BY <1>1 DEF Loop!TypeOK, Loop!RunSoFar
<1>3. \A j \in scanI - scanZc .. scanI : scanFree[j]
  BY <1>1 DEF Loop!TypeOK, Loop!RunSoFar
\* a run ending at i + 1 starts at or after si'
<1>4. \A s \in 0 .. scanLen - 1 :
         scanNeed > 0 /\ Loop!FitsAt(scanFree, scanLen, scanNeed, s) => s + scanNeed > scanI
  BY <1>1 DEF Loop!NoEarlierFit
<1>5. CASE scanZc + 1 = scanNeed
  <2>1. scanIndex' = scanI - scanZc /\ scanDone' /\ scanI' = scanI /\ scanNeed > 0
    BY <1>1, <1>2, <1>5 DEF Loop!TypeOK
  <2>2. Loop!TypeOK'
    BY <1>1, <1>2, <2>1, <1>5 DEF Loop!TypeOK
  <2>3. Loop!FitsAt(scanFree, scanLen, scanNeed, scanI - scanZc)
    BY <1>1, <1>2, <1>3, <1>5 DEF Loop!FitsAt, Loop!TypeOK
  <2>4. \A t \in 0 .. scanLen - 1 :
           Loop!FitsAt(scanFree, scanLen, scanNeed, t) => scanI - scanZc <= t
    BY <1>1, <1>4, <2>1, <1>5 DEF Loop!TypeOK
  <2>5. Loop!Found'
    BY <2>1, <2>3, <2>4 DEF Loop!Found, Loop!IsFirstFit, Loop!FitsAt
  <2>6. scanIndex' # -1
    BY <2>1, <1>1, <1>2 DEF Loop!TypeOK
  <2> QED BY <2>1, <2>2, <2>5, <2>6 DEF Loop!IInv
<1>6. CASE scanZc + 1 # scanNeed
  <2>1. scanI' = scanI + 1 /\ ~scanDone' /\ scanIndex' = -1
    BY <1>1, <1>2, <1>6
  <2>2. Loop!TypeOK'
    BY <1>1, <1>2, <2>1 DEF Loop!TypeOK
  <2>3. Loop!RunSoFar'
    BY <1>1, <1>2, <1>3, <2>1, <1>6 DEF Loop!RunSoFar, Loop!TypeOK
  <2>4. Loop!NoEarlierFit'
    \* it would have to reach below si', which is preceded by a busy entry
    <3> SUFFICES ASSUME scanNeed > 0, NEW s \in 0 .. scanLen - 1,
                        Loop!FitsAt(scanFree, scanLen, scanNeed, s)
                 PROVE  s + scanNeed > scanI + 1
      BY <2>1 DEF Loop!NoEarlierFit, Loop!FitsAt
    <3>1. s + scanNeed > scanI
      BY <1>4
    <3>2. ASSUME s + scanNeed = scanI + 1 PROVE FALSE
      <4>1. s < scanI - scanZc /\ scanZc < scanI
        BY <3>2, <1>1, <1>6 DEF Loop!TypeOK, Loop!RunSoFar
      <4>2. ~scanFree[scanI - scanZc - 1]
        BY <4>1, <1>1 DEF Loop!RunSoFar
      <4>3. scanI - scanZc - 1 \in s .. s + scanNeed - 1
        BY <4>1, <3>2, <1>1 DEF Loop!TypeOK
      <4> QED BY <4>2, <4>3 DEF Loop!FitsAt
    <3> QED BY <3>1, <3>2, <1>1 DEF Loop!TypeOK
  <2> QED BY <2>1, <2>2, <2>3, <2>4 DEF Loop!IInv
<1> QED BY <1>5, <1>6

\* The invariant IInv of the search loop (shm.c:94-115, 288-306) is inductive.
THEOREM LoopIInvHolds == Loop!Spec => []Loop!IInv
<1>1. Loop!Init => Loop!IInv
  BY LoopInit
<1>2. Loop!IInv /\ [Loop!Next]_(Loop!vars) => Loop!IInv'
  <2> SUFFICES ASSUME Loop!IInv, [Loop!Next]_(Loop!vars) PROVE Loop!IInv'
    OBVIOUS
  <2>1. CASE Loop!Next
    BY <2>1, LoopExhausted, LoopFreeEntry, LoopBusyEntry DEF Loop!Next
  <2>2. CASE UNCHANGED Loop!vars
    BY <2>2 DEF Loop!vars, Loop!IInv, Loop!TypeOK, Loop!RunSoFar, Loop!NoEarlierFit, Loop!Found,
                Loop!FitsAt, Loop!IsFirstFit
  <2> QED BY <2>1, <2>2
<1> QED BY <1>1, <1>2, PTL DEF Loop!Spec

(***************************************************************************)
(* For every table and every request, the loop of allocShmSeg and          *)
(* shmatHelper can only end with the first fit, or with -1 when there is   *)
(* none.                                                                   *)
(***************************************************************************)
THEOREM LoopCorrectHolds == Loop!Spec => []Loop!Correct
<1>1. Loop!IInv => Loop!Correct
  <2> SUFFICES ASSUME Loop!IInv, scanDone
               PROVE  scanIndex = Loop!ScanResult(scanFree, scanLen, scanNeed)
    BY DEF Loop!Correct
  <2>1. CASE scanIndex = -1
    <3>1. scanNeed > 0 => \A s \in 0 .. scanLen - 1 : ~Loop!FitsAt(scanFree, scanLen, scanNeed, s)
      <4>1. scanI = scanLen /\ Loop!NoEarlierFit /\ Loop!TypeOK
        BY <2>1 DEF Loop!IInv
      <4> SUFFICES ASSUME scanNeed > 0, NEW s \in 0 .. scanLen - 1,
                          Loop!FitsAt(scanFree, scanLen, scanNeed, s)
                   PROVE  FALSE
        OBVIOUS
      <4>2. s + scanNeed > scanLen
        BY <4>1 DEF Loop!NoEarlierFit
      <4>3. s + scanNeed <= scanLen
        BY DEF Loop!FitsAt
      <4> QED BY <4>1, <4>2, <4>3 DEF Loop!TypeOK
    <3> QED BY <2>1, <3>1 DEF Loop!ScanResult
  <2>2. CASE scanIndex # -1
    <3>1. scanNeed > 0 /\ Loop!IsFirstFit(scanFree, scanLen, scanNeed, scanIndex)
      BY <2>2 DEF Loop!IInv, Loop!Found
    <3>2. scanLen \in Nat /\ scanNeed \in Nat /\ scanIndex \in Int
      BY SizeAssumption DEF Loop!IInv, Loop!TypeOK
    <3> QED BY <3>1, <3>2, LoopFitUnique
  <2> QED BY <2>1, <2>2
<1> QED BY <1>1, LoopIInvHolds, PTL
============================================================================
