----------------------------- MODULE LogProofs -----------------------------
(***************************************************************************)
(* The properties of module Log for any number of processes, blocks,       *)
(* crashes and any size of the log: IInv is preserved by every action, and *)
(* under it every action is a step of AtomicDisk or none.                  *)
(***************************************************************************)
EXTENDS Log, FiniteSetTheorems, FunctionTheorems, TLAPS

----------------------------------------------------------------------------
(* The inductive invariant *)

TypeOK ==
    /\ home \in [Blocks -> Vals] /\ cache \in [Blocks -> Vals]
    /\ logd \in [1 .. LOGSIZE -> Vals]
    /\ head \in Seq(Blocks) /\ lh \in Seq(Blocks)
    /\ dirty \in SUBSET Blocks
    /\ committing \in BOOLEAN
    /\ phase \in {"boot", "redo", "run", "log", "install", "done"}
    /\ tail \in 0 .. Len(lh)
    /\ pc \in [Procs -> {"user", "begin", "asleep", "in", "append", "commit"}]
    /\ wrote \in [Procs -> SUBSET Blocks]
    /\ held \in [Procs -> Blocks \cup {NoBlock}]
    /\ panicked \in BOOLEAN
    /\ crashes \in Nat

\* One process commits, with no call in progress, and none runs at boot.
OneCommitter ==
    /\ committing <=> phase \in {"log", "install", "done"}
    /\ \A p \in Procs : pc[p] = "commit" => committing
    /\ \A p, q \in Procs : pc[p] = "commit" /\ pc[q] = "commit" => p = q
    /\ committing \/ Recovering => Active = {}
    /\ Recovering => \A p \in Procs : pc[p] = "user"

\* A buffer that is modified and not logged is one call's, which has not used
\* up its blocks; what a call has logged is in the header.
CallsInProgress ==
    /\ \A p \in Procs : held[p] # NoBlock <=> pc[p] = "append"
    /\ \A p, q \in Procs : held[p] = held[q] /\ held[p] # NoBlock => p = q
    /\ \A p \in Procs : wrote[p] # {} => p \in Active
    /\ \A p \in Procs : wrote[p] \subseteq Range(lh)
    /\ \A p \in Procs : Cardinality(wrote[p]) <= OpBlocks
    /\ \A p \in Procs : pc[p] = "append" => Cardinality(wrote[p] \cup {held[p]}) <= OpBlocks

\* The blocks a log may hold: of two calls in progress neither uses all that
\* is reserved for it.
Capacity == LOGSIZE - 2 * (MAXOPBLOCKS - OpBlocks)

\* The header on the disk is empty or, from the commit point to the end of the
\* installation, that of the log.
Headers ==
    /\ IsInjective(lh) /\ Len(lh) <= Capacity
    /\ IsInjective(head) /\ Len(head) <= Capacity
    /\ phase \in {"boot", "done"} => lh = <<>>
    /\ phase = "run" /\ Active = {} => lh = <<>>
    /\ phase \in {"run", "log", "done"} => head = <<>>
    /\ phase \in {"install", "redo"} => head = lh

\* The logged blocks that are not installed are pinned; every other block that
\* no call is about to log is on the disk as in the cache.
Cached ==
    /\ \A b \in Blocks : b \in dirty <=>
          \E i \in 1 .. Len(lh) : /\ lh[i] = b
                                  /\ \/ phase \in {"run", "log"}
                                     \/ phase = "install" /\ i > tail
    /\ \A b \in Blocks : b \notin dirty /\ (\A p \in Procs : held[p] # b)
                            => cache[b] = home[b]

\* write_log has copied the blocks below tail; after it, all of them are
\* copied, and install_trans has written those below tail.
Copied ==
    /\ phase = "log" => \A i \in 1 .. tail : logd[i] = cache[lh[i]]
    /\ phase = "install" => \A i \in 1 .. Len(lh) : logd[i] = cache[lh[i]]
    /\ phase \in {"install", "redo"} => \A i \in 1 .. tail : logd[i] = home[lh[i]]

\* What the calls in progress have logged.
Used == {u \in Procs \X Blocks : u[2] \in wrote[u[1]]}

\* The blocks logged and those the calls in progress may still log, OpBlocks
\* for each less what it has used, fit.
Reserved == Len(lh) + outstanding * OpBlocks - Cardinality(Used) <= Capacity

IInv ==
    /\ TypeOK /\ OneCommitter /\ CallsInProgress /\ Headers /\ Cached /\ Copied
    /\ Reserved /\ NoLostWakeup

----------------------------------------------------------------------------
(* The operators *)

\* The header has an entry for every block the log may hold.
LEMMA CapacityFits ==
    /\ Capacity \in Nat /\ OpBlocks \in Nat /\ OpBlocks <= Capacity /\ Capacity <= LOGSIZE
    /\ OpBlocks < MAXOPBLOCKS => Capacity <= LOGSIZE - 2
BY LogAssumption DEF Capacity

\* The calls in progress can be counted.
LEMMA Counted ==
    /\ IsFiniteSet(Active) /\ outstanding \in Nat
    /\ outstanding * MAXOPBLOCKS \in Nat /\ outstanding * OpBlocks \in Nat
<1>1. IsFiniteSet(Active)
  BY FS_Subset, LogAssumption DEF Active
<1>2. outstanding \in Nat
  BY <1>1, FS_CardinalityType DEF outstanding
<1> QED BY <1>1, <1>2, LogAssumption

\* A call that begins adds one to outstanding, one that ends takes one away.
LEMMA OneMore ==
    ASSUME NEW p \in Procs, p \notin Active, Active' = Active \cup {p}
    PROVE  outstanding' = outstanding + 1
BY Counted, FS_AddElement DEF outstanding

LEMMA OneLess ==
    ASSUME NEW p \in Active, Active' = Active \ {p}
    PROVE  outstanding' = outstanding - 1
BY Counted, FS_RemoveElement DEF outstanding

LEMMA Times ==
    ASSUME NEW n \in Int, NEW m \in Int
    PROVE  /\ (n + 1) * m = n * m + m
           /\ (n - 1) * m = n * m - m
           /\ n * m \in Int
BY SMT

\* What log_write makes of the header.
LEMMA EnteredOnce ==
    ASSUME lh \in Seq(Blocks), IsInjective(lh), NEW b \in Blocks
    PROVE  /\ Entered(b) \in Seq(Blocks)
           /\ IsInjective(Entered(b))
           /\ Range(Entered(b)) = Range(lh) \cup {b}
           /\ Len(Entered(b)) = IF b \in Range(lh) THEN Len(lh) ELSE Len(lh) + 1
           /\ \A i \in 1 .. Len(lh) : Entered(b)[i] = lh[i]
<1>1. CASE b \in Range(lh)
  BY <1>1 DEF Entered
<1>2. CASE b \notin Range(lh)
  <2>1. Entered(b) = Append(lh, b)
    BY <1>2 DEF Entered
  <2>2. /\ Entered(b) \in Seq(Blocks) /\ Len(Entered(b)) = Len(lh) + 1
        /\ \A i \in 1 .. Len(lh) : Entered(b)[i] = lh[i]
        /\ Entered(b)[Len(lh) + 1] = b
    BY <2>1
  <2>3. DOMAIN Entered(b) = 1 .. Len(lh) + 1 /\ DOMAIN lh = 1 .. Len(lh)
    BY <2>2
  <2>4. \A i \in 1 .. Len(lh) : lh[i] \in Range(lh) /\ lh[i] # b
    BY <1>2, <2>3 DEF Range
  <2>5. IsInjective(Entered(b))
    BY <2>2, <2>3, <2>4 DEF IsInjective
  <2>6. Range(Entered(b)) = Range(lh) \cup {b}
    BY <2>2, <2>3 DEF Range
  <2> QED BY <1>2, <2>2, <2>5, <2>6
<1> QED BY <1>1, <1>2

\* The pairs of Used are finitely many.
LEMMA UsedFinite == IsFiniteSet(Used) /\ Cardinality(Used) \in Nat
<1>1. IsFiniteSet(Procs \X Blocks)
  BY FS_Product, LogAssumption
<1> QED BY <1>1, FS_Subset, FS_CardinalityType DEF Used

\* The elements of a finite set can be numbered.
LEMMA InjectsInto ==
    ASSUME NEW S, IsFiniteSet(S), NEW m \in Nat, Cardinality(S) <= m
    PROVE  \E f : f \in Injection(S, 1 .. m)
<1>1. Cardinality(S) \in Nat /\ ExistsBijection(S, 1 .. Cardinality(S))
  BY FS_CardinalityType, Fun_ExistsBijSymmetric
<1>2. PICK f : f \in Bijection(S, 1 .. Cardinality(S))
  BY <1>1, Fun_ExistsBij
<1>3. /\ f \in [S -> 1 .. Cardinality(S)]
      /\ \A a, b \in S : f[a] = f[b] => a = b
  <2>1. f \in Injection(S, 1 .. Cardinality(S))
    BY <1>2, Fun_BijectionProperties
  <2> QED BY <2>1 DEF Injection, IsInjective
<1>4. f \in [S -> 1 .. m]
  BY <1>1, <1>3
<1> QED BY <1>3, <1>4, Fun_IsInj

\* Calls that have each logged at most m blocks have logged at most m for each.
LEMMA UsedBounded ==
    ASSUME NEW A \in SUBSET Procs, NEW W \in [Procs -> SUBSET Blocks], NEW m \in Nat,
           \A p \in Procs : W[p] # {} => p \in A,
           \A p \in Procs : Cardinality(W[p]) <= m
    PROVE  Cardinality({u \in Procs \X Blocks : u[2] \in W[u[1]]}) <= Cardinality(A) * m
<1> DEFINE U == {u \in Procs \X Blocks : u[2] \in W[u[1]]}
           place(p) == CHOOSE f : f \in Injection(W[p], 1 .. m)
           g == [u \in U |-> <<u[1], place(u[1])[u[2]]>>]
<1>1. \A p \in Procs : place(p) \in Injection(W[p], 1 .. m)
  <2> SUFFICES ASSUME NEW p \in Procs
               PROVE  \E f : f \in Injection(W[p], 1 .. m)
    OBVIOUS
  <2>1. IsFiniteSet(W[p])
    BY FS_Subset, LogAssumption
  <2> QED BY <2>1, InjectsInto
<1>2. \A p \in Procs : /\ place(p) \in [W[p] -> 1 .. m]
                       /\ \A b, c \in W[p] : place(p)[b] = place(p)[c] => b = c
  BY <1>1, Fun_InjectionProperties
<1> HIDE DEF place
<1>3. \A u \in U : u[1] \in A /\ u[1] \in Procs /\ u[2] \in W[u[1]] /\ u = <<u[1], u[2]>>
  OBVIOUS
<1>4. g \in [U -> A \X (1 .. m)]
  BY <1>2, <1>3
<1>5. \A u, w \in U : g[u] = g[w] => u = w
  <2> SUFFICES ASSUME NEW u \in U, NEW w \in U, g[u] = g[w]
               PROVE  u = w
    OBVIOUS
  <2>1. u[1] = w[1] /\ place(u[1])[u[2]] = place(w[1])[w[2]]
    OBVIOUS
  <2> QED BY <1>2, <1>3, <2>1
<1>6. g \in Injection(U, A \X (1 .. m))
  BY <1>4, <1>5, Fun_IsInj
<1>7. IsFiniteSet(A) /\ IsFiniteSet(1 .. m) /\ Cardinality(1 .. m) = m
  BY FS_Subset, FS_Interval, LogAssumption
<1>8. IsFiniteSet(A \X (1 .. m)) /\ Cardinality(A \X (1 .. m)) = Cardinality(A) * m
  BY <1>7, FS_Product
<1> QED BY <1>6, <1>8, FS_Injection

\* When the calls in progress end, at most what they have used is given back.
LEMMA UsedLess ==
    ASSUME TypeOK, NEW p \in Procs, wrote' = [wrote EXCEPT ![p] = {}]
    PROVE  Cardinality(Used') >= Cardinality(Used) - Cardinality(wrote[p])
<1> DEFINE W == {<<p, b>> : b \in wrote[p]}
<1>1. IsFiniteSet(wrote[p])
  BY FS_Subset, LogAssumption DEF TypeOK
<1>2. IsFiniteSet(W) /\ Cardinality(W) <= Cardinality(wrote[p])
  <2> DEFINE f == [b \in wrote[p] |-> <<p, b>>]
  <2>1. f \in Surjection(wrote[p], W)
    BY DEF Surjection
  <2> QED BY <1>1, <2>1, FS_Surjection DEF ExistsSurjection
<1>3. Used = Used' \cup W /\ Used' \in SUBSET Used
  BY DEF Used, TypeOK
<1>4. IsFiniteSet(Used')
  BY UsedFinite, <1>3, FS_Subset
<1>5. Cardinality(Used) <= Cardinality(Used') + Cardinality(W)
  <2>1. Cardinality(Used' \cap W) \in Nat
    BY <1>4, FS_Intersection, FS_CardinalityType
  <2> QED BY <1>2, <1>3, <1>4, <2>1, FS_Union, FS_CardinalityType
<1> QED BY <1>1, <1>2, <1>4, <1>5, UsedFinite, FS_CardinalityType

----------------------------------------------------------------------------
(* One lemma per action *)

LEMMA InitInv == Init => IInv
<1> SUFFICES ASSUME Init PROVE IInv
  OBVIOUS
<1> USE LogAssumption DEF Init, Recovering
<1>1. TypeOK
  <2>1. logd \in [1 .. LOGSIZE -> Vals]
    OBVIOUS
  <2>2. Len(lh) = 0 /\ lh \in Seq(Blocks) /\ head \in Seq(Blocks)
    OBVIOUS
  <2>3. pc \in [Procs -> {"user", "begin", "asleep", "in", "append", "commit"}]
    OBVIOUS
  <2>4. home \in [Blocks -> Vals] /\ cache \in [Blocks -> Vals]
    OBVIOUS
  <2>5. tail \in 0 .. Len(lh)
    BY <2>2
  <2>6. wrote \in [Procs -> SUBSET Blocks] /\ held \in [Procs -> Blocks \cup {NoBlock}]
    OBVIOUS
  <2>7. dirty \in SUBSET Blocks /\ committing \in BOOLEAN /\ crashes \in Nat
    OBVIOUS
  <2>8. phase \in {"boot", "redo", "run", "log", "install", "done"}
    OBVIOUS
  <2> QED BY <2>1, <2>2, <2>3, <2>4, <2>5, <2>6, <2>7, <2>8 DEF TypeOK
<1>2. Active = {}
  BY DEF Active
<1>3. OneCommitter /\ Headers /\ Copied /\ Cached
  BY <1>2, CapacityFits DEF OneCommitter, Headers, Copied, Cached, IsInjective
<1>4. CallsInProgress
  BY FS_EmptySet DEF CallsInProgress
<1>5. Reserved
  <2>1. Used = {} /\ outstanding = 0
    BY <1>2, FS_EmptySet DEF Used, outstanding
  <2> QED BY <2>1, CapacityFits, FS_EmptySet DEF Reserved
<1>6. NoLostWakeup
  BY DEF NoLostWakeup
<1> QED BY <1>1, <1>3, <1>4, <1>5, <1>6 DEF IInv

\* begin_op admits the call: the reservation is the test it has passed.
LEMMA BeginStep ==
    ASSUME IInv, NEW p \in Procs, Begin(p)
    PROVE  IInv'
<1> USE LogAssumption DEF IInv, Begin, disk
<1>1. TypeOK'
  BY DEF TypeOK
<1>2. Active' = Active \cup {p} /\ p \notin Active
  BY DEF TypeOK, Active
<1>3. outstanding' = outstanding + 1 /\ outstanding \in Nat
  BY <1>2, OneMore, Counted
<1>4. OneCommitter'
  BY DEF OneCommitter, TypeOK, Recovering, Admits
<1>5. CallsInProgress'
  BY <1>2 DEF CallsInProgress, TypeOK
<1>6. Headers' /\ Cached' /\ Copied'
  BY <1>2 DEF Headers, Cached, Copied
<1>7. Reserved'
  <2>1. Used' = Used /\ Cardinality(Used) \in Nat
    BY UsedFinite DEF Used
  <2>2. CASE Active = {}
    <3>1. lh = <<>> /\ outstanding = 0
      BY <2>2, FS_EmptySet DEF Headers, OneCommitter, TypeOK, Recovering, Admits, outstanding
    <3> QED BY <1>3, <2>1, <3>1, CapacityFits DEF Reserved
  <2>3. CASE Active # {}
    <3>1. outstanding >= 1
      BY <1>3, <2>3, Counted, FS_EmptySet DEF outstanding
    <3>2. (outstanding + 1) * (MAXOPBLOCKS - OpBlocks) >= 2 * (MAXOPBLOCKS - OpBlocks)
      BY <1>3, <3>1
    <3>3. (outstanding + 1) * (MAXOPBLOCKS - OpBlocks)
             = (outstanding + 1) * MAXOPBLOCKS - (outstanding + 1) * OpBlocks
      BY <1>3
    <3>4. (outstanding + 1) * MAXOPBLOCKS \in Int /\ (outstanding + 1) * OpBlocks \in Int
      BY <1>3, Times
    <3>5. Len(lh) + (outstanding + 1) * MAXOPBLOCKS <= LOGSIZE /\ Len(lh) \in Nat
      BY DEF Admits, HasRoom, TypeOK
    <3> QED BY <1>3, <2>1, <3>2, <3>3, <3>4, <3>5 DEF Reserved, Capacity
  <2> QED BY <2>2, <2>3
<1>8. NoLostWakeup'
  BY DEF NoLostWakeup, TypeOK
<1> QED BY <1>1, <1>4, <1>5, <1>6, <1>7, <1>8

\* begin_op sleeps only when the log would not admit the call.
LEMMA BeginSleepsStep ==
    ASSUME IInv, NEW p \in Procs, BeginSleeps(p)
    PROVE  IInv'
<1> USE LogAssumption DEF IInv, BeginSleeps, disk
<1>1. TypeOK'
  BY DEF TypeOK
<1>2. Active' = Active /\ p \notin Active
  BY DEF TypeOK, Active
<1>3. outstanding' = outstanding
  BY <1>2 DEF outstanding
<1>4. OneCommitter'
  BY <1>2 DEF OneCommitter, TypeOK, Recovering
<1>5. CallsInProgress'
  BY <1>2 DEF CallsInProgress, TypeOK
<1>6. Headers' /\ Cached' /\ Copied'
  BY <1>2 DEF Headers, Cached, Copied
<1>7. Reserved'
  BY <1>3 DEF Reserved, Used
<1>8. NoLostWakeup'
  BY <1>3 DEF NoLostWakeup, Admits, HasRoom
<1> QED BY <1>1, <1>4, <1>5, <1>6, <1>7, <1>8
\* The call modifies a buffer that no other has; the block is not yet logged.
LEMMA ModifyStep ==
    ASSUME IInv, NEW p \in Procs, NEW b \in Blocks, NEW v \in Vals, Modify(p, b, v)
    PROVE  IInv'
<1> USE LogAssumption DEF IInv, Modify, disk
<1>1. TypeOK'
  BY DEF TypeOK
<1>2. Active' = Active /\ p \in Active
  BY DEF TypeOK, Active
<1>3. outstanding' = outstanding
  BY <1>2 DEF outstanding
<1>4. phase = "run"
  BY <1>2 DEF OneCommitter, TypeOK, Recovering
<1>5. OneCommitter'
  BY <1>2, <1>4 DEF OneCommitter, TypeOK, Recovering
<1>6. CallsInProgress'
  <2>1. held'[p] = b /\ held[p] = NoBlock /\ b # NoBlock
    BY DEF CallsInProgress, TypeOK
  <2>2. \A q \in Procs \ {p} : held'[q] = held[q] /\ held'[q] # b /\ pc'[q] = pc[q]
    BY DEF TypeOK
  <2>3. pc'[p] = "append"
    BY DEF TypeOK
  <2>4. IsFiniteSet(wrote[p]) /\ IsFiniteSet(wrote[p] \cup {b})
    BY FS_Subset, FS_AddElement DEF TypeOK
  <2>5. Cardinality(wrote[p] \cup {b}) <= OpBlocks
    BY <2>4, FS_CardinalityType
  <2>6. \A q \in Procs : held'[q] # NoBlock <=> pc'[q] = "append"
    BY <2>1, <2>2, <2>3 DEF CallsInProgress
  <2>7. \A q, r \in Procs : held'[q] = held'[r] /\ held'[q] # NoBlock => q = r
    BY <2>1, <2>2 DEF CallsInProgress
  <2>8. \A q \in Procs : pc'[q] = "append" => Cardinality(wrote[q] \cup {held'[q]}) <= OpBlocks
    BY <2>1, <2>2, <2>5 DEF CallsInProgress
  <2> QED BY <1>2, <2>6, <2>7, <2>8 DEF CallsInProgress
<1>7. Headers' /\ Copied'
  BY <1>2, <1>4 DEF Headers, Copied
<1>8. Cached'
  <2>1. held'[p] = b /\ held[p] = NoBlock
    BY DEF CallsInProgress, TypeOK
  <2>2. \A c \in Blocks \ {b} : cache'[c] = cache[c]
    BY DEF TypeOK
  <2>3. \A q \in Procs \ {p} : held'[q] = held[q]
    BY DEF TypeOK
  <2> QED BY <2>1, <2>2, <2>3 DEF Cached
<1>9. Reserved'
  BY <1>3 DEF Reserved, Used
<1>10. NoLostWakeup'
  BY <1>3 DEF NoLostWakeup, Admits, HasRoom, TypeOK
<1> QED BY <1>1, <1>5, <1>6, <1>7, <1>8, <1>9, <1>10

\* log_write takes a new entry of the header only for a block the call has not
\* logged before.
LEMMA LogWriteStep ==
    ASSUME IInv, NEW p \in Procs, LogWrite(p)
    PROVE  IInv'
<1> USE LogAssumption DEF IInv, LogWrite, disk
<1> DEFINE b == held[p]
<1>1. b \in Blocks
  BY DEF CallsInProgress, TypeOK
<1>e. /\ lh' \in Seq(Blocks) /\ IsInjective(lh')
      /\ Range(lh') = Range(lh) \cup {b}
      /\ Len(lh') = IF b \in Range(lh) THEN Len(lh) ELSE Len(lh) + 1
      /\ \A i \in 1 .. Len(lh) : lh'[i] = lh[i]
  BY <1>1, EnteredOnce DEF TypeOK, Headers
<1> HIDE DEF b
<1>2. TypeOK'
  BY <1>1, <1>e DEF TypeOK, Pinned, b
<1>3. Active' = Active /\ p \in Active
  BY DEF TypeOK, Active
<1>4. outstanding' = outstanding
  BY <1>3 DEF outstanding
<1>5. phase = "run"
  BY <1>3 DEF OneCommitter, TypeOK, Recovering
<1>6. OneCommitter'
  BY <1>3, <1>5 DEF OneCommitter, TypeOK, Recovering
<1>7. CallsInProgress'
  <2>1. held'[p] = NoBlock /\ pc'[p] = "in" /\ wrote'[p] = wrote[p] \cup {b}
    BY DEF TypeOK, b
  <2>2. \A q \in Procs \ {p} : held'[q] = held[q] /\ pc'[q] = pc[q] /\ wrote'[q] = wrote[q]
    BY DEF TypeOK
  <2>3. Cardinality(wrote[p] \cup {b}) <= OpBlocks
    BY DEF CallsInProgress, b
  <2>4. \A q \in Procs : held'[q] # NoBlock <=> pc'[q] = "append"
    BY <2>1, <2>2 DEF CallsInProgress
  <2>5. \A q, r \in Procs : held'[q] = held'[r] /\ held'[q] # NoBlock => q = r
    BY <2>1, <2>2 DEF CallsInProgress
  <2>6. \A q \in Procs : wrote'[q] # {} => q \in Active
    BY <1>3, <2>2 DEF CallsInProgress
  <2>7. \A q \in Procs : wrote'[q] \subseteq Range(lh')
    BY <1>e, <2>1, <2>2 DEF CallsInProgress
  <2>8. \A q \in Procs : Cardinality(wrote'[q]) <= OpBlocks
    BY <2>1, <2>2, <2>3 DEF CallsInProgress
  <2>9. \A q \in Procs : pc'[q] = "append" => Cardinality(wrote'[q] \cup {held'[q]}) <= OpBlocks
    BY <2>1, <2>2 DEF CallsInProgress
  <2> QED BY <1>3, <2>4, <2>5, <2>6, <2>7, <2>8, <2>9 DEF CallsInProgress
<1>8. Cardinality(Used') = IF b \in wrote[p] THEN Cardinality(Used) ELSE Cardinality(Used) + 1
  <2>1. Used' = Used \cup {<<p, b>>}
    BY <1>1 DEF Used, TypeOK, b
  <2>2. <<p, b>> \in Used <=> b \in wrote[p]
    BY <1>1 DEF Used
  <2> QED BY <2>1, <2>2, UsedFinite, FS_AddElement
<1>9. Reserved'
  <2>1. b \in wrote[p] => b \in Range(lh)
    BY DEF CallsInProgress
  <2>2. Len(lh') \in Nat /\ Len(lh) \in Nat
    BY <1>e DEF TypeOK
  <2> QED BY <1>e, <1>4, <1>8, <2>1, <2>2, UsedFinite, Counted, CapacityFits DEF Reserved
<1>10. Headers'
  <2>1. Cardinality(Used') <= outstanding * OpBlocks
    <3>1. Active \in SUBSET Procs /\ wrote' \in [Procs -> SUBSET Blocks]
      BY <1>2 DEF TypeOK, Active
    <3>2. /\ \A q \in Procs : wrote'[q] # {} => q \in Active
          /\ \A q \in Procs : Cardinality(wrote'[q]) <= OpBlocks
      BY <1>3, <1>7 DEF CallsInProgress
    <3> QED BY <3>1, <3>2, UsedBounded, CapacityFits DEF Used, outstanding
  <2>b. Cardinality(Used') \in Nat
    BY <1>8, UsedFinite
  <2>2. Len(lh') <= Capacity
    BY <1>e, <1>4, <1>9, <2>1, <2>b, Counted, CapacityFits DEF Reserved, TypeOK
  <2> QED BY <1>e, <1>3, <1>5, <2>2 DEF Headers
<1>11. Cached' /\ Copied'
  <2>1. dirty' = dirty \cup {b}
    BY DEF Pinned, b
  <2>2. \A c \in Blocks : c \in Range(lh) <=> c \in dirty
    <3>1. Range(lh) = {lh[i] : i \in 1 .. Len(lh)}
      BY DEF Range, TypeOK
    <3>2. \A c \in Blocks : c \in dirty <=> \E i \in 1 .. Len(lh) : lh[i] = c
      BY <1>5 DEF Cached
    <3> QED BY <3>1, <3>2
  <2>3. \A c \in Blocks : c \in Range(lh') <=> c \in dirty'
    BY <1>e, <2>1, <2>2
  <2>4. \A c \in Blocks : c \in dirty' <=> \E i \in 1 .. Len(lh') : lh'[i] = c
    BY <1>e, <2>3 DEF Range
  <2>5. \A c \in Blocks : c \notin dirty' => \A q \in Procs : held'[q] # c => held[q] # c
    BY <2>1 DEF TypeOK, b
  <2>6. \A c \in Blocks : c \notin dirty' /\ (\A q \in Procs : held'[q] # c)
                            => cache[c] = home[c]
    BY <2>1, <2>5 DEF Cached
  <2> QED BY <1>5, <2>4, <2>6 DEF Cached, Copied
<1>12. NoLostWakeup'
  <2>1. Admits' => Admits
    <3>1. Len(lh) <= Len(lh') /\ Len(lh) \in Nat /\ Len(lh') \in Nat
      BY <1>e DEF TypeOK
    <3>2. (outstanding + 1) * MAXOPBLOCKS \in Int
      BY Counted, Times
    <3> QED BY <1>4, <3>1, <3>2 DEF Admits, HasRoom
  <2> QED BY <2>1 DEF NoLostWakeup, TypeOK
<1> QED BY <1>2, <1>6, <1>7, <1>9, <1>10, <1>11, <1>12
\* A call ends: the last one commits, with the blocks all logged; any other
\* gives back what it has not used and wakes the sleepers.
LEMMA EndOpStep ==
    ASSUME IInv, NEW p \in Procs, EndOp(p)
    PROVE  IInv'
<1> USE LogAssumption DEF IInv, EndOp, disk
<1>0. /\ lh' = lh /\ head' = head /\ dirty' = dirty /\ cache' = cache /\ home' = home
      /\ logd' = logd /\ held' = held /\ p \in Active
  BY DEF Active
<1>1. phase = "run"
  BY <1>0 DEF OneCommitter, TypeOK, Recovering
<1>2. wrote' = [wrote EXCEPT ![p] = {}] /\ wrote' \in [Procs -> SUBSET Blocks]
  BY DEF TypeOK
<1>3. \A q \in Procs \ {p} : wrote'[q] = wrote[q]
  BY DEF TypeOK
<1>4. Active' = Active \ {p} /\ outstanding' = outstanding - 1
  <2>1. Active' = Active \ {p}
    BY DEF Active, TypeOK, Woke
  <2> QED BY <1>0, <2>1, OneLess
<1>5. Reserved'
  <2>1. Cardinality(Used') >= Cardinality(Used) - Cardinality(wrote[p])
    BY <1>2, UsedLess
  <2>2. Cardinality(wrote[p]) <= OpBlocks
    BY DEF CallsInProgress
  <2>3. Cardinality(Used') \in Nat /\ Cardinality(wrote[p]) \in Nat
    <3>1. Used' \in SUBSET Used
      BY <1>2 DEF Used, TypeOK
    <3>2. IsFiniteSet(wrote[p])
      BY FS_Subset DEF TypeOK
    <3> QED BY <3>1, <3>2, UsedFinite, FS_Subset, FS_CardinalityType
  <2>4. outstanding' * OpBlocks = outstanding * OpBlocks - OpBlocks
    BY <1>4, Counted, Times
  <2> QED BY <1>0, <2>1, <2>2, <2>3, <2>4, UsedFinite, Counted, CapacityFits DEF Reserved, TypeOK
<1>6. CallsInProgress'
  <2>1. \A q \in Procs : pc'[q] = "append" <=> pc[q] = "append"
    BY DEF TypeOK, Woke
  <2>2. \A q \in Procs : wrote'[q] # {} => q \in Active'
    BY <1>2, <1>3, <1>4 DEF CallsInProgress, TypeOK
  <2>3. \A q \in Procs : wrote'[q] \subseteq Range(lh)
    BY <1>2, <1>3 DEF CallsInProgress, TypeOK
  <2>4. \A q \in Procs : Cardinality(wrote'[q]) <= OpBlocks
    BY <1>2, <1>3, FS_EmptySet DEF CallsInProgress, TypeOK
  <2>5. \A q \in Procs : pc'[q] = "append" => Cardinality(wrote'[q] \cup {held[q]}) <= OpBlocks
    BY <1>3, <2>1 DEF CallsInProgress
  <2> QED BY <1>0, <2>1, <2>2, <2>3, <2>4, <2>5 DEF CallsInProgress
<1>7. CASE Active = {p}
  <2>1. /\ committing' /\ tail' = 0 /\ pc' = [pc EXCEPT ![p] = "commit"]
        /\ phase' = IF Logged THEN "log" ELSE "done"
    BY <1>7
  <2>2. phase' \in {"log", "done"} /\ (phase' = "done" => lh = <<>>)
    BY <2>1 DEF Logged, TypeOK
  <2>3. TypeOK'
    BY <1>0, <1>2, <2>1, <2>2 DEF TypeOK
  <2>4. OneCommitter'
    BY <1>1, <1>4, <1>7, <2>1, <2>2 DEF OneCommitter, TypeOK, Recovering
  <2>5. Headers' /\ Copied'
    BY <1>0, <1>1, <2>1, <2>2 DEF Headers, Copied
  <2>6. Cached'
    BY <1>0, <1>1, <2>2 DEF Cached
  <2>7. NoLostWakeup'
    BY <2>1 DEF NoLostWakeup, Admits
  <2> QED BY <1>5, <1>6, <2>3, <2>4, <2>5, <2>6, <2>7
<1>8. CASE Active # {p}
  <2>1. /\ pc' = Woke([pc EXCEPT ![p] = "user"])
        /\ committing' = committing /\ phase' = phase /\ tail' = tail
    BY <1>8
  <2>2. TypeOK'
    BY <1>0, <1>2, <2>1 DEF TypeOK, Woke
  <2>3. OneCommitter'
    BY <1>1, <1>4, <2>1 DEF OneCommitter, TypeOK, Recovering, Woke
  <2>4. Headers' /\ Copied' /\ Cached'
    BY <1>0, <1>4, <1>8, <2>1 DEF Headers, Copied, Cached
  <2>5. NoLostWakeup'
    BY <2>1 DEF NoLostWakeup, Woke
  <2> QED BY <1>5, <1>6, <2>2, <2>3, <2>4, <2>5
<1> QED BY <1>7, <1>8

\* What a step of the commit or of the recovery leaves alone.
LEMMA CommitStepKeeps ==
    ASSUME IInv, pc' = pc, wrote' = wrote, held' = held, committing' = committing,
           committing \/ Recovering, lh' = lh \/ wrote = [p \in Procs |-> {}],
           Len(lh') <= Capacity, lh' \in Seq(Blocks)
    PROVE  CallsInProgress' /\ Reserved' /\ NoLostWakeup' /\ Active' = Active
<1> USE LogAssumption DEF IInv
<1>1. Active' = Active /\ Active = {}
  BY DEF Active, OneCommitter
<1>2. wrote = [p \in Procs |-> {}]
  BY <1>1 DEF CallsInProgress, TypeOK
<1>3. CallsInProgress'
  BY <1>1, <1>2 DEF CallsInProgress
<1>4. Reserved'
  <2>1. Used' = {} /\ outstanding' = 0
    BY <1>1, <1>2, FS_EmptySet DEF Used, outstanding
  <2> QED BY <2>1, CapacityFits, FS_EmptySet DEF Reserved
<1>5. NoLostWakeup'
  BY DEF NoLostWakeup, Admits, OneCommitter
<1> QED BY <1>1, <1>3, <1>4, <1>5

LEMMA WriteLogStep ==
    ASSUME IInv, WriteLog
    PROVE  IInv'
<1> USE LogAssumption DEF IInv, WriteLog
<1>1. tail + 1 \in 1 .. Len(lh) /\ tail + 1 \in 1 .. LOGSIZE /\ lh[tail + 1] \in Blocks
  BY CapacityFits DEF TypeOK, Headers
<1>2. TypeOK'
  BY <1>1 DEF TypeOK
<1>3. OneCommitter' /\ Headers' /\ Cached'
  BY DEF OneCommitter, Headers, Cached, Recovering, Active
<1>4. Copied'
  <2>1. \A i \in 1 .. tail : logd'[i] = logd[i]
    BY <1>1 DEF TypeOK
  <2>2. logd'[tail + 1] = cache[lh[tail + 1]]
    BY <1>1 DEF TypeOK
  <2>3. \A i \in 1 .. tail' : i \in 1 .. tail \/ i = tail + 1
    BY DEF TypeOK
  <2> QED BY <2>1, <2>2, <2>3 DEF Copied
<1>5. CallsInProgress' /\ Reserved' /\ NoLostWakeup'
  BY CommitStepKeeps DEF OneCommitter, Headers, TypeOK
<1> QED BY <1>2, <1>3, <1>4, <1>5
\* The commit point: the blocks are all in the log when the header names them.
LEMMA WriteHeadStep ==
    ASSUME IInv, WriteHead
    PROVE  IInv'
<1> USE LogAssumption DEF IInv, WriteHead, LogWritten
<1>1. TypeOK'
  BY DEF TypeOK
<1>2. OneCommitter' /\ Headers' /\ Copied'
  BY DEF OneCommitter, Headers, Copied, Recovering, Active
<1>3. Cached'
  <2>1. \A i \in 1 .. Len(lh) : i > tail'
    BY DEF TypeOK
  <2> QED BY <2>1 DEF Cached
<1>4. CallsInProgress' /\ Reserved' /\ NoLostWakeup'
  BY CommitStepKeeps DEF OneCommitter, Headers, TypeOK
<1> QED BY <1>1, <1>2, <1>3, <1>4

\* One block is installed; the others of the log are different blocks.
LEMMA InstallTransStep ==
    ASSUME IInv, InstallTrans
    PROVE  IInv'
<1> USE LogAssumption DEF IInv, InstallTrans
<1> DEFINE b == lh[tail + 1]
<1>1. /\ tail + 1 \in 1 .. Len(lh) /\ tail + 1 \in 1 .. LOGSIZE /\ b \in Blocks
      /\ logd[tail + 1] \in Vals
  BY CapacityFits DEF TypeOK, Headers
<1>2. \A i \in 1 .. Len(lh) : lh[i] = b => i = tail + 1
  BY <1>1 DEF Headers, IsInjective, TypeOK
<1>3. /\ home'[b] = logd[tail + 1] /\ cache'[b] = logd[tail + 1]
      /\ \A c \in Blocks \ {b} : home'[c] = home[c] /\ cache'[c] = cache[c]
  BY <1>1 DEF TypeOK
<1> HIDE DEF b
<1>4. TypeOK'
  BY <1>1 DEF TypeOK, b
<1>5. OneCommitter' /\ Headers'
  BY DEF OneCommitter, Headers, Recovering, Active
<1>6. Cached'
  <2>1. dirty' = dirty \ {b} /\ tail' = tail + 1 /\ lh' = lh /\ phase' = phase /\ held' = held
    BY DEF b
  <2>2. \A i \in 1 .. Len(lh) : i > tail' <=> i > tail /\ lh[i] # b
    BY <1>2, <2>1 DEF TypeOK, b
  <2>3. \A c \in Blocks : c \in dirty' <=>
           \E i \in 1 .. Len(lh) : lh[i] = c /\ phase = "install" /\ i > tail'
    BY <2>1, <2>2 DEF Cached
  <2>4. \A c \in Blocks : c \notin dirty' /\ (\A p \in Procs : held'[p] # c)
                            => cache'[c] = home'[c]
    BY <1>3, <2>1 DEF Cached
  <2> QED BY <2>1, <2>3, <2>4 DEF Cached
<1>7. Copied'
  <2>1. \A i \in 1 .. Len(lh) : i # tail + 1 => lh[i] # b /\ lh[i] \in Blocks
    BY <1>2 DEF TypeOK
  <2>2. \A i \in 1 .. Len(lh) : i \in 1 .. tail' <=> i \in 1 .. tail \/ i = tail + 1
    BY DEF TypeOK
  <2>3. phase = "install" => \A i \in 1 .. Len(lh) : logd[i] = cache'[lh[i]]
    BY <1>3, <2>1 DEF Copied, b
  <2>4. \A i \in 1 .. tail : logd[i] = home'[lh[i]]
    BY <1>3, <2>1 DEF Copied, TypeOK
  <2>5. \A i \in 1 .. tail' : logd[i] = home'[lh[i]]
    BY <1>3, <2>4 DEF TypeOK, b
  <2> QED BY <2>3, <2>5 DEF Copied
<1>8. CallsInProgress' /\ Reserved' /\ NoLostWakeup'
  BY CommitStepKeeps DEF OneCommitter, Headers, TypeOK, Recovering
<1> QED BY <1>4, <1>5, <1>6, <1>7, <1>8

\* The header is erased when everything is installed.
LEMMA ClearHeadStep ==
    ASSUME IInv, ClearHead
    PROVE  IInv'
<1> USE LogAssumption DEF IInv, ClearHead
<1>1. TypeOK'
  BY DEF TypeOK
<1>2. Active' = Active /\ lh' \in Seq(Blocks) /\ Len(lh') = 0 /\ lh' = <<>>
  BY DEF Active
<1>3. OneCommitter'
  BY <1>2 DEF OneCommitter, Recovering
<1>4. Headers' /\ Copied'
  BY <1>2, CapacityFits DEF Headers, Copied, IsInjective
<1>5. Cached'
  <2>1. dirty = {}
    <3>1. \A i \in 1 .. Len(lh) : ~(i > tail)
      BY DEF TypeOK
    <3> QED BY <3>1 DEF Cached, TypeOK
  <2> QED BY <1>2, <2>1 DEF Cached
<1>6. wrote = [p \in Procs |-> {}]
  BY DEF TypeOK, CallsInProgress, OneCommitter, Recovering
<1>7. CallsInProgress' /\ Reserved'
  BY <1>2, <1>6, CapacityFits, CommitStepKeeps DEF OneCommitter, Recovering
<1>8. NoLostWakeup'
  BY <1>2, <1>6, CapacityFits, CommitStepKeeps DEF OneCommitter, Recovering
<1> QED BY <1>1, <1>3, <1>4, <1>5, <1>7, <1>8

LEMMA CommittedStep ==
    ASSUME IInv, NEW p \in Procs, Committed(p)
    PROVE  IInv'
<1> USE LogAssumption DEF IInv, Committed, disk
<1>1. TypeOK'
  BY DEF TypeOK, Woke
<1>2. Active' = Active /\ outstanding' = outstanding
  BY DEF Active, outstanding, TypeOK, Woke
<1>3. OneCommitter'
  BY DEF OneCommitter, TypeOK, Recovering, Woke
<1>4. \A q \in Procs : pc'[q] = "append" <=> pc[q] = "append"
  BY DEF TypeOK, Woke
<1>5. CallsInProgress'
  BY <1>2, <1>4 DEF CallsInProgress
<1>6. Headers' /\ Copied' /\ Cached'
  BY DEF Headers, Copied, Cached
<1>7. Reserved'
  BY <1>2 DEF Reserved, Used
<1>8. NoLostWakeup'
  BY DEF NoLostWakeup, Woke
<1> QED BY <1>1, <1>3, <1>5, <1>6, <1>7, <1>8

\* Recovery begins with the header on the disk.
LEMMA ReadHeadStep ==
    ASSUME IInv, ReadHead
    PROVE  IInv'
<1> USE LogAssumption DEF IInv, ReadHead, disk
<1>1. TypeOK'
  BY DEF TypeOK
<1>2. Active' = Active /\ wrote = [p \in Procs |-> {}]
  BY DEF Active, TypeOK, CallsInProgress, OneCommitter, Recovering
<1>3. OneCommitter' /\ Headers' /\ Copied'
  BY <1>2 DEF OneCommitter, Recovering, Headers, Copied
<1>4. Cached'
  BY DEF Cached, Headers
<1>5. CallsInProgress' /\ Reserved' /\ NoLostWakeup'
  BY <1>1, <1>2, <1>3, CommitStepKeeps DEF Recovering, TypeOK, Headers
<1> QED BY <1>1, <1>3, <1>4, <1>5

\* Only a buffer that equals the disk is recycled.
LEMMA EvictStep ==
    ASSUME IInv, NEW b \in Blocks, Evict(b)
    PROVE  IInv' /\ cache' = cache
<1> USE LogAssumption DEF IInv, Evict, disk
<1>1. cache' = cache
  BY DEF Cached, TypeOK
<1>2. TypeOK' /\ Headers' /\ Cached' /\ Copied'
  BY <1>1 DEF TypeOK, Headers, Cached, Copied, Active
<1>3. Active' = Active /\ outstanding' = outstanding /\ Used' = Used
  BY DEF Active, outstanding, Used
<1>4. OneCommitter' /\ CallsInProgress' /\ Reserved' /\ NoLostWakeup'
  BY <1>3 DEF OneCommitter, Recovering, CallsInProgress, Reserved, NoLostWakeup, Admits, HasRoom
<1> QED BY <1>1, <1>2, <1>4

\* A crash leaves the disk, whose header is empty or that of a committed log.
LEMMA CrashStep ==
    ASSUME IInv, Crash
    PROVE  IInv'
<1> USE LogAssumption DEF IInv, Crash, disk
<1>1. TypeOK'
  <2>1. Len(lh') = 0 /\ lh' \in Seq(Blocks) /\ tail' \in 0 .. Len(lh')
    OBVIOUS
  <2>2. /\ pc' \in [Procs -> {"user", "begin", "asleep", "in", "append", "commit"}]
        /\ wrote' \in [Procs -> SUBSET Blocks]
        /\ held' \in [Procs -> Blocks \cup {NoBlock}]
    OBVIOUS
  <2>3. crashes' \in Nat
    BY DEF TypeOK
  <2> QED BY <2>1, <2>2, <2>3 DEF TypeOK
<1>2. Active' = {} /\ lh' = <<>> /\ Len(lh') = 0 /\ Recovering'
  BY DEF Active, Recovering
<1>3. OneCommitter' /\ Headers' /\ Copied' /\ Cached'
  BY <1>2, CapacityFits DEF OneCommitter, Recovering, Headers, Copied, Cached, IsInjective
<1>4. CallsInProgress'
  BY <1>2, FS_EmptySet DEF CallsInProgress
<1>5. Reserved'
  <2>1. Used' = {} /\ outstanding' = 0
    BY <1>2, FS_EmptySet DEF Used, outstanding
  <2> QED BY <1>2, <2>1, CapacityFits, FS_EmptySet DEF Reserved
<1>6. NoLostWakeup'
  BY DEF NoLostWakeup
<1> QED BY <1>1, <1>3, <1>4, <1>5, <1>6
LEMMA NextInv ==
    ASSUME IInv, [Next]_vars
    PROVE  IInv'
<1>1. CASE UNCHANGED vars
  <2>1. TypeOK' /\ OneCommitter' /\ CallsInProgress' /\ Headers' /\ Cached' /\ Copied'
    BY <1>1 DEF vars, IInv, TypeOK, OneCommitter, Recovering, Active, CallsInProgress,
                Headers, Cached, Copied
  <2>2. Reserved' /\ NoLostWakeup'
    BY <1>1 DEF vars, IInv, Reserved, Used, NoLostWakeup, Admits, HasRoom, outstanding, Active
  <2> QED BY <2>1, <2>2 DEF IInv
<1>2. ASSUME NEW p \in Procs,
             \/ Begin(p) \/ BeginSleeps(p) \/ EndOp(p) \/ LogWrite(p) \/ Committed(p)
             \/ \E b \in Blocks, v \in Vals : Modify(p, b, v)
      PROVE  IInv'
  BY <1>2, BeginStep, BeginSleepsStep, EndOpStep, LogWriteStep, CommittedStep, ModifyStep
<1>3. CASE WriteLog \/ WriteHead \/ InstallTrans \/ ClearHead \/ ReadHead
  BY <1>3, WriteLogStep, WriteHeadStep, InstallTransStep, ClearHeadStep, ReadHeadStep
<1>4. CASE (\E b \in Blocks : Evict(b)) \/ Crash
  BY <1>4, EvictStep, CrashStep
<1> QED BY <1>1, <1>2, <1>3, <1>4 DEF Next

----------------------------------------------------------------------------
(* The theorems *)

\* IInv holds of every behaviour of the log: the types, who may commit, what
\* the headers on disk and in memory say, and what write_log has copied.
THEOREM LogInvariant == Spec => []IInv
BY InitInv, NextInv, PTL DEF Spec

\* log_write never panics (log.c:218), for any number of calls and of blocks,
\* when no call writes all the blocks begin_op reserves for it.
THEOREM LogNeverTooBig ==
    ASSUME OpBlocks < MAXOPBLOCKS
    PROVE  Spec => []NeverTooBig
<1>1. Init => NeverTooBig
  BY DEF Init, NeverTooBig
<1>2. IInv => HasEntry
  <2> SUFFICES ASSUME IInv PROVE HasEntry
    OBVIOUS
  <2>1. Len(lh) <= LOGSIZE - 2 /\ Len(lh) \in Nat
    BY CapacityFits, LogAssumption DEF IInv, Headers, TypeOK
  <2> QED BY <2>1, LogAssumption DEF HasEntry
<1>3. IInv /\ NeverTooBig /\ [Next]_vars => NeverTooBig'
  BY <1>2 DEF NeverTooBig, Next, vars, Begin, BeginSleeps, Modify, LogWrite, EndOp,
              Committed, WriteLog, WriteHead, InstallTrans, ClearHead, ReadHead, Evict, Crash
<1> QED BY <1>1, <1>3, LogInvariant, PTL DEF Spec

\* No process sleeps in begin_op while the log would admit it (log.c:161, 171).
THEOREM LogNoLostWakeup == Spec => []NoLostWakeup
<1>1. IInv => NoLostWakeup
  BY DEF IInv
<1> QED BY LogInvariant, <1>1, PTL

\* Nothing a call wrote is lost by a crash once the last end_op has returned
\* (log.c:143-144).
THEOREM LogDurableWhenIdle == Spec => []DurableWhenIdle
<1>1. IInv => DurableWhenIdle
  <2> SUFFICES ASSUME IInv, phase = "run", Active = {}
               PROVE  Recovered = cache
    BY DEF DurableWhenIdle
  <2>1. head = <<>> /\ Range(head) = {}
    BY DEF IInv, Headers, Range
  <2>2. Recovered = home
    BY <2>1 DEF Recovered, IInv, TypeOK
  <2>3. lh = <<>> /\ dirty = {}
    BY DEF IInv, Headers, Cached, TypeOK
  <2>4. \A b \in Blocks : cache[b] = home[b]
    BY <2>3, LogAssumption DEF IInv, Cached, CallsInProgress, Active
  <2> QED BY <2>2, <2>4 DEF IInv, TypeOK
<1> QED BY LogInvariant, <1>1, PTL
----------------------------------------------------------------------------
(* The log implements AtomicDisk *)

\* Current is what the running system sees, as the instance has it.
Current == IF Recovering THEN Recovered ELSE cache

\* Without a header, recovery leaves the disk as it is.
LEMMA RecoveredEmpty ==
    ASSUME TypeOK, head = <<>>
    PROVE  Recovered = home
<1>1. Range(head) = {}
  BY DEF Range
<1> QED BY <1>1 DEF Recovered, TypeOK

\* The position at which a header names a block.
LEMMA Position ==
    ASSUME NEW h \in Seq(Blocks), NEW b \in Range(h)
    PROVE  LET i == CHOOSE j \in 1 .. Len(h) : h[j] = b
           IN  i \in 1 .. Len(h) /\ h[i] = b
BY DEF Range

\* What the refinement mapping depends on.
LEMMA SameMapping ==
    ASSUME Recovered' = Recovered, Current' = Current, Active' = Active
    PROVE  UNCHANGED AtomicDisk!vars
BY DEF AtomicDisk!vars, Current

LEMMA RefinesInit == Init => AtomicDisk!Init
<1> SUFFICES ASSUME Init PROVE AtomicDisk!Init
  OBVIOUS
<1>1. TypeOK /\ Active = {} /\ Recovering
  BY InitInv DEF IInv, OneCommitter, Init, Recovering
<1>2. Recovered = InitDisk
  BY <1>1, RecoveredEmpty DEF Init
<1> QED BY <1>1, <1>2 DEF AtomicDisk!Init
\* The calls: begin_op and end_op are Begin and End, the change of a buffer is
\* Write, and log_write only records it.
LEMMA RefinesCalls ==
    ASSUME IInv, NEW p \in Procs,
           \/ Begin(p) \/ BeginSleeps(p) \/ EndOp(p) \/ LogWrite(p) \/ Committed(p)
           \/ \E b \in Blocks, v \in Vals : Modify(p, b, v)
    PROVE  [AtomicDisk!Next]_(AtomicDisk!vars)
<1> USE DEF disk
<1>2. CASE Begin(p)
  <2>1. Active' = Active \cup {p} /\ p \notin Active
    BY <1>2 DEF Begin, Active, IInv, TypeOK
  <2>2. Recovered' = Recovered /\ Current' = Current
    BY <1>2 DEF Begin, Recovered, Current, Recovering
  <2>3. AtomicDisk!Begin(p)
    BY <2>1, <2>2 DEF AtomicDisk!Begin, Current
  <2> QED BY <2>3 DEF AtomicDisk!Next
<1>3. CASE BeginSleeps(p)
  <2>1. Active' = Active
    BY <1>3 DEF BeginSleeps, Active, IInv, TypeOK
  <2>2. Recovered' = Recovered /\ Current' = Current
    BY <1>3 DEF BeginSleeps, Recovered, Current, Recovering
  <2> QED BY <2>1, <2>2, SameMapping
<1>4. CASE EndOp(p)
  <2>1. Active' = Active \ {p} /\ p \in Active
    BY <1>4 DEF EndOp, Active, IInv, TypeOK, Woke
  <2>2. ~Recovering /\ ~Recovering'
    BY <1>4, <2>1 DEF IInv, OneCommitter, EndOp, Recovering
  <2>3. Recovered' = Recovered /\ Current' = Current
    BY <1>4, <2>2 DEF EndOp, Recovered, Current
  <2>4. AtomicDisk!End(p)
    BY <2>1, <2>3 DEF AtomicDisk!End, Current
  <2> QED BY <2>4 DEF AtomicDisk!Next
<1>5. CASE LogWrite(p)
  <2>1. Active' = Active
    BY <1>5 DEF LogWrite, Active, IInv, TypeOK
  <2>2. Recovered' = Recovered /\ Current' = Current
    BY <1>5 DEF LogWrite, Recovered, Current, Recovering
  <2> QED BY <2>1, <2>2, SameMapping
<1>6. CASE Committed(p)
  <2>1. Active' = Active
    BY <1>6 DEF Committed, Active, IInv, TypeOK, Woke
  <2>2. Recovered' = Recovered /\ Current' = Current
    BY <1>6 DEF Committed, Recovered, Current, Recovering
  <2> QED BY <2>1, <2>2, SameMapping
<1>7. ASSUME NEW b \in Blocks, NEW v \in Vals, Modify(p, b, v)
      PROVE  AtomicDisk!Next
  <2>1. Active' = Active /\ p \in Active
    BY <1>7 DEF Modify, Active, IInv, TypeOK
  <2>2. ~Recovering /\ ~Recovering'
    BY <1>7, <2>1 DEF IInv, OneCommitter, Modify, Recovering
  <2>3. Recovered' = Recovered
    BY <1>7 DEF Modify, Recovered
  <2>4. AtomicDisk!Write(p)
    BY <1>7, <2>1, <2>2, <2>3 DEF AtomicDisk!Write, Modify
  <2> QED BY <2>4 DEF AtomicDisk!Next
<1> QED BY <1>2, <1>3, <1>4, <1>5, <1>6, <1>7

\* The commit: write_head is Commit, and nothing else in it is seen.
LEMMA RefinesCommit ==
    ASSUME IInv, WriteLog \/ WriteHead \/ InstallTrans \/ ClearHead
    PROVE  [AtomicDisk!Next]_(AtomicDisk!vars)
<1> USE DEF IInv
<1>0. Active' = Active
  BY DEF Active, WriteLog, WriteHead, InstallTrans, ClearHead
<1>1. CASE WriteLog
  <2>1. head = <<>> /\ head' = <<>> /\ Range(head) = {}
    BY <1>1 DEF WriteLog, Headers, Range
  <2>2. Recovered' = Recovered
    BY <1>1, <2>1 DEF WriteLog, Recovered
  <2>3. Current' = Current
    BY <1>1, <2>2 DEF WriteLog, Current, Recovering
  <2> QED BY <1>0, <2>2, <2>3, SameMapping
<1>2. CASE WriteHead
  <2>1. Recovered' = cache
    <3>1. \A b \in Blocks : b \in Range(lh) =>
             logd[CHOOSE i \in 1 .. Len(lh) : lh[i] = b] = cache[b]
      <4> SUFFICES ASSUME NEW b \in Blocks, b \in Range(lh)
                   PROVE  logd[CHOOSE i \in 1 .. Len(lh) : lh[i] = b] = cache[b]
        OBVIOUS
      <4> DEFINE k == CHOOSE i \in 1 .. Len(lh) : lh[i] = b
      <4>1. k \in 1 .. Len(lh) /\ lh[k] = b
        BY Position DEF TypeOK
      <4>2. \A i \in 1 .. Len(lh) : logd[i] = cache[lh[i]]
        BY <1>2 DEF WriteHead, LogWritten, Copied
      <4> QED BY <4>1, <4>2
    <3>2. \A b \in Blocks : b \notin Range(lh) => home[b] = cache[b]
      <4>1. \A p \in Procs : held[p] = NoBlock
        BY <1>2 DEF WriteHead, LogWritten, OneCommitter, CallsInProgress, Active
      <4>2. \A b \in Blocks : b \notin Range(lh) => b \notin dirty
        BY <1>2 DEF Cached, Range, TypeOK
      <4> QED BY <4>1, <4>2, LogAssumption DEF Cached
    <3>3. Recovered' = [b \in Blocks |-> cache[b]]
      <4>1. head' = lh /\ home' = home /\ logd' = logd
        BY <1>2 DEF WriteHead
      <4>2. Recovered' = [b \in Blocks |->
                IF b \in Range(lh) THEN logd[CHOOSE i \in 1 .. Len(lh) : lh[i] = b]
                ELSE home[b]]
        BY <4>1 DEF Recovered
      <4> QED BY <3>1, <3>2, <4>2
    <3> QED BY <3>3 DEF TypeOK
  <2>2. Current = cache /\ Current' = cache
    BY <1>2 DEF WriteHead, LogWritten, Current, Recovering
  <2>3. Active = {}
    BY <1>2 DEF WriteHead, LogWritten, OneCommitter
  <2>4. AtomicDisk!Commit
    BY <1>0, <2>1, <2>2, <2>3 DEF AtomicDisk!Commit, Current
  <2> QED BY <2>4 DEF AtomicDisk!Next
<1>3. CASE InstallTrans
  <2>1. tail + 1 \in 1 .. Len(lh) /\ lh[tail + 1] \in Blocks /\ head = lh
    BY <1>3 DEF InstallTrans, TypeOK, Headers
  <2>2. Recovered' = Recovered
    <3>1. lh[tail + 1] \in Range(head)
      BY <2>1 DEF Range, TypeOK
    <3>2. \A b \in Blocks : b \notin Range(head) => home'[b] = home[b]
      BY <1>3, <2>1, <3>1 DEF InstallTrans, TypeOK
    <3> QED BY <1>3, <3>2 DEF InstallTrans, Recovered
  <2>3. phase = "install" => cache' = cache
    BY <1>3, <2>1 DEF InstallTrans, Copied, TypeOK
  <2>4. Current' = Current
    BY <1>3, <2>2, <2>3 DEF InstallTrans, Current, Recovering
  <2> QED BY <1>0, <2>2, <2>4, SameMapping
<1>4. CASE ClearHead
  <2>1. Recovered = home
    <3>1. \A b \in Blocks : b \in Range(head) =>
             logd[CHOOSE i \in 1 .. Len(head) : head[i] = b] = home[b]
      <4> SUFFICES ASSUME NEW b \in Blocks, b \in Range(head)
                   PROVE  logd[CHOOSE i \in 1 .. Len(head) : head[i] = b] = home[b]
        OBVIOUS
      <4> DEFINE k == CHOOSE i \in 1 .. Len(head) : head[i] = b
      <4>1. k \in 1 .. Len(head) /\ head[k] = b
        BY Position DEF TypeOK
      <4>2. \A i \in 1 .. Len(head) : logd[i] = home[head[i]]
        BY <1>4 DEF ClearHead, Copied, Headers
      <4> QED BY <4>1, <4>2
    <3>2. \A b \in Blocks : Recovered[b] = home[b]
      BY <3>1 DEF Recovered
    <3>3. Recovered = [b \in Blocks |-> Recovered[b]]
      BY DEF Recovered
    <3> QED BY <3>2, <3>3 DEF TypeOK
  <2>2. Recovered' = home
    <3>1. TypeOK' /\ head' = <<>>
      BY <1>4, ClearHeadStep DEF ClearHead
    <3>2. Range(head') = {}
      BY <3>1 DEF Range
    <3>3. home' = home /\ home = [b \in Blocks |-> home[b]]
      BY <1>4 DEF ClearHead, TypeOK
    <3> QED BY <3>2, <3>3 DEF Recovered
  <2>3. phase = "redo" => cache = home
    <3> SUFFICES ASSUME phase = "redo" PROVE cache = home
      OBVIOUS
    <3>1. dirty = {} /\ \A p \in Procs : held[p] = NoBlock
      BY DEF Cached, OneCommitter, CallsInProgress, Recovering, TypeOK
    <3>2. \A b \in Blocks : cache[b] = home[b]
      BY <3>1, LogAssumption DEF Cached
    <3> QED BY <3>2 DEF TypeOK
  <2>4. Current' = Current
    BY <1>4, <2>1, <2>2, <2>3 DEF ClearHead, Current, Recovering
  <2> QED BY <1>0, <2>1, <2>2, <2>4, SameMapping
<1> QED BY <1>1, <1>2, <1>3, <1>4

\* The start of recovery and the recycling of a buffer are not seen; a crash is.
LEMMA RefinesRest ==
    ASSUME IInv, ReadHead \/ (\E b \in Blocks : Evict(b)) \/ Crash
    PROVE  [AtomicDisk!Next]_(AtomicDisk!vars)
<1> USE DEF disk
<1>1. CASE ReadHead
  <2>1. Recovered' = Recovered /\ Current' = Current /\ Active' = Active
    BY <1>1 DEF ReadHead, Recovered, Current, Recovering, Active
  <2> QED BY <2>1, SameMapping
<1>2. ASSUME NEW b \in Blocks, Evict(b)
      PROVE  UNCHANGED AtomicDisk!vars
  <2>1. cache' = cache
    BY <1>2, EvictStep
  <2>2. home' = home /\ logd' = logd /\ head' = head /\ phase' = phase /\ pc' = pc
    BY <1>2 DEF Evict
  <2>3. Recovered' = Recovered
    BY <2>2 DEF Recovered
  <2>4. Current' = Current /\ Active' = Active
    BY <2>1, <2>2, <2>3 DEF Current, Recovering, Active
  <2> QED BY <2>3, <2>4, SameMapping
<1>3. CASE Crash
  <2>1. Recovered' = Recovered /\ Active' = {} /\ Recovering'
    BY <1>3 DEF Crash, Recovered, Recovering, Active
  <2>2. AtomicDisk!Crash
    BY <2>1 DEF AtomicDisk!Crash
  <2> QED BY <2>2 DEF AtomicDisk!Next
<1> QED BY <1>1, <1>2, <1>3

LEMMA RefinesNext ==
    ASSUME IInv, [Next]_vars
    PROVE  [AtomicDisk!Next]_(AtomicDisk!vars)
<1>1. CASE UNCHANGED vars
  <2>1. Recovered' = Recovered /\ Current' = Current /\ Active' = Active
    BY <1>1 DEF vars, Recovered, Current, Recovering, Active
  <2> QED BY <2>1, SameMapping
<1>2. CASE Next
  BY <1>2, RefinesCalls, RefinesCommit, RefinesRest DEF Next
<1> QED BY <1>1, <1>2

\* The log makes FS system calls atomic: every behaviour of log.c, crashes in
\* commits and recoveries included, is one of AtomicDisk (log.c:9-15).
THEOREM LogImplementsAtomicDisk == Spec => ImplementsAtomicDisk
BY RefinesInit, RefinesNext, LogInvariant, PTL DEF Spec, ImplementsAtomicDisk, AtomicDisk!Spec
====
