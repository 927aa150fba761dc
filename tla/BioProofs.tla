----------------------------- MODULE BioProofs -----------------------------
(***************************************************************************)
(* The safety properties of module Bio for any number of processes,        *)
(* buffers and blocks: IInv is preserved by every action, and under it     *)
(* every action is a step of BlockStore or none.                           *)
(***************************************************************************)
EXTENDS Bio, FiniteSetTheorems, TLAPS

----------------------------------------------------------------------------
(* The inductive invariant *)

Buffer == [blockno : Blocks \cup {NoBlock}, valid : BOOLEAN, dirty : BOOLEAN,
           refcnt : Nat, data : Vals]

Cmd == [op : {"none", "read", "write"}, blockno : Blocks \cup {NoBlock},
            data : Vals, done : BOOLEAN]

TypeOK ==
    /\ buf \in [Bufs -> Buffer]
    /\ lru \in [Bufs -> Bufs]
    /\ slock \in [Bufs -> Procs \cup {NoProc}]
    /\ idequeue \in Seq(Bufs)
    /\ disk \in [Blocks -> Vals]
    /\ drive \in Cmd
    /\ pc \in [Procs -> {"idle", "panic", "lock", "locksleep", "rw", "iosleep", "iotest",
                         "have", "drop"}]
    /\ mine \in [Procs -> [b : 0 .. NBUF, op : {"read", "write"}]]

Users(b) == {p \in Procs : mine[p].b = b}

Holding == {"have", "rw", "iosleep", "iotest"}

\* Who has come through bget uses a buffer, which stays that of its block, and
\* refcnt counts the users.
References ==
    /\ \A p \in Procs : mine[p].b = 0 <=> pc[p] \in {"idle", "panic"}
    /\ \A b \in Bufs : buf[b].refcnt = Cardinality(Users(b))
    /\ \A p \in Procs : mine[p].b # 0 => buf[mine[p].b].blockno # NoBlock
    /\ \A b, c \in Bufs : b # c /\ buf[b].blockno = buf[c].blockno => buf[b].blockno = NoBlock

\* The holder of a buffer's lock is one of its users, past acquiresleep.
Locks ==
    /\ \A p \in Procs : pc[p] \in Holding => slock[mine[p].b] = p
    /\ \A b \in Bufs : slock[b] # NoProc => /\ mine[slock[b]].b = b
                                            /\ pc[slock[b]] \in Holding
    /\ \A p \in Procs : pc[p] = "locksleep" => slock[mine[p].b] # NoProc

\* What the flags of its buffer mean to a process.
FlagsOf(p) ==
    /\ pc[p] \in {"idle", "panic", "lock", "locksleep", "have", "drop"} => mine[p].op = "read"
    /\ pc[p] = "have" => buf[mine[p].b].valid
    /\ pc[p] = "iotest" => buf[mine[p].b].valid /\ ~buf[mine[p].b].dirty
    /\ pc[p] \in {"rw", "iosleep"} =>
          IF mine[p].op = "write" THEN buf[mine[p].b].dirty ELSE ~buf[mine[p].b].valid

Flags ==
    /\ \A b \in Bufs : buf[b].dirty => buf[b].valid
    /\ \A b \in Bufs : buf[b].valid => buf[b].blockno # NoBlock
    /\ \A p \in Procs : FlagsOf(p)

\* The requests that wait are queued once each, and the drive has the first.
Requests ==
    /\ IsInjective(idequeue)
    /\ \A b \in Bufs : b \in Range(idequeue) <=> slock[b] # NoProc /\ pc[slock[b]] = "iosleep"
    /\ idequeue = <<>> => drive.op = "none" /\ ~drive.done
    /\ idequeue # <<>> =>
          /\ drive.op = IF buf[Head(idequeue)].dirty THEN "write" ELSE "read"
          /\ drive.blockno = buf[Head(idequeue)].blockno
          /\ drive.op = "write" => drive.data = buf[Head(idequeue)].data
          /\ drive.op = "write" /\ drive.done => disk[drive.blockno] = drive.data

\* A buffer that has been read and is not to be written equals the disk.
Clean ==
    \A b \in Bufs : buf[b].valid /\ ~buf[b].dirty => buf[b].data = disk[buf[b].blockno]

\* Every buffer is on the list, once.
Listed ==
    /\ \A b \in Bufs : \E k \in Bufs : lru[k] = b
    /\ \A j, k \in Bufs : lru[j] = lru[k] => j = k

IInv == TypeOK /\ References /\ Locks /\ Flags /\ Requests /\ Clean /\ Listed
----------------------------------------------------------------------------
(* The operators *)

\* The users of a buffer are finitely many.
LEMMA UsersCounted ==
    ASSUME NEW b
    PROVE  IsFiniteSet(Users(b)) /\ Cardinality(Users(b)) \in Nat
BY FS_Subset, FS_CardinalityType, BioAssumption DEF Users

\* What a list with one element moved to the front has.
LEMMA FrontListed ==
    ASSUME lru \in [Bufs -> Bufs], Listed, NEW b \in Bufs, lru' = ToFront(b)
    PROVE  lru' \in [Bufs -> Bufs] /\ Listed'
<1> DEFINE k == CHOOSE i \in Bufs : lru[i] = b
<1>1. k \in Bufs /\ lru[k] = b
  BY DEF Listed
<1>2. lru' = [i \in Bufs |-> IF i = 1 THEN b ELSE IF i <= k THEN lru[i - 1] ELSE lru[i]]
  BY DEF ToFront
<1> HIDE DEF k
<1> DEFINE from(i) == IF i = 1 THEN k ELSE IF i <= k THEN i - 1 ELSE i
<1>3. \A i \in Bufs : from(i) \in Bufs /\ lru'[i] = lru[from(i)]
  BY <1>1, <1>2, BioAssumption DEF Bufs
<1>4. \A i, j \in Bufs : from(i) = from(j) => i = j
  BY <1>1, BioAssumption DEF Bufs
<1>5. \A j \in Bufs : \E i \in Bufs : from(i) = j
  <2> SUFFICES ASSUME NEW j \in Bufs PROVE \E i \in Bufs : from(i) = j
    OBVIOUS
  <2> USE BioAssumption DEF Bufs
  <2>1. CASE j = k
    <3>1. 1 \in Bufs /\ from(1) = j
      BY <1>1, <2>1
    <3> QED BY <3>1
  <2>2. CASE j < k
    <3>1. j + 1 \in Bufs /\ from(j + 1) = j
      BY <1>1, <2>2
    <3> QED BY <3>1
  <2>3. CASE j > k
    <3>1. from(j) = j
      BY <1>1, <2>3
    <3> QED BY <3>1
  <2> QED BY <1>1, <2>1, <2>2, <2>3
<1> HIDE DEF from
<1>6. lru' \in [Bufs -> Bufs]
  <2>1. \A i \in Bufs : lru'[i] \in Bufs
    BY <1>3
  <2>2. lru' = [i \in Bufs |-> lru'[i]]
    BY <1>2
  <2> QED BY <2>1, <2>2
<1>7. \A c \in Bufs : \E i \in Bufs : lru'[i] = c
  <2> SUFFICES ASSUME NEW c \in Bufs PROVE \E i \in Bufs : lru'[i] = c
    OBVIOUS
  <2>1. PICK j \in Bufs : lru[j] = c
    BY DEF Listed
  <2>2. PICK i \in Bufs : from(i) = j
    BY <1>5
  <2> QED BY <1>3, <2>1, <2>2
<1>8. \A i, j \in Bufs : lru'[i] = lru'[j] => i = j
  BY <1>3, <1>4 DEF Listed
<1> QED BY <1>6, <1>7, <1>8 DEF Listed

\* The queue with a new request at its end, and without its first one.
LEMMA Queued ==
    ASSUME NEW q \in Seq(Bufs), IsInjective(q), NEW b \in Bufs, b \notin Range(q)
    PROVE  /\ Append(q, b) \in Seq(Bufs) /\ IsInjective(Append(q, b))
           /\ Range(Append(q, b)) = Range(q) \cup {b}
           /\ Append(q, b) # <<>> /\ Head(Append(q, b)) = IF q = <<>> THEN b ELSE Head(q)
<1> DEFINE a == Append(q, b)
<1>1. /\ a \in Seq(Bufs) /\ Len(a) = Len(q) + 1 /\ Len(q) \in Nat
      /\ \A i \in 1 .. Len(q) : a[i] = q[i]
      /\ a[Len(q) + 1] = b
  OBVIOUS
<1>2. DOMAIN a = 1 .. Len(q) + 1 /\ DOMAIN q = 1 .. Len(q)
  BY <1>1
<1>3. \A i \in 1 .. Len(q) : q[i] \in Range(q) /\ q[i] # b
  BY <1>2 DEF Range
<1>4. IsInjective(a)
  BY <1>1, <1>2, <1>3 DEF IsInjective
<1>5. Range(a) = Range(q) \cup {b}
  BY <1>1, <1>2 DEF Range
<1>6. a # <<>> /\ Head(a) = a[1]
  BY <1>1
<1>7. a[1] = IF q = <<>> THEN b ELSE Head(q)
  BY <1>1
<1> QED BY <1>1, <1>4, <1>5, <1>6, <1>7

LEMMA Dequeued ==
    ASSUME NEW q \in Seq(Bufs), IsInjective(q), q # <<>>
    PROVE  /\ Head(q) \in Bufs /\ Tail(q) \in Seq(Bufs) /\ IsInjective(Tail(q))
           /\ Range(Tail(q)) = Range(q) \ {Head(q)} /\ Head(q) \in Range(q)
           /\ Tail(q) # <<>> => Head(Tail(q)) \in Range(q) \ {Head(q)}
<1> DEFINE t == Tail(q)
<1>1. /\ t \in Seq(Bufs) /\ Len(t) = Len(q) - 1 /\ Len(q) \in Nat /\ Len(q) > 0
      /\ \A i \in 1 .. Len(t) : t[i] = q[i + 1]
      /\ Head(q) = q[1] /\ Head(q) \in Bufs
  OBVIOUS
<1>2. DOMAIN t = 1 .. Len(q) - 1 /\ DOMAIN q = 1 .. Len(q)
  BY <1>1
<1> HIDE DEF t
<1>3. IsInjective(t)
  BY <1>1, <1>2 DEF IsInjective
<1>4. Range(t) = Range(q) \ {q[1]}
  <2>1. \A i \in 1 .. Len(q) - 1 : i + 1 \in 1 .. Len(q) /\ q[i + 1] # q[1]
    BY <1>1, <1>2 DEF IsInjective
  <2>2. \A i \in 1 .. Len(q) : i # 1 => i - 1 \in 1 .. Len(q) - 1 /\ t[i - 1] = q[i]
    BY <1>1
  <2>3. Range(t) \subseteq Range(q) \ {q[1]}
    BY <1>1, <1>2, <2>1 DEF Range
  <2>4. Range(q) \ {q[1]} \subseteq Range(t)
    BY <1>1, <1>2, <2>2 DEF Range
  <2> QED BY <2>3, <2>4
<1>5. q[1] \in Range(q)
  BY <1>1, <1>2 DEF Range
<1>6. t # <<>> => Head(t) \in Range(t)
  <2> SUFFICES ASSUME t # <<>> PROVE Head(t) \in Range(t)
    OBVIOUS
  <2>1. Len(t) > 0 /\ Head(t) = t[1]
    BY <1>1
  <2> QED BY <1>1, <1>2, <2>1 DEF Range
<1> QED BY <1>1, <1>3, <1>4, <1>5, <1>6 DEF t

\* The fields of a record after an assignment to some of them.
LEMMA Counts ==
    ASSUME NEW r \in Buffer, NEW k \in Nat
    PROVE  [r EXCEPT !.refcnt = k] \in Buffer
BY DEF Buffer

LEMMA Recycles ==
    ASSUME NEW r \in Buffer, NEW n \in Blocks
    PROVE  [[[[r EXCEPT !.blockno = n] EXCEPT !.valid = FALSE] EXCEPT !.dirty = FALSE]
              EXCEPT !.refcnt = 1] \in Buffer
BY DEF Buffer

LEMMA Completes ==
    ASSUME NEW r \in Buffer, NEW v \in Vals
    PROVE  [[[r EXCEPT !.data = v] EXCEPT !.valid = TRUE] EXCEPT !.dirty = FALSE] \in Buffer
BY DEF Buffer

LEMMA Modifies ==
    ASSUME NEW r \in Buffer, NEW v \in Vals
    PROVE  LET s == [[r EXCEPT !.data = v] EXCEPT !.dirty = TRUE]
           IN  /\ s \in Buffer
               /\ s.blockno = r.blockno /\ s.refcnt = r.refcnt /\ s.valid = r.valid
               /\ s.dirty /\ s.data = v
BY DEF Buffer

LEMMA Assigns ==
    ASSUME NEW m \in [b : 0 .. NBUF, op : {"read", "write"}], NEW k \in 0 .. NBUF,
           NEW o \in {"read", "write"}
    PROVE  /\ [m EXCEPT !.b = k] \in [b : 0 .. NBUF, op : {"read", "write"}]
           /\ [m EXCEPT !.op = o] \in [b : 0 .. NBUF, op : {"read", "write"}]
OBVIOUS

----------------------------------------------------------------------------
(* One lemma per action *)

LEMMA InitInv == Init => IInv
<1> SUFFICES ASSUME Init PROVE IInv
  OBVIOUS
<1> USE BioAssumption DEF Init, Bufs, NoCommand, Unused
<1>1. PICK v \in Vals : buf = [b \in Bufs |->
          [blockno |-> NoBlock, valid |-> FALSE, dirty |-> FALSE, refcnt |-> 0, data |-> v]]
  OBVIOUS
<1>2. drive \in Cmd
  BY <1>1 DEF Cmd
<1>3. TypeOK
  <2>1. buf \in [Bufs -> Buffer]
    BY <1>1 DEF Buffer
  <2>2. lru \in [Bufs -> Bufs]
    OBVIOUS
  <2>3. idequeue \in Seq(Bufs)
    OBVIOUS
  <2>4. mine \in [Procs -> [b : 0 .. NBUF, op : {"read", "write"}]]
    OBVIOUS
  <2>5. slock \in [Bufs -> Procs \cup {NoProc}]
    OBVIOUS
  <2> QED BY <1>2, <2>1, <2>2, <2>3, <2>4, <2>5 DEF TypeOK
<1>4. References
  <2>1. \A b \in Bufs : Users(b) = {}
    BY DEF Users
  <2> QED BY <1>1, <2>1, FS_EmptySet DEF References
<1>5. Locks /\ Flags /\ Clean
  BY <1>1 DEF Locks, Flags, FlagsOf, Clean, Holding
<1>6. Requests
  BY DEF Requests, IsInjective, Range
<1>7. Listed
  <2>1. \A b \in Bufs : NBUF + 1 - b \in Bufs /\ lru[NBUF + 1 - b] = b
    OBVIOUS
  <2>2. \A b \in Bufs : \E k \in Bufs : lru[k] = b
    BY <2>1
  <2> QED BY <2>2 DEF Listed
<1> QED BY <1>3, <1>4, <1>5, <1>6, <1>7 DEF IInv
\* A buffer that nobody counts is nobody's: no user, no holder, no request.
LEMMA NobodyUses ==
    ASSUME IInv, NEW b \in Bufs, buf[b].refcnt = 0
    PROVE  /\ \A p \in Procs : mine[p].b # b
           /\ slock[b] = NoProc /\ b \notin Range(idequeue)
<1>1. Users(b) = {}
  BY UsersCounted, FS_EmptySet DEF IInv, References
<1>2. \A p \in Procs : mine[p].b # b
  BY <1>1 DEF Users
<1>3. slock[b] = NoProc
  BY <1>2 DEF IInv, Locks, TypeOK
<1> QED BY <1>2, <1>3 DEF IInv, Requests

\* Who uses a buffer.
LEMMA Using ==
    ASSUME IInv, NEW p \in Procs, pc[p] \notin {"idle", "panic"}
    PROVE  mine[p].b \in Bufs
BY DEF IInv, TypeOK, References, Bufs

\* What keeps the flags of a buffer in step with its holder.
LEMMA FlagsKept ==
    ASSUME IInv, NEW q \in Procs, pc'[q] = pc[q], mine'[q] = mine[q],
           pc[q] \in Holding => /\ buf'[mine[q].b].valid = buf[mine[q].b].valid
                                /\ buf'[mine[q].b].dirty = buf[mine[q].b].dirty
    PROVE  FlagsOf(q)'
BY DEF IInv, Flags, FlagsOf, Holding

\* bget gives the process a buffer.
LEMMA Taken ==
    ASSUME IInv, NEW p \in Procs, NEW b \in Bufs, pc[p] = "idle",
           mine' = [mine EXCEPT ![p].b = b]
    PROVE  /\ mine'[p].b = b /\ mine'[p].op = "read"
           /\ \A q \in Procs \ {p} : mine'[q] = mine[q]
           /\ mine' \in [Procs -> [b : 0 .. NBUF, op : {"read", "write"}]]
           /\ Cardinality(Users(b)') = Cardinality(Users(b)) + 1
           /\ \A c \in Bufs \ {b} : Users(c)' = Users(c)
<1> USE DEF IInv
<1>1. /\ mine'[p].b = b /\ mine'[p].op = "read" /\ mine[p].b = 0
      /\ \A q \in Procs \ {p} : mine'[q] = mine[q]
  BY DEF TypeOK, References, Flags, FlagsOf
<1>2. b # 0 /\ \A c \in Bufs : c # 0
  BY BioAssumption DEF Bufs
<1>3. mine' \in [Procs -> [b : 0 .. NBUF, op : {"read", "write"}]]
  <2>1. [mine[p] EXCEPT !.b = b] \in [b : 0 .. NBUF, op : {"read", "write"}]
    <3>1. mine[p] \in [b : 0 .. NBUF, op : {"read", "write"}] /\ b \in 0 .. NBUF
      BY BioAssumption DEF TypeOK, Bufs
    <3> QED BY <3>1, Assigns
  <2> QED BY <2>1 DEF TypeOK
<1>4. Users(b)' = Users(b) \cup {p} /\ p \notin Users(b)
  BY <1>1, <1>2 DEF Users
<1>5. \A c \in Bufs \ {b} : Users(c)' = Users(c)
  BY <1>1, <1>2 DEF Users
<1>6. Cardinality(Users(b)') = Cardinality(Users(b)) + 1
  BY <1>4, UsersCounted, FS_AddElement
<1> QED BY <1>1, <1>3, <1>5, <1>6

\* bget finds the block.
LEMMA BgetHitStep ==
    ASSUME IInv, NEW p \in Procs, NEW n \in Blocks, NEW b \in Cached(n), pc[p] = "idle",
           Hit(p, b), UNCHANGED <<lru, slock, idequeue, disk, drive>>
    PROVE  IInv'
<1> USE DEF IInv
<1>1. b \in Bufs /\ buf[b].blockno = n /\ n # NoBlock
  BY BioAssumption DEF Cached
<1>2. \A c \in Bufs :
         /\ buf'[c].blockno = buf[c].blockno /\ buf'[c].valid = buf[c].valid
         /\ buf'[c].dirty = buf[c].dirty /\ buf'[c].data = buf[c].data
         /\ c # b => buf'[c].refcnt = buf[c].refcnt
  BY <1>1 DEF TypeOK, Buffer, Hit
<1>3. buf'[b].refcnt = buf[b].refcnt + 1 /\ buf' \in [Bufs -> Buffer]
  <2>1. [buf[b] EXCEPT !.refcnt = @ + 1] \in Buffer
    <3>1. buf[b] \in Buffer /\ buf[b].refcnt + 1 \in Nat
      BY <1>1 DEF TypeOK, Buffer
    <3> QED BY <3>1, Counts
  <2>2. buf' = [buf EXCEPT ![b] = [buf[b] EXCEPT !.refcnt = @ + 1]]
    BY DEF Hit
  <2>3. buf'[b].refcnt = buf[b].refcnt + 1
    BY <1>1, <2>2 DEF TypeOK, Buffer
  <2> QED BY <1>1, <2>1, <2>2, <2>3 DEF TypeOK
<1>4. /\ mine'[p].b = b /\ mine'[p].op = "read"
      /\ \A q \in Procs \ {p} : mine'[q] = mine[q]
      /\ mine' \in [Procs -> [b : 0 .. NBUF, op : {"read", "write"}]]
      /\ Cardinality(Users(b)') = Cardinality(Users(b)) + 1
      /\ \A c \in Bufs \ {b} : Users(c)' = Users(c)
  BY <1>1, Taken DEF Hit
<1>5. /\ pc' = [pc EXCEPT ![p] = "lock"] /\ pc'[p] = "lock"
      /\ \A q \in Procs \ {p} : pc'[q] = pc[q]
  BY DEF TypeOK, Hit
<1>6. TypeOK'
  BY <1>3, <1>4, <1>5 DEF TypeOK
<1>7. References'
  <2>1. \A c \in Bufs : buf'[c].refcnt = Cardinality(Users(c)')
    BY <1>2, <1>3, <1>4, UsersCounted DEF References
  <2>2. \A q \in Procs : mine'[q].b = 0 <=> pc'[q] \in {"idle", "panic"}
    BY <1>1, <1>4, <1>5, BioAssumption DEF References, Bufs
  <2>3. \A q \in Procs : mine'[q].b # 0 => buf'[mine'[q].b].blockno # NoBlock
    <3>1. \A q \in Procs \ {p} : mine[q].b # 0 => mine[q].b \in Bufs
      BY DEF TypeOK, Bufs
    <3> QED BY <1>1, <1>2, <1>4, <3>1 DEF References
  <2> QED BY <1>2, <2>1, <2>2, <2>3 DEF References
<1>8. \A c \in Bufs : slock[c] # NoProc => slock[c] \in Procs \ {p}
  <2>1. pc[p] \notin Holding
    BY DEF Holding
  <2> QED BY <2>1 DEF Locks, TypeOK
<1>9. Locks'
  BY <1>4, <1>5, <1>8 DEF Locks, TypeOK, Holding
<1>10. Flags'
  <2>1. \A q \in Procs \ {p} : FlagsOf(q)'
    <3>1. \A q \in Procs : pc[q] \in Holding => mine[q].b \in Bufs
      BY Using DEF Holding
    <3> QED BY <1>2, <1>4, <1>5, <3>1, FlagsKept
  <2>2. FlagsOf(p)'
    BY <1>4, <1>5 DEF FlagsOf
  <2> QED BY <1>2, <2>1, <2>2 DEF Flags
<1>11. Requests' /\ Clean' /\ Listed'
  <2>1. idequeue # <<>> => Head(idequeue) \in Bufs
    BY DEF TypeOK
  <2>2. Requests'
    BY <1>2, <1>5, <1>8, <2>1 DEF Requests
  <2> QED BY <1>2, <2>2 DEF Clean, Listed
<1> QED BY <1>6, <1>7, <1>9, <1>10, <1>11
\* bget recycles a buffer that nobody has or waits for, and whose content is on
\* the disk.
LEMMA BgetMissStep ==
    ASSUME IInv, NEW p \in Procs, NEW n \in Blocks, NEW b \in Bufs, pc[p] = "idle",
           Cached(n) = {}, Idle(b), Recycle(p, n, b),
           UNCHANGED <<lru, slock, idequeue, disk, drive>>
    PROVE  IInv'
<1> USE DEF IInv
<1>1. /\ \A q \in Procs : mine[q].b # b
      /\ slock[b] = NoProc /\ b \notin Range(idequeue)
  BY NobodyUses DEF Idle
<1>2. /\ \A c \in Bufs \ {b} : buf'[c] = buf[c]
      /\ buf'[b].blockno = n /\ ~buf'[b].valid /\ ~buf'[b].dirty /\ buf'[b].refcnt = 1
  BY DEF TypeOK, Buffer, Recycle
<1>3. buf' \in [Bufs -> Buffer]
  <2>1. buf[b] \in Buffer
    BY DEF TypeOK
  <2> DEFINE r == [[[[buf[b] EXCEPT !.blockno = n] EXCEPT !.valid = FALSE] EXCEPT !.dirty = FALSE]
                      EXCEPT !.refcnt = 1]
  <2>2. r \in Buffer
    BY <2>1, Recycles
  <2>3. buf' = [buf EXCEPT ![b] = r]
    BY DEF TypeOK, Recycle
  <2> QED BY <2>2, <2>3 DEF TypeOK
<1>4. /\ mine'[p].b = b /\ mine'[p].op = "read"
      /\ \A q \in Procs \ {p} : mine'[q] = mine[q]
      /\ mine' \in [Procs -> [b : 0 .. NBUF, op : {"read", "write"}]]
      /\ Cardinality(Users(b)') = Cardinality(Users(b)) + 1
      /\ \A c \in Bufs \ {b} : Users(c)' = Users(c)
  BY Taken DEF Recycle
<1>5. /\ pc' = [pc EXCEPT ![p] = "lock"] /\ pc'[p] = "lock"
      /\ \A q \in Procs \ {p} : pc'[q] = pc[q]
  BY DEF TypeOK, Recycle
<1>6. TypeOK'
  BY <1>3, <1>4, <1>5 DEF TypeOK
<1>7. References'
  <2>1. \A c \in Bufs : buf'[c].refcnt = Cardinality(Users(c)')
    BY <1>2, <1>4, UsersCounted DEF References, Idle
  <2>2. \A q \in Procs : mine'[q].b = 0 <=> pc'[q] \in {"idle", "panic"}
    BY <1>4, <1>5, BioAssumption DEF References, Bufs
  <2>3. \A q \in Procs : mine'[q].b # 0 => buf'[mine'[q].b].blockno # NoBlock
    <3>1. \A q \in Procs \ {p} : mine[q].b # 0 => mine[q].b \in Bufs \ {b}
      BY <1>1 DEF TypeOK, Bufs
    <3> QED BY <1>2, <1>4, <3>1, BioAssumption DEF References
  <2>4. \A c \in Bufs \ {b} : buf'[c].blockno # n
    BY <1>2 DEF Cached
  <2>5. \A c, d \in Bufs : c # d /\ buf'[c].blockno = buf'[d].blockno => buf'[c].blockno = NoBlock
    BY <1>2, <2>4 DEF References
  <2> QED BY <2>1, <2>2, <2>3, <2>5 DEF References
<1>8. \A c \in Bufs : slock[c] # NoProc => slock[c] \in Procs \ {p}
  <2>1. pc[p] \notin Holding
    BY DEF Holding
  <2> QED BY <2>1 DEF Locks, TypeOK
<1>9. Locks'
  BY <1>4, <1>5, <1>8 DEF Locks, TypeOK, Holding
<1>10. Flags'
  <2>1. \A c \in Bufs : buf'[c].dirty => buf'[c].valid
    BY <1>2 DEF Flags
  <2>2. \A c \in Bufs : buf'[c].valid => buf'[c].blockno # NoBlock
    BY <1>2 DEF Flags
  <2>3. \A q \in Procs \ {p} : FlagsOf(q)'
    <3>1. \A q \in Procs : pc[q] \in Holding => mine[q].b \in Bufs \ {b}
      BY <1>1, Using DEF Holding
    <3> QED BY <1>2, <1>4, <1>5, <3>1, FlagsKept
  <2>4. FlagsOf(p)'
    BY <1>4, <1>5 DEF FlagsOf
  <2> QED BY <2>1, <2>2, <2>3, <2>4 DEF Flags
<1>11. Requests'
  <2>1. idequeue # <<>> => Head(idequeue) \in Range(idequeue) /\ Head(idequeue) \in Bufs
    BY Dequeued DEF TypeOK, Requests
  <2>2. idequeue # <<>> => buf'[Head(idequeue)] = buf[Head(idequeue)]
    BY <1>1, <1>2, <2>1
  <2> QED BY <1>5, <1>8, <2>2 DEF Requests
<1>12. Clean' /\ Listed'
  BY <1>2 DEF Clean, Listed
<1> QED BY <1>6, <1>7, <1>9, <1>10, <1>11, <1>12

\* bget finds no buffer: the panic changes nothing else.
LEMMA BgetPanicStep ==
    ASSUME IInv, NEW p \in Procs, pc[p] = "idle", NoBuffers(p),
           UNCHANGED <<lru, slock, idequeue, disk, drive>>
    PROVE  IInv'
<1> USE DEF IInv, NoBuffers
<1>1. pc'[p] = "panic" /\ \A q \in Procs \ {p} : pc'[q] = pc[q]
  BY DEF TypeOK
<1>2. TypeOK' /\ Clean' /\ Listed'
  BY DEF TypeOK, Clean, Listed
<1>3. References'
  BY <1>1 DEF References, Users
<1>4. \A c \in Bufs : slock[c] # NoProc => slock[c] \in Procs \ {p}
  <2>1. pc[p] \notin Holding
    BY DEF Holding
  <2> QED BY <2>1 DEF Locks, TypeOK
<1>5. Locks'
  BY <1>1, <1>4 DEF Locks, Holding
<1>6. Flags'
  BY <1>1 DEF Flags, FlagsOf
<1>7. Requests'
  BY <1>1, <1>4 DEF Requests
<1> QED BY <1>2, <1>3, <1>5, <1>6, <1>7

\* acquiresleep: a process sleeps while another holds the lock, or takes it.
LEMMA AcquireSleepStep ==
    ASSUME IInv, NEW p \in Procs, AcquireSleep(p)
    PROVE  IInv'
<1> USE DEF IInv, AcquireSleep
<1> DEFINE b == mine[p].b
<1>1. b \in Bufs
  BY DEF TypeOK, Bufs, References
<1> HIDE DEF b
<1>2. \A q \in Procs \ {p} : pc'[q] = pc[q]
  BY DEF TypeOK
<1>3. Clean' /\ Listed'
  BY DEF Clean, Listed
<1>4. \A c \in Bufs : slock[c] # NoProc => slock[c] \in Procs \ {p}
  <2>1. pc[p] \notin Holding
    BY DEF Holding
  <2> QED BY <2>1 DEF Locks, TypeOK
<1>5. CASE slock[b] # NoProc
  <2>1. slock' = slock /\ pc' = [pc EXCEPT ![p] = "locksleep"] /\ pc'[p] = "locksleep"
    BY <1>5 DEF b, TypeOK
  <2>2. TypeOK'
    BY <2>1 DEF TypeOK
  <2>3. References' /\ Flags'
    BY <1>2, <2>1 DEF References, Flags, FlagsOf, Users
  <2>4. Locks'
    BY <1>2, <1>4, <1>5, <2>1 DEF Locks, Holding, b
  <2>5. Requests'
    BY <1>2, <1>4, <2>1 DEF Requests
  <2> QED BY <1>3, <2>2, <2>3, <2>4, <2>5
<1>6. CASE slock[b] = NoProc
  <2>1. slock' = [slock EXCEPT ![b] = p] /\ pc' = [pc EXCEPT ![p] = Bread(b)]
    BY <1>6 DEF b
  <2>2. /\ pc'[p] = Bread(b) /\ Bread(b) \in {"have", "rw"}
        /\ slock'[b] = p /\ \A c \in Bufs \ {b} : slock'[c] = slock[c]
    BY <1>1, <2>1 DEF TypeOK, Bread
  <2>3. TypeOK'
    BY <1>1, <2>1, <2>2 DEF TypeOK
  <2>4. References'
    BY <1>2, <2>2 DEF References, Users
  <2>5. Flags'
    <3>1. /\ pc'[p] = "have" => buf[b].valid
          /\ pc'[p] = "rw" => ~buf[b].valid
          /\ mine[p].op = "read"
      BY <2>2 DEF Bread, Flags, FlagsOf
    <3> QED BY <1>2, <2>2, <3>1 DEF Flags, FlagsOf, b
  <2>u. \A q \in Procs : pc[q] \notin {"idle", "panic"} => mine[q].b \in Bufs
    BY DEF References, TypeOK, Bufs
  <2>6. p # NoProc /\ \A q \in Procs \ {p} : pc[q] \in Holding => mine[q].b \in Bufs \ {b}
    <3>1. \A q \in Procs : pc[q] \in Holding => pc[q] \notin {"idle", "panic"}
      BY DEF Holding
    <3>2. \A q \in Procs : pc[q] \in Holding => mine[q].b # b
      BY <1>6, BioAssumption DEF Locks
    <3> QED BY <2>u, <3>1, <3>2, BioAssumption
  <2>7. \A q \in Procs \ {p} : pc[q] = "locksleep" => mine[q].b \in Bufs \ {b}
    BY <1>6, <2>u DEF Locks
  <2>8. Locks'
    <3>1. \A q \in Procs : pc'[q] \in Holding => slock'[mine[q].b] = q
      BY <1>2, <2>2, <2>6 DEF Locks, b
    <3>2. \A c \in Bufs : slock'[c] # NoProc => mine[slock'[c]].b = c /\ pc'[slock'[c]] \in Holding
      BY <1>2, <1>4, <2>2 DEF Locks, b, Holding
    <3>3. \A q \in Procs : pc'[q] = "locksleep" => slock'[mine[q].b] # NoProc
      BY <1>2, <2>2, <2>7 DEF Locks
    <3> QED BY <3>1, <3>2, <3>3 DEF Locks
  <2>9. Requests'
    <3>1. \A c \in Bufs : (slock[c] # NoProc /\ pc[slock[c]] = "iosleep")
                           <=> (slock'[c] # NoProc /\ pc'[slock'[c]] = "iosleep")
      BY <1>2, <1>4, <1>6, <2>2
    <3> QED BY <3>1 DEF Requests
  <2> QED BY <1>3, <2>3, <2>4, <2>5, <2>8, <2>9
<1> QED BY <1>5, <1>6
\* iderw queues a buffer that is not queued: its holder was not asleep.
LEMMA IderwStep ==
    ASSUME IInv, NEW p \in Procs, Iderw(p)
    PROVE  IInv'
<1> USE DEF IInv
<1> DEFINE b == mine[p].b
<1>1. b \in Bufs /\ slock[b] = p /\ p # NoProc
  BY Using, BioAssumption DEF Iderw, Locks, Holding
<1>2. /\ idequeue' = Append(idequeue, b)
      /\ drive' = IF idequeue = <<>> THEN Command(b) ELSE drive
      /\ UNCHANGED <<buf, lru, slock, disk, mine>>
  BY DEF Iderw
<1>3. /\ pc' = [pc EXCEPT ![p] = "iosleep"] /\ pc'[p] = "iosleep" /\ pc[p] = "rw"
      /\ \A q \in Procs \ {p} : pc'[q] = pc[q]
  BY DEF Iderw, TypeOK
<1> HIDE DEF b
<1>4. b \notin Range(idequeue)
  BY <1>1, <1>3 DEF Requests
<1>5. /\ idequeue' \in Seq(Bufs) /\ IsInjective(idequeue')
      /\ Range(idequeue') = Range(idequeue) \cup {b}
      /\ idequeue' # <<>> /\ Head(idequeue') = IF idequeue = <<>> THEN b ELSE Head(idequeue)
  BY <1>1, <1>2, <1>4, Queued DEF Requests, TypeOK
<1>6. /\ Command(b) \in Cmd
      /\ Command(b).op = IF buf[b].dirty THEN "write" ELSE "read"
      /\ Command(b).blockno = buf[b].blockno /\ Command(b).data = buf[b].data
      /\ Command(b).done = FALSE
  BY <1>1 DEF Command, Cmd, TypeOK, Buffer
<1>7. TypeOK'
  BY <1>2, <1>3, <1>5, <1>6 DEF TypeOK
<1>8. References' /\ Clean' /\ Listed'
  BY <1>2, <1>3 DEF References, Users, Clean, Listed
<1>9. Locks'
  BY <1>2, <1>3 DEF Locks, Holding
<1>10. Flags'
  BY <1>2, <1>3 DEF Flags, FlagsOf
<1>11. Requests'
  <2>1. \A c \in Bufs : c \in Range(idequeue') <=> slock[c] # NoProc /\ pc'[slock[c]] = "iosleep"
    <3>1. \A c \in Bufs \ {b} : slock[c] # NoProc => slock[c] \in Procs \ {p}
      BY DEF Locks, TypeOK, b
    <3> QED BY <1>1, <1>3, <1>5, <3>1 DEF Requests
  <2>2. CASE idequeue = <<>>
    <3>1. drive' = Command(b) /\ Head(idequeue') = b
      BY <1>2, <1>5, <2>2
    <3> QED BY <1>2, <1>5, <1>6, <2>1, <3>1 DEF Requests
  <2>3. CASE idequeue # <<>>
    <3>1. drive' = drive /\ Head(idequeue') = Head(idequeue)
      BY <1>2, <1>5, <2>3
    <3> QED BY <1>2, <1>5, <2>1, <2>3, <3>1 DEF Requests
  <2> QED BY <2>2, <2>3
<1> QED BY <1>7, <1>8, <1>9, <1>10, <1>11

\* A write of the drive changes the block of the buffer that waits for it.
LEMMA DriveStep ==
    ASSUME IInv, Drive
    PROVE  IInv'
<1> USE DEF IInv
<1>1. /\ idequeue # <<>> /\ drive.op # "none" /\ ~drive.done
      /\ drive.blockno = buf[Head(idequeue)].blockno
      /\ Head(idequeue) \in Bufs
  BY DEF Drive, Requests, TypeOK
<1>2. /\ drive' \in Cmd /\ drive'.op = drive.op /\ drive'.blockno = drive.blockno
      /\ drive'.data = drive.data /\ drive'.done
  BY DEF Drive, TypeOK, Cmd
<1>3. UNCHANGED <<buf, lru, slock, idequeue, pc, mine>>
  BY DEF Drive
<1>4. References' /\ Locks' /\ Flags' /\ Listed'
  BY <1>3 DEF References, Users, Locks, Flags, FlagsOf, Listed
<1>5. CASE drive.op = "write"
  <2>1. /\ disk' = [disk EXCEPT ![drive.blockno] = drive.data]
        /\ drive.data = buf[Head(idequeue)].data /\ buf[Head(idequeue)].dirty
    BY <1>1, <1>5 DEF Drive, Requests
  <2>2. drive.blockno \in Blocks
    BY <1>1, <2>1 DEF Flags, TypeOK, Buffer
  <2>3. /\ disk' \in [Blocks -> Vals] /\ disk'[drive.blockno] = drive.data
        /\ \A n \in Blocks \ {drive.blockno} : disk'[n] = disk[n]
    BY <2>1, <2>2 DEF TypeOK, Cmd
  <2>4. TypeOK'
    BY <1>2, <1>3, <2>3 DEF TypeOK
  <2>5. Requests'
    BY <1>1, <1>2, <1>3, <2>3 DEF Requests
  <2>6. Clean'
    <3> SUFFICES ASSUME NEW c \in Bufs, buf[c].valid, ~buf[c].dirty
                 PROVE  buf[c].data = disk'[buf[c].blockno]
      BY <1>3 DEF Clean
    <3>1. buf[c].blockno \in Blocks /\ c # Head(idequeue)
      BY <2>1 DEF Flags, TypeOK, Buffer
    <3>2. buf[c].blockno # drive.blockno
      BY <1>1, <2>2, <3>1, BioAssumption DEF References
    <3> QED BY <2>3, <3>1, <3>2 DEF Clean
  <2> QED BY <1>4, <2>4, <2>5, <2>6
<1>6. CASE drive.op # "write"
  <2>1. disk' = disk
    BY <1>6 DEF Drive
  <2>2. TypeOK' /\ Clean'
    BY <1>2, <1>3, <2>1 DEF TypeOK, Clean
  <2>3. Requests'
    BY <1>1, <1>2, <1>3, <1>6, <2>1 DEF Requests
  <2> QED BY <1>4, <2>2, <2>3
<1> QED BY <1>5, <1>6

\* The interrupt completes the first request and wakes who waits for it.
LEMMA IdeIntrStep ==
    ASSUME IInv, IdeIntr
    PROVE  IInv'
<1> USE DEF IInv
<1> DEFINE b == Head(idequeue)  t == Tail(idequeue)
<1>1. idequeue # <<>> /\ drive.done
  BY DEF IdeIntr
<1>2. /\ b \in Bufs /\ t \in Seq(Bufs) /\ IsInjective(t)
      /\ Range(t) = Range(idequeue) \ {b} /\ b \in Range(idequeue)
      /\ t # <<>> => Head(t) \in Range(idequeue) \ {b}
  BY <1>1, Dequeued DEF TypeOK, Requests
<1>3. /\ idequeue' = t /\ drive' = NextCommand(t)
      /\ UNCHANGED <<lru, slock, disk, mine>>
      /\ pc' = Woken("iosleep", b, "iotest")
      /\ buf' = [buf EXCEPT ![b].data = IF buf[b].dirty THEN @ ELSE disk[drive.blockno],
                            ![b].valid = TRUE, ![b].dirty = FALSE]
  BY DEF IdeIntr
<1> HIDE DEF b, t
<1>u. UNCHANGED <<lru, slock, disk, mine>>
  BY <1>3
<1>4. PICK p \in Procs : slock[b] = p /\ pc[p] = "iosleep" /\ mine[p].b = b
  BY <1>2 DEF Requests, Locks, TypeOK
<1>5. buf[b].blockno \in Blocks /\ buf[b].blockno # NoBlock /\ drive.blockno = buf[b].blockno
  <2>1. mine[p].b # 0
    BY <1>2, <1>4, BioAssumption DEF Bufs
  <2> QED BY <1>1, <1>2, <1>4, <2>1 DEF References, TypeOK, Buffer, Requests, b
<1>6. /\ buf'[b].valid /\ ~buf'[b].dirty /\ buf'[b].blockno = buf[b].blockno
      /\ buf'[b].refcnt = buf[b].refcnt /\ buf'[b] \in Buffer
      /\ buf'[b].data = IF buf[b].dirty THEN buf[b].data ELSE disk[drive.blockno]
      /\ \A c \in Bufs \ {b} : buf'[c] = buf[c]
      /\ buf' \in [Bufs -> Buffer]
  <2> DEFINE d == IF buf[b].dirty THEN buf[b].data ELSE disk[drive.blockno]
  <2>1. buf[b] \in Buffer /\ d \in Vals
    BY <1>2, <1>5 DEF TypeOK, Buffer
  <2> HIDE DEF d
  <2>2. [[[buf[b] EXCEPT !.data = d] EXCEPT !.valid = TRUE] EXCEPT !.dirty = FALSE] \in Buffer
    BY <2>1, Completes
  <2>3. buf' = [buf EXCEPT ![b] = [[[buf[b] EXCEPT !.data = d] EXCEPT !.valid = TRUE] EXCEPT !.dirty = FALSE]]
    BY <1>2, <1>3 DEF d, TypeOK
  <2>4. buf' \in [Bufs -> Buffer] /\ \A c \in Bufs \ {b} : buf'[c] = buf[c]
    BY <1>2, <2>2, <2>3 DEF TypeOK
  <2>5. /\ buf'[b].valid /\ ~buf'[b].dirty /\ buf'[b].blockno = buf[b].blockno
        /\ buf'[b].refcnt = buf[b].refcnt /\ buf'[b].data = d
    BY <1>2, <2>1, <2>3 DEF TypeOK, Buffer
  <2> QED BY <1>2, <2>4, <2>5 DEF d
<1>7. \A q \in Procs : IF q = p THEN pc'[q] = "iotest" ELSE pc'[q] = pc[q]
  <2>1. \A q \in Procs : pc[q] = "iosleep" /\ mine[q].b = b => q = p
    BY <1>4 DEF Locks, Holding
  <2> QED BY <1>3, <1>4, <2>1 DEF Woken
<1>8. /\ drive' \in Cmd /\ drive'.done = FALSE
      /\ t = <<>> => drive'.op = "none"
      /\ t # <<>> => /\ drive'.op = IF buf[Head(t)].dirty THEN "write" ELSE "read"
                     /\ drive'.blockno = buf[Head(t)].blockno
                     /\ drive'.data = buf[Head(t)].data
  <2>1. CASE t = <<>>
    <3>1. drive' = NoCommand
      BY <1>3, <2>1 DEF NextCommand
    <3>2. (CHOOSE v \in Vals : TRUE) \in Vals
      BY <1>6 DEF Buffer
    <3> QED BY <2>1, <3>1, <3>2 DEF NoCommand, Cmd
  <2>2. CASE t # <<>>
    <3>1. Head(t) \in Bufs /\ buf[Head(t)] \in Buffer
      BY <1>2, <2>2 DEF TypeOK
    <3>2. drive' = Command(Head(t))
      BY <1>3, <2>2 DEF NextCommand
    <3> QED BY <2>2, <3>1, <3>2 DEF Command, Cmd, Buffer
  <2> QED BY <2>1, <2>2
<1>9. TypeOK'
  <2>1. pc' \in [Procs -> {"idle", "panic", "lock", "locksleep", "rw", "iosleep", "iotest",
                         "have", "drop"}]
    BY <1>3 DEF Woken, TypeOK
  <2> QED BY <1>2, <1>3, <1>6, <1>8, <2>1 DEF TypeOK
<1>10. References'
  <2>1. \A c \in Bufs : buf'[c].blockno = buf[c].blockno /\ buf'[c].refcnt = buf[c].refcnt
    BY <1>6
  <2>2. \A q \in Procs : pc'[q] \in {"idle", "panic"} <=> pc[q] \in {"idle", "panic"}
    BY <1>4, <1>7
  <2>3. \A q \in Procs : mine[q].b # 0 => mine[q].b \in Bufs
    BY DEF TypeOK, Bufs
  <2>4. mine' = mine /\ \A c \in Bufs : Users(c)' = Users(c)
    BY <1>u DEF Users
  <2> QED BY <2>1, <2>2, <2>3, <2>4 DEF References
<1>11. Locks'
  <2>1. \A q \in Procs : /\ pc'[q] \in Holding <=> pc[q] \in Holding
                         /\ pc'[q] = "locksleep" <=> pc[q] = "locksleep"
    BY <1>4, <1>7 DEF Holding
  <2>2. \A c \in Bufs : slock[c] # NoProc => slock[c] \in Procs
    BY DEF TypeOK
  <2> QED BY <1>u, <2>1, <2>2 DEF Locks
<1>12. Flags'
  <2>1. \A q \in Procs : q # p => FlagsOf(q)'
    <3>1. \A q \in Procs : q # p /\ pc[q] \in Holding => mine[q].b \in Bufs \ {b}
      BY <1>4, Using DEF Locks, Holding
    <3> QED BY <1>u, <1>6, <1>7, <3>1, FlagsKept
  <2>2. FlagsOf(p)'
    BY <1>u, <1>4, <1>6, <1>7 DEF FlagsOf
  <2>3. /\ \A c \in Bufs : buf'[c].dirty => buf'[c].valid
        /\ \A c \in Bufs : buf'[c].valid => buf'[c].blockno # NoBlock
    BY <1>5, <1>6 DEF Flags
  <2> QED BY <2>1, <2>2, <2>3 DEF Flags
<1>13. Requests'
  <2>1. \A c \in Bufs : c \in Range(t) <=> slock[c] # NoProc /\ pc'[slock[c]] = "iosleep"
    <3>1. \A c \in Bufs \ {b} : slock[c] # NoProc => slock[c] \in Procs /\ slock[c] # p
      BY <1>4 DEF Locks, TypeOK
    <3> QED BY <1>2, <1>4, <1>7, <3>1 DEF Requests
  <2>2. t # <<>> => Head(t) \in Bufs /\ buf'[Head(t)] = buf[Head(t)]
    BY <1>2, <1>6
  <2> QED BY <1>2, <1>3, <1>8, <2>1, <2>2 DEF Requests
<1>14. Clean'
  <2>1. buf'[b].data = disk[buf[b].blockno]
    BY <1>1, <1>5, <1>6 DEF Requests, b
  <2> QED BY <1>3, <1>6, <2>1 DEF Clean
<1> QED BY <1>3, <1>9, <1>10, <1>11, <1>12, <1>13, <1>14 DEF Listed
\* iderw returns: the flags are as the interrupt left them.
LEMMA IoTestStep ==
    ASSUME IInv, NEW p \in Procs, IoTest(p)
    PROVE  IInv' /\ pc' = [pc EXCEPT ![p] = "have"]
<1> USE DEF IInv
<1>1. buf[mine[p].b].valid /\ ~buf[mine[p].b].dirty /\ pc[p] = "iotest"
  BY DEF IoTest, Flags, FlagsOf
<1>2. /\ pc' = [pc EXCEPT ![p] = "have"] /\ mine' = [mine EXCEPT ![p].op = "read"]
      /\ UNCHANGED <<buf, lru, slock, idequeue, disk, drive>>
  BY <1>1 DEF IoTest
<1>3. pc'[p] = "have" /\ \A q \in Procs \ {p} : pc'[q] = pc[q]
  BY <1>2 DEF TypeOK
<1>4. /\ \A q \in Procs \ {p} : mine'[q] = mine[q]
      /\ \A q \in Procs : mine'[q].b = mine[q].b
      /\ mine'[p].op = "read"
  BY <1>2 DEF TypeOK
<1>5. TypeOK'
  <2>1. [mine[p] EXCEPT !.op = "read"] \in [b : 0 .. NBUF, op : {"read", "write"}]
    <3>1. mine[p] \in [b : 0 .. NBUF, op : {"read", "write"}]
      BY DEF TypeOK
    <3> QED BY <3>1
  <2>2. mine' \in [Procs -> [b : 0 .. NBUF, op : {"read", "write"}]]
    BY <1>2, <2>1 DEF TypeOK
  <2> QED BY <1>2, <2>2 DEF TypeOK
<1>6. References' /\ Clean' /\ Listed'
  <2>1. \A c \in Bufs : Users(c)' = Users(c)
    BY <1>4 DEF Users
  <2> QED BY <1>1, <1>2, <1>3, <1>4, <2>1 DEF References, Clean, Listed
<1>7. \A q \in Procs : /\ pc'[q] \in Holding <=> pc[q] \in Holding
                       /\ pc'[q] = "locksleep" <=> pc[q] = "locksleep"
                       /\ pc'[q] = "iosleep" <=> pc[q] = "iosleep"
  BY <1>1, <1>3 DEF Holding
<1>8. \A c \in Bufs : slock[c] # NoProc => slock[c] \in Procs
  BY DEF TypeOK
<1>9. Locks' /\ Requests'
  BY <1>2, <1>4, <1>7, <1>8 DEF Locks, Requests
<1>10. Flags'
  <2>1. \A q \in Procs \ {p} : FlagsOf(q)'
    BY <1>2, <1>3, <1>4, FlagsKept
  <2>2. FlagsOf(p)'
    BY <1>1, <1>2, <1>3, <1>4 DEF FlagsOf
  <2> QED BY <1>2, <2>1, <2>2 DEF Flags
<1> QED BY <1>2, <1>5, <1>6, <1>9, <1>10

\* The holder changes the content: bwrite and log_write.
LEMMA Changed ==
    ASSUME IInv, NEW p \in Procs, NEW v \in Vals, pc[p] = "have",
           buf' = Dirtied(mine[p].b, v)
    PROVE  /\ mine[p].b \in Bufs /\ slock[mine[p].b] = p /\ buf[mine[p].b].valid
           /\ buf' \in [Bufs -> Buffer]
           /\ \A c \in Bufs : /\ buf'[c].blockno = buf[c].blockno
                              /\ buf'[c].refcnt = buf[c].refcnt
                              /\ buf'[c].valid = buf[c].valid
           /\ buf'[mine[p].b].dirty /\ buf'[mine[p].b].data = v
           /\ \A c \in Bufs \ {mine[p].b} : buf'[c] = buf[c]
           /\ mine[p].b \notin Range(idequeue)
<1> USE DEF IInv
<1> DEFINE b == mine[p].b
<1>1. b \in Bufs /\ slock[b] = p /\ buf[b].valid
  BY Using DEF Locks, Holding, Flags, FlagsOf
<1>2. b \notin Range(idequeue)
  BY <1>1 DEF Requests
<1> HIDE DEF b
<1>3. buf[b] \in Buffer
  BY <1>1 DEF TypeOK
<1>4. buf' = [buf EXCEPT ![b] = [[buf[b] EXCEPT !.data = v] EXCEPT !.dirty = TRUE]]
  BY <1>1 DEF TypeOK, Dirtied, b
<1>5. [[buf[b] EXCEPT !.data = v] EXCEPT !.dirty = TRUE] \in Buffer
  BY <1>3, Modifies
<1>6. buf' \in [Bufs -> Buffer] /\ \A c \in Bufs \ {b} : buf'[c] = buf[c]
  BY <1>1, <1>4, <1>5 DEF TypeOK
<1>7. /\ buf'[b].blockno = buf[b].blockno /\ buf'[b].refcnt = buf[b].refcnt
      /\ buf'[b].valid = buf[b].valid /\ buf'[b].dirty /\ buf'[b].data = v
  <2>1. buf'[b] = [[buf[b] EXCEPT !.data = v] EXCEPT !.dirty = TRUE]
    BY <1>1, <1>4 DEF TypeOK
  <2>2. LET s == [[buf[b] EXCEPT !.data = v] EXCEPT !.dirty = TRUE]
        IN  /\ s.blockno = buf[b].blockno /\ s.refcnt = buf[b].refcnt /\ s.valid = buf[b].valid
            /\ s.dirty /\ s.data = v
    BY <1>3, Modifies
  <2> QED BY <2>1, <2>2
<1> QED BY <1>1, <1>2, <1>6, <1>7 DEF b

\* bwrite
LEMMA BwriteStep ==
    ASSUME IInv, NEW p \in Procs, NEW v \in Vals, Bwrite(p, v)
    PROVE  IInv'
<1> USE DEF IInv
<1> DEFINE b == mine[p].b
<1>1. /\ b \in Bufs /\ slock[b] = p /\ buf[b].valid
      /\ buf' \in [Bufs -> Buffer]
      /\ \A c \in Bufs : /\ buf'[c].blockno = buf[c].blockno
                         /\ buf'[c].refcnt = buf[c].refcnt
                         /\ buf'[c].valid = buf[c].valid
      /\ buf'[b].dirty /\ buf'[b].data = v
      /\ \A c \in Bufs \ {b} : buf'[c] = buf[c]
      /\ b \notin Range(idequeue)
  BY Changed DEF Bwrite
<1>2. /\ pc' = [pc EXCEPT ![p] = "rw"] /\ mine' = [mine EXCEPT ![p].op = "write"]
      /\ pc[p] = "have"
      /\ UNCHANGED <<lru, slock, idequeue, disk, drive>>
  BY DEF Bwrite
<1>3. pc'[p] = "rw" /\ \A q \in Procs \ {p} : pc'[q] = pc[q]
  BY <1>2 DEF TypeOK
<1>4. /\ \A q \in Procs \ {p} : mine'[q] = mine[q]
      /\ \A q \in Procs : mine'[q].b = mine[q].b
      /\ mine'[p].op = "write"
  BY <1>2 DEF TypeOK
<1> HIDE DEF b
<1>5. TypeOK'
  <2>1. [mine[p] EXCEPT !.op = "write"] \in [b : 0 .. NBUF, op : {"read", "write"}]
    <3>1. mine[p] \in [b : 0 .. NBUF, op : {"read", "write"}]
      BY DEF TypeOK
    <3> QED BY <3>1
  <2>2. mine' \in [Procs -> [b : 0 .. NBUF, op : {"read", "write"}]]
    BY <1>2, <2>1 DEF TypeOK
  <2> QED BY <1>1, <1>2, <2>2 DEF TypeOK
<1>6. References'
  <2>1. \A c \in Bufs : Users(c)' = Users(c)
    BY <1>4 DEF Users
  <2>2. \A q \in Procs : mine[q].b # 0 => mine[q].b \in Bufs
    BY DEF TypeOK, Bufs
  <2> QED BY <1>1, <1>2, <1>3, <1>4, <2>1, <2>2 DEF References
<1>7. \A q \in Procs : /\ pc'[q] \in Holding <=> pc[q] \in Holding
                       /\ pc'[q] = "locksleep" <=> pc[q] = "locksleep"
                       /\ pc'[q] = "iosleep" <=> pc[q] = "iosleep"
  BY <1>2, <1>3 DEF Holding
<1>8. \A c \in Bufs : slock[c] # NoProc => slock[c] \in Procs
  BY DEF TypeOK
<1>9. Locks'
  BY <1>2, <1>4, <1>7, <1>8 DEF Locks
<1>10. Requests'
  <2>1. idequeue # <<>> => Head(idequeue) \in Bufs \ {b}
    BY <1>1, Dequeued DEF TypeOK, Requests
  <2> QED BY <1>1, <1>2, <1>7, <1>8, <2>1 DEF Requests
<1>11. Flags'
  <2>1. \A q \in Procs \ {p} : FlagsOf(q)'
    <3>1. \A q \in Procs \ {p} : pc[q] \in Holding => mine[q].b \in Bufs \ {b}
      BY <1>1, Using DEF Locks, Holding
    <3> QED BY <1>1, <1>3, <1>4, <3>1, FlagsKept
  <2>2. FlagsOf(p)'
    BY <1>1, <1>3, <1>4 DEF FlagsOf, b
  <2>3. /\ \A c \in Bufs : buf'[c].dirty => buf'[c].valid
        /\ \A c \in Bufs : buf'[c].valid => buf'[c].blockno # NoBlock
    BY <1>1 DEF Flags
  <2> QED BY <2>1, <2>2, <2>3 DEF Flags
<1>12. Clean' /\ Listed'
  BY <1>1, <1>2 DEF Clean, Listed
<1> QED BY <1>5, <1>6, <1>9, <1>10, <1>11, <1>12

\* log_write
LEMMA LogWriteStep ==
    ASSUME IInv, NEW p \in Procs, NEW v \in Vals, LogWrite(p, v)
    PROVE  IInv'
<1> USE DEF IInv
<1> DEFINE b == mine[p].b
<1>1. /\ b \in Bufs /\ slock[b] = p /\ buf[b].valid
      /\ buf' \in [Bufs -> Buffer]
      /\ \A c \in Bufs : /\ buf'[c].blockno = buf[c].blockno
                         /\ buf'[c].refcnt = buf[c].refcnt
                         /\ buf'[c].valid = buf[c].valid
      /\ buf'[b].dirty /\ buf'[b].data = v
      /\ \A c \in Bufs \ {b} : buf'[c] = buf[c]
      /\ b \notin Range(idequeue)
  BY Changed DEF LogWrite
<1>2. pc[p] = "have" /\ UNCHANGED <<lru, slock, idequeue, disk, drive, pc, mine>>
  BY DEF LogWrite
<1> HIDE DEF b
<1>3. TypeOK' /\ Locks' /\ Listed'
  BY <1>1, <1>2 DEF TypeOK, Locks, Listed
<1>4. References'
  <2>1. \A q \in Procs : mine[q].b # 0 => mine[q].b \in Bufs
    BY DEF TypeOK, Bufs
  <2>2. \A c \in Bufs : Users(c)' = Users(c)
    BY <1>2 DEF Users
  <2> QED BY <1>1, <1>2, <2>1, <2>2 DEF References
<1>5. Requests'
  <2>1. idequeue # <<>> => Head(idequeue) \in Bufs \ {b}
    BY <1>1, Dequeued DEF TypeOK, Requests
  <2> QED BY <1>1, <1>2, <2>1 DEF Requests
<1>6. Flags'
  <2>1. \A q \in Procs \ {p} : FlagsOf(q)'
    <3>1. \A q \in Procs \ {p} : pc[q] \in Holding => mine[q].b \in Bufs \ {b}
      BY <1>1, Using DEF Locks, Holding
    <3> QED BY <1>1, <1>2, <3>1, FlagsKept
  <2>2. FlagsOf(p)'
    BY <1>1, <1>2 DEF FlagsOf, Flags, b
  <2>3. /\ \A c \in Bufs : buf'[c].dirty => buf'[c].valid
        /\ \A c \in Bufs : buf'[c].valid => buf'[c].blockno # NoBlock
    BY <1>1 DEF Flags
  <2> QED BY <2>1, <2>2, <2>3 DEF Flags
<1>7. Clean'
  BY <1>1, <1>2 DEF Clean
<1> QED BY <1>3, <1>4, <1>5, <1>6, <1>7
\* brelse gives up the lock and wakes those who sleep for it.
LEMMA ReleaseSleepStep ==
    ASSUME IInv, NEW p \in Procs, ReleaseSleep(p)
    PROVE  IInv'
<1> USE DEF IInv
<1> DEFINE b == mine[p].b
<1>1. b \in Bufs /\ slock[b] = p /\ pc[p] = "have"
  BY Using DEF ReleaseSleep, Locks, Holding
<1>2. /\ slock' = [slock EXCEPT ![b] = NoProc] /\ pc' = Released(p)
      /\ UNCHANGED <<buf, lru, idequeue, disk, drive, mine>>
  BY DEF ReleaseSleep
<1> HIDE DEF b
<1>3. slock'[b] = NoProc /\ \A c \in Bufs \ {b} : slock'[c] = slock[c]
  BY <1>1, <1>2 DEF TypeOK
<1>4. /\ pc'[p] = "drop"
      /\ \A q \in Procs \ {p} :
            pc'[q] = IF pc[q] = "locksleep" /\ mine[q].b = b THEN "lock" ELSE pc[q]
  BY <1>2 DEF Released, Woken, b
<1>5. TypeOK'
  <2>1. pc' \in [Procs -> {"idle", "panic", "lock", "locksleep", "rw", "iosleep", "iotest",
                         "have", "drop"}]
    BY <1>2 DEF Released, Woken, TypeOK
  <2> QED BY <1>1, <1>2, <2>1 DEF TypeOK
<1>6. References' /\ Clean' /\ Listed'
  <2>1. \A q \in Procs : pc'[q] \in {"idle", "panic"} <=> pc[q] \in {"idle", "panic"}
    BY <1>1, <1>4
  <2>2. \A c \in Bufs : Users(c)' = Users(c)
    BY <1>2 DEF Users
  <2> QED BY <1>2, <2>1, <2>2 DEF References, Clean, Listed
<1>7. \A c \in Bufs \ {b} : slock[c] # NoProc => slock[c] \in Procs \ {p}
  BY DEF Locks, TypeOK, b
<1>8. \A q \in Procs \ {p} : pc[q] \in Holding \/ pc'[q] \in Holding
                             => pc'[q] = pc[q] /\ mine[q].b \in Bufs \ {b}
  <2>1. \A q \in Procs \ {p} : pc[q] \in Holding <=> pc'[q] \in Holding
    BY <1>4 DEF Holding
  <2>2. \A q \in Procs \ {p} : pc[q] \in Holding => mine[q].b \in Bufs \ {b}
    BY <1>1, Using DEF Locks, Holding
  <2>3. \A q \in Procs \ {p} : pc[q] \in Holding => pc'[q] = pc[q]
    BY <1>4 DEF Holding
  <2> QED BY <2>1, <2>2, <2>3
<1>9. Locks'
  <2>1. \A q \in Procs : pc'[q] \in Holding => slock'[mine[q].b] = q
    <3>1. pc'[p] \notin Holding
      BY <1>4 DEF Holding
    <3> QED BY <1>3, <1>8, <3>1 DEF Locks
  <2>2. \A c \in Bufs : slock'[c] # NoProc => mine[slock'[c]].b = c /\ pc'[slock'[c]] \in Holding
    BY <1>3, <1>7, <1>8 DEF Locks
  <2>3. \A q \in Procs : pc'[q] = "locksleep" => mine[q].b \in Bufs \ {b} /\ pc[q] = "locksleep"
    BY <1>4, Using
  <2>4. \A q \in Procs : pc'[q] = "locksleep" => slock'[mine[q].b] # NoProc
    BY <1>3, <2>3 DEF Locks
  <2> QED BY <1>2, <2>1, <2>2, <2>4 DEF Locks
<1>10. Flags'
  <2>1. \A q \in Procs : FlagsOf(q)'
    BY <1>1, <1>2, <1>4 DEF Flags, FlagsOf
  <2> QED BY <1>2, <2>1 DEF Flags
<1>11. Requests'
  <2>1. \A c \in Bufs : c \in Range(idequeue) <=> slock'[c] # NoProc /\ pc'[slock'[c]] = "iosleep"
    <3>1. b \notin Range(idequeue)
      BY <1>1 DEF Requests
    <3>2. \A c \in Bufs \ {b} : slock[c] # NoProc => (pc'[slock[c]] = "iosleep" <=> pc[slock[c]] = "iosleep")
      BY <1>4, <1>7
    <3> QED BY <1>3, <3>1, <3>2 DEF Requests
  <2> QED BY <1>2, <2>1 DEF Requests
<1> QED BY <1>5, <1>6, <1>9, <1>10, <1>11

\* brelse gives up the reference.
LEMMA BrelseStep ==
    ASSUME IInv, NEW p \in Procs, Brelse(p)
    PROVE  IInv'
<1> USE DEF IInv
<1>1. PICK b \in Bufs : b = mine[p].b /\ pc[p] = "drop"
  BY Using DEF Brelse
<1>2. /\ buf' = [buf EXCEPT ![b].refcnt = @ - 1]
      /\ lru' = IF buf[b].refcnt = 1 THEN ToFront(b) ELSE lru
      /\ pc' = [pc EXCEPT ![p] = "idle"] /\ mine' = [mine EXCEPT ![p] = Unused]
      /\ UNCHANGED <<slock, idequeue, disk, drive>>
  BY <1>1 DEF Brelse
<1>3. /\ pc'[p] = "idle" /\ \A q \in Procs \ {p} : pc'[q] = pc[q]
      /\ mine'[p] = Unused /\ \A q \in Procs \ {p} : mine'[q] = mine[q]
  BY <1>2 DEF TypeOK
<1>4. /\ Users(b)' = Users(b) \ {p} /\ p \in Users(b)
      /\ \A c \in Bufs \ {b} : Users(c)' = Users(c)
  <2>1. mine'[p].b = 0 /\ \A c \in Bufs : c # 0
    BY <1>3, BioAssumption DEF Unused, Bufs
  <2>2. Users(b)' = Users(b) \ {p} /\ p \in Users(b)
    BY <1>1, <1>3, <2>1 DEF Users
  <2>3. \A c \in Bufs \ {b} : Users(c)' = Users(c)
    BY <1>1, <1>3, <2>1 DEF Users
  <2> QED BY <2>2, <2>3
<1>5. /\ Cardinality(Users(b)') = Cardinality(Users(b)) - 1
      /\ Cardinality(Users(b)') \in Nat
  BY <1>4, UsersCounted, FS_RemoveElement, FS_CardinalityType
<1>6. buf[b].refcnt - 1 \in Nat
  BY <1>1, <1>5 DEF References
<1>7. /\ buf' \in [Bufs -> Buffer]
      /\ \A c \in Bufs : /\ buf'[c].blockno = buf[c].blockno /\ buf'[c].valid = buf[c].valid
                         /\ buf'[c].dirty = buf[c].dirty /\ buf'[c].data = buf[c].data
                         /\ c # b => buf'[c].refcnt = buf[c].refcnt
      /\ buf'[b].refcnt = buf[b].refcnt - 1
  <2>1. buf[b] \in Buffer
    BY <1>1 DEF TypeOK
  <2>2. buf' = [buf EXCEPT ![b] = [buf[b] EXCEPT !.refcnt = buf[b].refcnt - 1]]
    BY <1>1, <1>2 DEF TypeOK
  <2>3. [buf[b] EXCEPT !.refcnt = buf[b].refcnt - 1] \in Buffer
    BY <1>6, <2>1, Counts
  <2>4. buf' \in [Bufs -> Buffer] /\ \A c \in Bufs \ {b} : buf'[c] = buf[c]
    BY <1>1, <2>2, <2>3 DEF TypeOK
  <2>5. /\ buf'[b].blockno = buf[b].blockno /\ buf'[b].valid = buf[b].valid
        /\ buf'[b].dirty = buf[b].dirty /\ buf'[b].data = buf[b].data
        /\ buf'[b].refcnt = buf[b].refcnt - 1
    BY <1>1, <2>1, <2>2 DEF TypeOK, Buffer
  <2> QED BY <2>4, <2>5
<1>8. lru' \in [Bufs -> Bufs] /\ Listed'
  BY <1>1, <1>2, FrontListed DEF TypeOK, Listed
<1>9. TypeOK'
  <2>1. Unused \in [b : 0 .. NBUF, op : {"read", "write"}]
    BY BioAssumption DEF Unused
  <2>2. mine' \in [Procs -> [b : 0 .. NBUF, op : {"read", "write"}]]
    BY <1>2, <2>1 DEF TypeOK
  <2> QED BY <1>2, <1>7, <1>8, <2>2 DEF TypeOK
<1>10. References'
  <2>1. \A c \in Bufs : buf'[c].refcnt = Cardinality(Users(c)')
    <3>1. buf'[b].refcnt = Cardinality(Users(b)')
      BY <1>1, <1>5, <1>7 DEF References
    <3>2. \A c \in Bufs \ {b} : buf'[c].refcnt = Cardinality(Users(c)')
      BY <1>4, <1>7 DEF References
    <3> QED BY <3>1, <3>2
  <2>2. \A q \in Procs : mine'[q].b = 0 <=> pc'[q] \in {"idle", "panic"}
    BY <1>3 DEF References, Unused
  <2>3. \A q \in Procs : mine'[q].b # 0 => buf'[mine'[q].b].blockno # NoBlock
    <3>1. \A q \in Procs \ {p} : mine[q].b # 0 => mine[q].b \in Bufs
      BY DEF TypeOK, Bufs
    <3> QED BY <1>3, <1>7, <3>1 DEF References, Unused
  <2> QED BY <1>7, <2>1, <2>2, <2>3 DEF References
<1>11. \A c \in Bufs : slock[c] # NoProc => slock[c] \in Procs \ {p}
  <2>1. pc[p] \notin Holding
    BY <1>1 DEF Holding
  <2> QED BY <2>1 DEF Locks, TypeOK
<1>12. Locks'
  <2>1. pc'[p] \notin Holding
    BY <1>3 DEF Holding
  <2> QED BY <1>2, <1>3, <1>11, <2>1 DEF Locks
<1>13. Flags'
  <2>1. \A q \in Procs \ {p} : FlagsOf(q)'
    <3>1. \A q \in Procs : pc[q] \in Holding => mine[q].b \in Bufs
      BY Using DEF Holding
    <3> QED BY <1>3, <1>7, <3>1, FlagsKept
  <2>2. FlagsOf(p)'
    BY <1>3 DEF FlagsOf, Unused
  <2> QED BY <1>7, <2>1, <2>2 DEF Flags
<1>14. Requests'
  <2>1. idequeue # <<>> => Head(idequeue) \in Bufs
    BY DEF TypeOK
  <2> QED BY <1>2, <1>3, <1>7, <1>11, <2>1 DEF Requests
<1>15. Clean'
  BY <1>2, <1>7 DEF Clean
<1> QED BY <1>8, <1>9, <1>10, <1>12, <1>13, <1>14, <1>15

LEMMA BgetStep ==
    ASSUME IInv, NEW p \in Procs, NEW n \in Blocks, Bget(p, n)
    PROVE  IInv'
<1>1. pc[p] = "idle" /\ UNCHANGED <<lru, slock, idequeue, disk, drive>>
  BY DEF Bget
<1>2. ASSUME NEW b \in Cached(n), Hit(p, b) PROVE IInv'
  BY <1>1, <1>2, BgetHitStep
<1>3. ASSUME NEW b \in Bufs, Cached(n) = {}, Victim(b), Recycle(p, n, b) PROVE IInv'
  <2>1. Idle(b)
    BY <1>3 DEF Victim
  <2> QED BY <1>1, <1>3, <2>1, BgetMissStep
<1>4. ASSUME NoBuffers(p) PROVE IInv'
  BY <1>1, <1>4, BgetPanicStep
<1> QED BY <1>2, <1>3, <1>4 DEF Bget

LEMMA NextInv == IInv /\ [Next]_vars => IInv'
<1> SUFFICES ASSUME IInv, [Next]_vars PROVE IInv'
  OBVIOUS
<1>1. CASE UNCHANGED vars
  <2>1. \A p \in Procs : FlagsOf(p)' <=> FlagsOf(p)
    BY <1>1 DEF FlagsOf, vars
  <2>2. \A b \in Bufs : Users(b)' = Users(b)
    BY <1>1 DEF Users, vars
  <2>3. TypeOK' /\ References' /\ Locks' /\ Flags'
    BY <1>1, <2>1, <2>2 DEF IInv, TypeOK, References, Locks, Flags, vars
  <2>4. Requests' /\ Clean' /\ Listed'
    BY <1>1 DEF IInv, Requests, Clean, Listed, vars
  <2> QED BY <2>3, <2>4 DEF IInv
<1>2. ASSUME NEW p \in Procs, Step(p) PROVE IInv'
  BY <1>2, BgetStep, AcquireSleepStep, IderwStep, IoTestStep, BwriteStep, LogWriteStep,
     ReleaseSleepStep, BrelseStep DEF Step
<1> QED BY <1>1, <1>2, DriveStep, IdeIntrStep DEF Next

----------------------------------------------------------------------------
(* What follows from it *)

\* The buffers, their locks, the requests and the list agree with each other
\* in every reachable state (bio.c, sleeplock.c, ide.c).
THEOREM BioInvariant == Spec => []IInv
BY InitInv, NextInv, PTL DEF Spec

\* bget never gives a block two buffers, nor a used buffer to another block,
\* and who is past acquiresleep holds the lock (bio.c:62-92).
THEOREM BioOneCopy == Spec => []OneCopy
<1>1. IInv => OneCopy
  BY DEF IInv, References, Locks, OneCopy, Users, Holding
<1> QED BY <1>1, BioInvariant, PTL

\* No wakeup of sleeplock.c or ide.c is lost: a sleeper's lock is held, its
\* request is queued once, and the drive works on the first request.
THEOREM BioSleepersWait == Spec => []SleepersWaitForSomething
<1>1. IInv => SleepersWaitForSomething
  <2> SUFFICES ASSUME IInv PROVE SleepersWaitForSomething
    OBVIOUS
  <2>1. \A p \in Procs : pc[p] = "locksleep" => slock[mine[p].b] # NoProc
    BY DEF IInv, Locks
  <2>2. \A p \in Procs : pc[p] = "iosleep" => slock[mine[p].b] = p /\ mine[p].b \in Range(idequeue)
    <3> SUFFICES ASSUME NEW p \in Procs, pc[p] = "iosleep"
                 PROVE  slock[mine[p].b] = p /\ mine[p].b \in Range(idequeue)
      OBVIOUS
    <3>1. mine[p].b \in Bufs /\ slock[mine[p].b] = p /\ p # NoProc
      BY Using, BioAssumption DEF IInv, Locks, Holding
    <3> QED BY <3>1 DEF IInv, Requests
  <2>3. IsInjective(idequeue)
    BY DEF IInv, Requests
  <2>4. IF idequeue = <<>> THEN drive.op = "none"
        ELSE drive.op # "none" /\ drive.blockno = buf[Head(idequeue)].blockno
    BY DEF IInv, Requests
  <2> QED BY <2>1, <2>2, <2>3, <2>4 DEF SleepersWaitForSomething
<1> QED BY <1>1, BioInvariant, PTL

----------------------------------------------------------------------------
(* The refinement of BlockStore *)

\* Who has a block is one process, and its content is on the disk unless the
\* buffer is dirty: the CHOOSEs of val and holder have one candidate.
HolderIs ==
    \A n \in Blocks :
        /\ \A p \in Procs : Has(p, n) => holder[n] = p
        /\ (\A p \in Procs : ~Has(p, n)) => holder[n] = NoProc

ValIs ==
    \A n \in Blocks :
        /\ \A b \in Bufs : buf[b].blockno = n /\ buf[b].dirty => val[n] = buf[b].data
        /\ (\A b \in Bufs : ~(buf[b].blockno = n /\ buf[b].dirty)) => val[n] = disk[n]

LEMMA Has1 ==
    ASSUME IInv, NEW p \in Procs, NEW n \in Blocks, Has(p, n)
    PROVE  /\ mine[p].b \in Bufs /\ buf[mine[p].b].blockno = n
           /\ slock[mine[p].b] = p
           /\ \A b \in Bufs : buf[b].blockno = n => b = mine[p].b
<1>1. mine[p].b \in Bufs /\ buf[mine[p].b].blockno = n /\ n # NoBlock
  BY BioAssumption DEF Has, IInv, TypeOK, Bufs
<1>2. pc[p] \in Holding
  BY DEF Has, Holding
<1> QED BY <1>1, <1>2 DEF IInv, Locks, References

LEMMA Mapping == IInv => HolderIs /\ ValIs
<1> SUFFICES ASSUME IInv PROVE HolderIs /\ ValIs
  OBVIOUS
<1>1. HolderIs
  <2> SUFFICES ASSUME NEW n \in Blocks
               PROVE  /\ \A p \in Procs : Has(p, n) => holder[n] = p
                      /\ (\A p \in Procs : ~Has(p, n)) => holder[n] = NoProc
    BY DEF HolderIs
  <2>1. \A p, q \in Procs : Has(p, n) /\ Has(q, n) => p = q
    BY Has1
  <2>2. holder[n] = IF \E p \in Procs : Has(p, n) THEN CHOOSE p \in Procs : Has(p, n) ELSE NoProc
    BY DEF holder
  <2> QED BY <2>1, <2>2
<1>2. ValIs
  <2> SUFFICES ASSUME NEW n \in Blocks
               PROVE  /\ \A b \in Bufs : buf[b].blockno = n /\ buf[b].dirty => val[n] = buf[b].data
                      /\ (\A b \in Bufs : ~(buf[b].blockno = n /\ buf[b].dirty)) => val[n] = disk[n]
    BY DEF ValIs
  <2> DEFINE bs == {b \in Cached(n) : buf[b].valid}
  <2>1. val[n] = IF bs = {} THEN disk[n] ELSE buf[CHOOSE b \in bs : TRUE].data
    BY DEF val
  <2>2. \A b \in bs : b \in Bufs /\ buf[b].blockno = n /\ buf[b].valid
    BY DEF Cached
  <2>3. \A b, c \in bs : b = c
    BY <2>2, BioAssumption DEF IInv, References
  <2>4. \A b \in Bufs : buf[b].blockno = n /\ buf[b].dirty => b \in bs
    BY DEF IInv, Flags, Cached
  <2>5. \A b \in bs : ~buf[b].dirty => buf[b].data = disk[n]
    BY <2>2 DEF IInv, Clean
  <2>6. \A b \in bs : val[n] = buf[b].data
    BY <2>1, <2>3
  <2> HIDE DEF bs
  <2>7. CASE bs = {}
    BY <2>1, <2>4, <2>7
  <2>8. CASE bs # {}
    <3>1. PICK c \in bs : TRUE
      BY <2>8
    <3> QED BY <2>2, <2>4, <2>5, <2>6, <3>1
  <2> QED BY <2>7, <2>8
<1> QED BY <1>1, <1>2

LEMMA MappingNext == IInv' => HolderIs' /\ ValIs'
BY Mapping, PTL

\* A step after which the same processes have the same blocks.
LEMMA SameHolder ==
    ASSUME IInv, IInv', \A p \in Procs, n \in Blocks : Has(p, n)' <=> Has(p, n)
    PROVE  holder' = holder
<1>1. \A n \in Blocks : holder'[n] = holder[n]
  BY Mapping, MappingNext DEF HolderIs
<1>2. holder = [n \in Blocks |-> holder[n]] /\ holder' = [n \in Blocks |-> holder'[n]]
  BY DEF holder
<1> QED BY <1>1, <1>2

\* A step that leaves the dirty buffers and the disk alone.
LEMMA SameVal ==
    ASSUME IInv, IInv', disk' = disk,
           \A b \in Bufs : buf'[b].dirty = buf[b].dirty,
           \A b \in Bufs : buf[b].dirty => buf'[b].blockno = buf[b].blockno /\ buf'[b].data = buf[b].data
    PROVE  val' = val
<1>1. ASSUME NEW n \in Blocks PROVE val'[n] = val[n]
  <2>1. CASE \E b \in Bufs : buf[b].blockno = n /\ buf[b].dirty
    BY <2>1, Mapping, MappingNext DEF ValIs
  <2>2. CASE \A b \in Bufs : ~(buf[b].blockno = n /\ buf[b].dirty)
    BY <2>2, Mapping, MappingNext DEF ValIs
  <2> QED BY <2>1, <2>2
<1>2. val = [n \in Blocks |-> val[n]] /\ val' = [n \in Blocks |-> val'[n]]
  BY DEF val
<1> QED BY <1>1, <1>2

\* Only p moves, and the buffers of the others stay their blocks'.
LEMMA OthersHave ==
    ASSUME NEW p \in Procs, NEW q \in Procs \ {p}, pc'[q] = pc[q], mine'[q] = mine[q],
           mine[q].b # 0 => buf'[mine[q].b].blockno = buf[mine[q].b].blockno
    PROVE  \A n \in Blocks : Has(q, n)' <=> Has(q, n)
BY DEF Has

\* The steps of BlockStore.
LEMMA TakesBlock ==
    ASSUME IInv, IInv', val' = val, NEW p \in Procs, NEW n \in Blocks,
           \A q \in Procs : ~Has(q, n),
           \A q \in Procs \ {p} : \A m \in Blocks : Has(q, m)' <=> Has(q, m),
           \A m \in Blocks : ~Has(p, m) /\ (Has(p, m)' <=> m = n)
    PROVE  Store!Next
<1>1. holder[n] = NoProc
  BY Mapping DEF HolderIs
<1>2. holder'[n] = p
  BY MappingNext DEF HolderIs
<1>3. ASSUME NEW m \in Blocks \ {n} PROVE holder'[m] = holder[m]
  <2>1. \A q \in Procs : Has(q, m)' <=> Has(q, m)
    OBVIOUS
  <2> QED BY <2>1, Mapping, MappingNext DEF HolderIs
<1>4. holder = [m \in Blocks |-> holder[m]] /\ holder' = [m \in Blocks |-> holder'[m]]
  BY DEF holder
<1>5. Store!Take(p, n)
  BY <1>1, <1>2, <1>3, <1>4 DEF Store!Take
<1> QED BY <1>5 DEF Store!Next

LEMMA GivesBlock ==
    ASSUME IInv, IInv', val' = val, NEW p \in Procs, NEW n \in Blocks, Has(p, n),
           \A q \in Procs \ {p} : \A m \in Blocks : Has(q, m)' <=> Has(q, m),
           \A m \in Blocks : ~Has(p, m)' /\ (Has(p, m) => m = n)
    PROVE  Store!Next
<1>1. holder[n] = p
  BY Mapping DEF HolderIs
<1>2. \A q \in Procs : ~Has(q, n)'
  <2>1. \A q \in Procs : Has(q, n) => q = p
    BY Has1
  <2> QED BY <2>1
<1>3. holder'[n] = NoProc
  BY <1>2, MappingNext DEF HolderIs
<1>4. ASSUME NEW m \in Blocks \ {n} PROVE holder'[m] = holder[m]
  <2>1. \A q \in Procs : Has(q, m)' <=> Has(q, m)
    OBVIOUS
  <2> QED BY <2>1, Mapping, MappingNext DEF HolderIs
<1>5. holder = [m \in Blocks |-> holder[m]] /\ holder' = [m \in Blocks |-> holder'[m]]
  BY DEF holder
<1>6. Store!Give(p, n)
  BY <1>1, <1>3, <1>4, <1>5 DEF Store!Give
<1> QED BY <1>6 DEF Store!Next

LEMMA SetsBlock ==
    ASSUME IInv, IInv', holder' = holder, disk' = disk, NEW p \in Procs, NEW n \in Blocks,
           NEW v \in Vals, Has(p, n),
           buf'[mine[p].b].dirty, buf'[mine[p].b].data = v,
           \A b \in Bufs : buf'[b].blockno = buf[b].blockno,
           \A b \in Bufs \ {mine[p].b} : buf'[b] = buf[b]
    PROVE  Store!Next
<1>1. holder[n] = p
  BY Mapping DEF HolderIs
<1>2. mine[p].b \in Bufs /\ buf[mine[p].b].blockno = n
  BY Has1
<1>3. val'[n] = v
  BY <1>2, MappingNext DEF ValIs
<1>4. ASSUME NEW m \in Blocks \ {n} PROVE val'[m] = val[m]
  <2>1. \A b \in Bufs : buf[b].blockno = m => b # mine[p].b
    BY <1>2
  <2>2. CASE \E b \in Bufs : buf[b].blockno = m /\ buf[b].dirty
    BY <2>1, <2>2, Mapping, MappingNext DEF ValIs
  <2>3. CASE \A b \in Bufs : ~(buf[b].blockno = m /\ buf[b].dirty)
    BY <2>1, <2>3, Mapping, MappingNext DEF ValIs
  <2> QED BY <2>2, <2>3
<1>5. val = [m \in Blocks |-> val[m]] /\ val' = [m \in Blocks |-> val'[m]]
  BY DEF val
<1>6. Store!Set(p, n, v)
  BY <1>1, <1>3, <1>4, <1>5 DEF Store!Set
<1> QED BY <1>6 DEF Store!Next

\* The buffer of a process has a block.
LEMMA BlockUsed ==
    ASSUME IInv, NEW p \in Procs, mine[p].b \in Bufs
    PROVE  buf[mine[p].b].blockno \in Blocks
<1>1. mine[p].b # 0
  BY BioAssumption DEF Bufs
<1>2. buf[mine[p].b] \in Buffer
  BY DEF IInv, TypeOK
<1>3. buf[mine[p].b].blockno # NoBlock
  BY <1>1 DEF IInv, References
<1> QED BY <1>2, <1>3 DEF Buffer

\* bget shows nothing: nobody has the buffer that is found or recycled yet, and
\* a recycled buffer is not dirty.
LEMMA RefinesBget ==
    ASSUME IInv, IInv', NEW p \in Procs, NEW n \in Blocks, Bget(p, n)
    PROVE  UNCHANGED Store!vars
<1>1. /\ pc[p] = "idle" /\ pc'[p] \in {"lock", "panic"}
      /\ \A q \in Procs \ {p} : pc'[q] = pc[q] /\ mine'[q] = mine[q]
  BY DEF Bget, Hit, Recycle, NoBuffers, IInv, TypeOK
<1>2. /\ \A b \in Bufs : buf'[b].dirty = buf[b].dirty
      /\ \A b \in Bufs : buf[b].dirty => buf'[b].blockno = buf[b].blockno /\ buf'[b].data = buf[b].data
      /\ \A q \in Procs : mine[q].b \in Bufs => buf'[mine[q].b].blockno = buf[mine[q].b].blockno
  <2>1. ASSUME NEW c \in Cached(n), Hit(p, c)
        PROVE  \A b \in Bufs : buf'[b].dirty = buf[b].dirty /\ buf'[b].blockno = buf[b].blockno
                               /\ buf'[b].data = buf[b].data
    <3>1. c \in Bufs /\ buf[c] \in Buffer /\ buf' = [buf EXCEPT ![c] = [buf[c] EXCEPT !.refcnt = buf[c].refcnt + 1]]
      BY <2>1 DEF Hit, Cached, IInv, TypeOK
    <3>2. buf'[c] = [buf[c] EXCEPT !.refcnt = buf[c].refcnt + 1] /\ \A b \in Bufs \ {c} : buf'[b] = buf[b]
      BY <3>1 DEF IInv, TypeOK
    <3>3. buf'[c].dirty = buf[c].dirty /\ buf'[c].blockno = buf[c].blockno /\ buf'[c].data = buf[c].data
      BY <3>1, <3>2 DEF Buffer
    <3> QED BY <3>2, <3>3
  <2>2. ASSUME NEW c \in Bufs, Idle(c), Recycle(p, n, c)
        PROVE  /\ buf'[c].dirty = buf[c].dirty /\ ~buf[c].dirty
               /\ \A b \in Bufs \ {c} : buf'[b] = buf[b]
               /\ \A q \in Procs : mine[q].b # c
    <3>1. ~buf[c].dirty /\ \A q \in Procs : mine[q].b # c
      BY <2>2, NobodyUses DEF Idle
    <3>2. \A b \in Bufs \ {c} : buf'[b] = buf[b]
      BY <2>2 DEF Recycle, IInv, TypeOK
    <3>3. buf'[c].dirty = FALSE
      BY <2>2 DEF Recycle, IInv, TypeOK, Buffer
    <3>4. buf[c].dirty \in BOOLEAN
      BY DEF IInv, TypeOK, Buffer
    <3> QED BY <3>1, <3>2, <3>3, <3>4
  <2>3. CASE NoBuffers(p)
    BY <2>3 DEF NoBuffers
  <2>4. CASE \E c \in Cached(n) : Hit(p, c)
    BY <2>1, <2>4
  <2>5. CASE \E c \in Bufs : Victim(c) /\ Recycle(p, n, c)
    <3>1. PICK c \in Bufs : Idle(c) /\ Recycle(p, n, c)
      BY <2>5 DEF Victim
    <3> QED BY <2>2, <3>1
  <2> QED BY <2>3, <2>4, <2>5 DEF Bget
<1>3. \A m \in Blocks : Has(p, m)' <=> Has(p, m)
  BY <1>1 DEF Has
<1>4. \A q \in Procs : mine[q].b # 0 => mine[q].b \in Bufs
  BY DEF IInv, TypeOK, Bufs
<1>5. \A q \in Procs \ {p} : \A m \in Blocks : Has(q, m)' <=> Has(q, m)
  BY <1>1, <1>2, <1>4, OthersHave
<1>6. holder' = holder
  BY <1>3, <1>5, SameHolder
<1>7. val' = val
  BY <1>2, SameVal DEF Bget
<1> QED BY <1>6, <1>7 DEF Store!vars

\* acquiresleep takes the block when its content has been read.
LEMMA RefinesAcquire ==
    ASSUME IInv, IInv', NEW p \in Procs, AcquireSleep(p)
    PROVE  [Store!Next]_(Store!vars)
<1>1. /\ pc[p] = "lock" /\ mine[p].b \in Bufs /\ mine[p].op = "read"
      /\ UNCHANGED <<buf, disk, mine>>
      /\ \A q \in Procs \ {p} : pc'[q] = pc[q]
  BY Using DEF AcquireSleep, IInv, TypeOK, Flags, FlagsOf
<1>2. val' = val
  BY <1>1, SameVal
<1>3. \A q \in Procs \ {p} : \A n \in Blocks : Has(q, n)' <=> Has(q, n)
  BY <1>1, OthersHave
<1>4. CASE pc'[p] \in {"locksleep", "rw"}
  <2>1. \A n \in Blocks : Has(p, n)' <=> Has(p, n)
    BY <1>1, <1>4 DEF Has
  <2> QED BY <1>2, <1>3, <2>1, SameHolder DEF Store!vars
<1>5. CASE pc'[p] = "have" /\ slock[mine[p].b] = NoProc
  <2> DEFINE n == buf[mine[p].b].blockno
  <2>1. n \in Blocks
    BY <1>1, BlockUsed
  <2>2. \A q \in Procs : ~Has(q, n)
    BY <1>1, <1>5, <2>1, Has1, BioAssumption
  <2>3. \A m \in Blocks : ~Has(p, m) /\ (Has(p, m)' <=> m = n)
    BY <1>1, <1>5, BioAssumption DEF Has, Bufs
  <2> HIDE DEF n
  <2> QED BY <1>2, <1>3, <2>1, <2>2, <2>3, TakesBlock
<1>6. pc'[p] \in {"locksleep", "rw"} \/ (pc'[p] = "have" /\ slock[mine[p].b] = NoProc)
  BY DEF AcquireSleep, Bread, IInv, TypeOK
<1> QED BY <1>4, <1>5, <1>6

\* iderw takes the block that bread calls it for; bwrite had it before.
LEMMA RefinesIoTest ==
    ASSUME IInv, IInv', NEW p \in Procs, IoTest(p)
    PROVE  [Store!Next]_(Store!vars)
<1>1. /\ pc[p] = "iotest" /\ mine' = [mine EXCEPT ![p].op = "read"]
      /\ UNCHANGED <<buf, disk>> /\ mine[p].b \in Bufs
  BY Using DEF IoTest
<1>2. pc'[p] = "have" /\ \A q \in Procs \ {p} : pc'[q] = pc[q]
  BY IoTestStep DEF IInv, TypeOK
<1>3. mine'[p].b = mine[p].b /\ \A q \in Procs \ {p} : mine'[q] = mine[q]
  BY <1>1 DEF IInv, TypeOK
<1>4. val' = val
  BY <1>1, SameVal
<1>5. \A q \in Procs \ {p} : \A n \in Blocks : Has(q, n)' <=> Has(q, n)
  BY <1>1, <1>2, <1>3, OthersHave
<1>6. CASE mine[p].op = "write"
  <2>1. \A n \in Blocks : Has(p, n)' <=> Has(p, n)
    BY <1>1, <1>2, <1>3, <1>6 DEF Has
  <2> QED BY <1>4, <1>5, <2>1, SameHolder DEF Store!vars
<1>7. CASE mine[p].op = "read"
  <2> DEFINE n == buf[mine[p].b].blockno
  <2>1. n \in Blocks
    BY <1>1, BlockUsed
  <2>2. slock[mine[p].b] = p
    BY <1>1 DEF IInv, Locks, Holding
  <2>3. \A m \in Blocks : ~Has(p, m) /\ (Has(p, m)' <=> m = n)
    BY <1>1, <1>2, <1>3, <1>7, BioAssumption DEF Has, Bufs
  <2>4. \A q \in Procs : ~Has(q, n)
    BY <1>1, <2>1, <2>2, <2>3, Has1
  <2> HIDE DEF n
  <2> QED BY <1>4, <1>5, <2>1, <2>3, <2>4, TakesBlock
<1> QED BY <1>6, <1>7 DEF IInv, TypeOK

\* bwrite and log_write set the block, brelse gives it.
LEMMA RefinesUse ==
    ASSUME IInv, IInv', NEW p \in Procs,
           (\E v \in Vals : Bwrite(p, v) \/ LogWrite(p, v)) \/ ReleaseSleep(p)
    PROVE  Store!Next
<1> DEFINE b == mine[p].b  n == buf[b].blockno
<1>1. pc[p] = "have"
  BY DEF Bwrite, LogWrite, ReleaseSleep
<1>2. b \in Bufs
  BY <1>1, Using
<1>3. n \in Blocks /\ Has(p, n) /\ \A m \in Blocks : Has(p, m) <=> m = n
  BY <1>1, <1>2, BlockUsed, BioAssumption DEF Has, Bufs
<1>4. ASSUME NEW v \in Vals, Bwrite(p, v) \/ LogWrite(p, v) PROVE Store!Next
  <2>1. /\ buf'[b].dirty /\ buf'[b].data = v
        /\ \A c \in Bufs : buf'[c].blockno = buf[c].blockno
        /\ \A c \in Bufs \ {b} : buf'[c] = buf[c]
    BY <1>1, <1>4, Changed DEF Bwrite, LogWrite
  <2>2. /\ disk' = disk /\ mine'[p].b = b /\ \A q \in Procs \ {p} : mine'[q] = mine[q] /\ pc'[q] = pc[q]
    BY <1>4 DEF Bwrite, LogWrite, IInv, TypeOK
  <2>3. pc'[p] = "have" \/ (pc'[p] = "rw" /\ mine'[p].op = "write")
    BY <1>1, <1>4 DEF Bwrite, LogWrite, IInv, TypeOK
  <2>4. \A m \in Blocks : Has(p, m)' <=> Has(p, m)
    BY <1>1, <1>2, <2>1, <2>2, <2>3 DEF Has
  <2>5. \A q \in Procs : mine[q].b # 0 => mine[q].b \in Bufs
    BY DEF IInv, TypeOK, Bufs
  <2>6. \A q \in Procs \ {p} : \A m \in Blocks : Has(q, m)' <=> Has(q, m)
    BY <2>1, <2>2, <2>5, OthersHave
  <2>7. holder' = holder
    BY <2>4, <2>6, SameHolder
  <2> QED BY <1>3, <2>1, <2>2, <2>7, SetsBlock
<1>5. CASE ReleaseSleep(p)
  <2>1. /\ UNCHANGED <<buf, disk, mine>> /\ pc'[p] = "drop"
        /\ \A q \in Procs \ {p} :
              pc'[q] = IF pc[q] = "locksleep" /\ mine[q].b = b THEN "lock" ELSE pc[q]
    BY <1>5 DEF ReleaseSleep, Released, Woken
  <2>2. val' = val
    BY <2>1, SameVal
  <2>3. \A q \in Procs \ {p} : \A m \in Blocks : Has(q, m)' <=> Has(q, m)
    BY <2>1 DEF Has
  <2>4. \A m \in Blocks : ~Has(p, m)'
    BY <2>1 DEF Has
  <2> QED BY <1>3, <2>2, <2>3, <2>4, GivesBlock
<1> QED BY <1>4, <1>5

\* Queueing a request and dropping a reference show nothing.
LEMMA RefinesQuiet ==
    ASSUME IInv, IInv', NEW p \in Procs, Iderw(p) \/ Brelse(p)
    PROVE  UNCHANGED Store!vars
<1>1. CASE Iderw(p)
  <2>1. /\ UNCHANGED <<buf, disk, mine>> /\ pc[p] = "rw" /\ pc'[p] = "iosleep"
        /\ \A q \in Procs \ {p} : pc'[q] = pc[q]
    BY <1>1 DEF Iderw, IInv, TypeOK
  <2>2. \A q \in Procs, n \in Blocks : Has(q, n)' <=> Has(q, n)
    BY <2>1 DEF Has
  <2> QED BY <2>1, <2>2, SameHolder, SameVal DEF Store!vars
<1>2. CASE Brelse(p)
  <2>1. /\ disk' = disk /\ pc[p] = "drop" /\ pc'[p] = "idle"
        /\ \A q \in Procs \ {p} : pc'[q] = pc[q] /\ mine'[q] = mine[q]
    BY <1>2 DEF Brelse, IInv, TypeOK
  <2>2. \A c \in Bufs : /\ buf'[c].blockno = buf[c].blockno /\ buf'[c].dirty = buf[c].dirty
                        /\ buf'[c].data = buf[c].data
    <3>1. PICK b \in Bufs : b = mine[p].b
      BY <2>1, Using
    <3>2. buf[b] \in Buffer /\ buf'[b] = [buf[b] EXCEPT !.refcnt = buf[b].refcnt - 1]
      BY <1>2, <3>1 DEF Brelse, IInv, TypeOK
    <3>3. \A c \in Bufs \ {b} : buf'[c] = buf[c]
      BY <1>2, <3>1 DEF Brelse, IInv, TypeOK
    <3>4. buf'[b].blockno = buf[b].blockno /\ buf'[b].dirty = buf[b].dirty /\ buf'[b].data = buf[b].data
      BY <3>2 DEF Buffer
    <3> QED BY <3>3, <3>4
  <2>3. \A q \in Procs : mine[q].b # 0 => mine[q].b \in Bufs
    BY DEF IInv, TypeOK, Bufs
  <2>4. \A q \in Procs \ {p} : \A m \in Blocks : Has(q, m)' <=> Has(q, m)
    BY <2>1, <2>2, <2>3, OthersHave
  <2>5. \A m \in Blocks : Has(p, m)' <=> Has(p, m)
    BY <2>1 DEF Has
  <2> QED BY <2>1, <2>2, <2>4, <2>5, SameHolder, SameVal DEF Store!vars
<1> QED BY <1>1, <1>2

\* The drive writes what the buffer of the request has, and the interrupt marks
\* the buffer as written or fills one that nobody has yet.
LEMMA RefinesDisk ==
    ASSUME IInv, IInv', Drive \/ IdeIntr
    PROVE  UNCHANGED Store!vars
<1> DEFINE b == Head(idequeue)
<1>1. idequeue # <<>> /\ b \in Bufs
  BY Dequeued DEF Drive, IdeIntr, IInv, TypeOK, Requests
<1>2. /\ drive.op = IF buf[b].dirty THEN "write" ELSE "read"
      /\ drive.blockno = buf[b].blockno
      /\ drive.op = "write" => drive.data = buf[b].data
      /\ drive.op = "write" /\ drive.done => disk[drive.blockno] = drive.data
  BY <1>1 DEF IInv, Requests
<1>3. PICK p \in Procs : slock[b] = p /\ mine[p].b = b /\ pc[p] = "iosleep"
  BY <1>1, Dequeued DEF IInv, TypeOK, Requests, Locks
<1>4. drive.blockno \in Blocks
  BY <1>1, <1>2, <1>3, BlockUsed
<1>5. val = [m \in Blocks |-> val[m]] /\ val' = [m \in Blocks |-> val'[m]]
  BY DEF val
<1>6. \A c \in Bufs : buf[c].blockno = drive.blockno => c = b
  BY <1>1, <1>2, <1>4, BioAssumption DEF IInv, References
<1>7. CASE Drive
  <2>1. /\ UNCHANGED <<buf, pc, mine>> /\ disk \in [Blocks -> Vals]
        /\ \/ drive.op = "write" /\ disk' = [disk EXCEPT ![drive.blockno] = drive.data]
           \/ drive.op = "read" /\ disk' = disk
    BY <1>7 DEF Drive, IInv, TypeOK
  <2>2. \A q \in Procs, n \in Blocks : Has(q, n)' <=> Has(q, n)
    BY <2>1 DEF Has
  <2>3. ASSUME NEW m \in Blocks PROVE val'[m] = val[m]
    <3>1. CASE \E c \in Bufs : buf[c].blockno = m /\ buf[c].dirty
      BY <2>1, <3>1, Mapping, MappingNext DEF ValIs
    <3>2. CASE \A c \in Bufs : ~(buf[c].blockno = m /\ buf[c].dirty)
      <4>1. disk'[m] = disk[m]
        BY <1>1, <1>2, <2>1, <3>2
      <4>2. val[m] = disk[m]
        BY <3>2, Mapping DEF ValIs
      <4>3. val'[m] = disk'[m]
        BY <2>1, <3>2, MappingNext DEF ValIs
      <4> QED BY <4>1, <4>2, <4>3
    <3> QED BY <3>1, <3>2
  <2> QED BY <1>5, <2>2, <2>3, SameHolder DEF Store!vars
<1>8. CASE IdeIntr
  <2>1. /\ disk' = disk /\ mine' = mine /\ drive.done
        /\ pc' = Woken("iosleep", b, "iotest")
    BY <1>8 DEF IdeIntr
  <2>2. /\ \A c \in Bufs \ {b} : buf'[c] = buf[c]
        /\ buf'[b].blockno = buf[b].blockno /\ ~buf'[b].dirty
    <3>1. \A c \in Bufs \ {b} : buf'[c] = buf[c]
      BY <1>1, <1>8 DEF IdeIntr, IInv, TypeOK
    <3>2. buf'[b].blockno = buf[b].blockno /\ ~buf'[b].dirty
      BY <1>1, <1>8 DEF IdeIntr, IInv, TypeOK, Buffer
    <3> QED BY <3>1, <3>2
  <2> HIDE DEF b
  <2>3. \A q \in Procs : mine[q].b # 0 => mine[q].b \in Bufs
    BY DEF IInv, TypeOK, Bufs
  <2>4. \A c \in Bufs : buf'[c].blockno = buf[c].blockno
    BY <2>2
  <2>5. \A q \in Procs : pc'[q] = pc[q] \/ (pc[q] = "iosleep" /\ pc'[q] = "iotest")
    BY <2>1 DEF Woken
  <2>6. \A q \in Procs, n \in Blocks : Has(q, n)' <=> Has(q, n)
    BY <2>1, <2>3, <2>4, <2>5 DEF Has
  <2>7. ASSUME NEW m \in Blocks \ {drive.blockno} PROVE val'[m] = val[m]
    <3>1. \A c \in Bufs : buf[c].blockno = m \/ buf'[c].blockno = m => c # b /\ buf'[c] = buf[c]
      BY <1>2, <2>2, <2>4
    <3>2. CASE \E c \in Bufs : buf[c].blockno = m /\ buf[c].dirty
      BY <3>1, <3>2, Mapping, MappingNext DEF ValIs
    <3>3. CASE \A c \in Bufs : ~(buf[c].blockno = m /\ buf[c].dirty)
      BY <2>1, <3>1, <3>3, Mapping, MappingNext DEF ValIs
    <3> QED BY <3>2, <3>3
  <2>8. val'[drive.blockno] = disk[drive.blockno]
    <3>1. \A c \in Bufs : ~(buf'[c].blockno = drive.blockno /\ buf'[c].dirty)
      BY <1>6, <2>2, <2>4
    <3> QED BY <1>4, <2>1, <3>1, MappingNext DEF ValIs
  <2>9. val[drive.blockno] = disk[drive.blockno]
    <3>1. CASE buf[b].dirty
      BY <1>1, <1>2, <1>4, <2>1, <3>1, Mapping DEF ValIs
    <3>2. CASE ~buf[b].dirty
      BY <1>4, <1>6, <3>2, Mapping DEF ValIs
    <3> QED BY <3>1, <3>2
  <2> QED BY <1>5, <2>6, <2>7, <2>8, <2>9, SameHolder DEF Store!vars
<1> QED BY <1>7, <1>8

LEMMA RefinesNext ==
    ASSUME IInv, IInv', [Next]_vars
    PROVE  [Store!Next]_(Store!vars)
<1>1. CASE UNCHANGED vars
  <2>1. \A q \in Procs, n \in Blocks : Has(q, n)' <=> Has(q, n)
    BY <1>1 DEF Has, vars
  <2> QED BY <1>1, <2>1, SameHolder, SameVal DEF vars, Store!vars
<1>2. ASSUME NEW p \in Procs, Step(p) PROVE [Store!Next]_(Store!vars)
  BY <1>2, RefinesBget, RefinesAcquire, RefinesIoTest, RefinesUse, RefinesQuiet DEF Step
<1> QED BY <1>1, <1>2, RefinesDisk DEF Next

LEMMA RefinesInit == Init => Store!Init
<1> SUFFICES ASSUME Init PROVE Store!Init
  OBVIOUS
<1>1. IInv
  BY InitInv
<1>2. \A n \in Blocks : val[n] = disk[n] /\ holder[n] = NoProc
  BY <1>1, Mapping DEF ValIs, HolderIs, Has, Init, Unused
<1>3. val = [n \in Blocks |-> val[n]] /\ holder = [n \in Blocks |-> holder[n]]
  BY DEF val, holder
<1>4. disk \in [Blocks -> Vals]
  BY DEF Init
<1> QED BY <1>2, <1>3, <1>4 DEF Store!Init

\* "Only one process at a time can use a buffer" (bio.c:13), and it finds what
\* was written last: every behaviour of the cache, the sleep locks and the
\* driver is one of BlockStore.
THEOREM BioImplementsBlockStore == Spec => ImplementsBlockStore
<1>1. IInv /\ IInv' /\ [Next]_vars => [Store!Next]_(Store!vars)
  BY RefinesNext
<1> QED BY RefinesInit, <1>1, BioInvariant, PTL DEF Spec, ImplementsBlockStore, Store!Spec
====
