----------------------------- MODULE PipeProofs -----------------------------
(***************************************************************************)
(* The safety properties of module Pipe for any number of readers and      *)
(* writers, any size of the ring and any width of its counters: IInv is    *)
(* preserved by every action, and under it every action is a step of Fifo  *)
(* or none.                                                                *)
(***************************************************************************)
EXTENDS Pipe, SequenceTheorems, TLAPS

----------------------------------------------------------------------------
(* The inductive invariant *)

Slots == 0 .. PIPESIZE - 1
Uint == 0 .. UINTMOD - 1
Labels == {"user", "acquire", "loop", "full", "wake", "sleep", "block", "asleep", "close", "closed"}

TypeOK ==
    /\ data \in [Slots -> Bytes]
    /\ nread \in Uint /\ nwrite \in Uint
    /\ readopen \in BOOLEAN /\ writeopen \in BOOLEAN /\ freed \in BOOLEAN
    /\ lock \in Procs \cup {NoProc} /\ ptlock \in Procs \cup {NoProc}
    /\ pc \in [Procs -> Labels]
    /\ n \in [Procs -> Nat] /\ i \in [Procs -> Nat]
    /\ killed \in [Procs -> BOOLEAN]

\* Who holds which lock where.
Locks ==
    /\ \A p \in Procs : pc[p] \in {"loop", "full", "wake", "sleep"} <=> lock = p
    /\ \A p \in Procs : pc[p] = "block" <=> ptlock = p
    /\ \A p \in Procs : pc[p] = "full" => p \in Writers
    /\ \A p \in Procs : pc[p] = "wake" => p \in Readers

\* A side is closed by its last process.
Closing ==
    /\ \A p \in Procs : pc[p] = "close" => LastOf(p)
    /\ ~readopen => \A p \in Readers : pc[p] = "closed"
    /\ ~writeopen => \A p \in Writers : pc[p] = "closed"
    /\ freed => ~readopen /\ ~writeopen

\* A reader that sleeps or is about to has nothing to read, or a writer is in
\* the middle of a call at whose end it wakes the readers.
ReadersSleep ==
    \A r \in Readers : pc[r] \in {"sleep", "block", "asleep"} =>
        /\ writeopen
        /\ Empty \/ WriterKilled \/ \E w \in Writers : lock = w /\ pc[w] \in {"loop", "full"}

\* And the same for writers.
WritersSleep ==
    \A w \in Writers : pc[w] \in {"full", "sleep", "block", "asleep"} =>
        /\ readopen
        /\ Full \/ \E r \in Readers : lock = r /\ pc[r] = "wake"

\* No more than PIPESIZE bytes are under way, and a write does not pass its end.
Filled ==
    /\ Count <= PIPESIZE
    /\ \A p \in Procs : i[p] <= n[p]

IInv == TypeOK /\ Locks /\ Closing /\ ReadersSleep /\ WritersSleep /\ Filled
----------------------------------------------------------------------------
(* Arithmetic of the counters *)

LEMMA Times ==
    ASSUME NEW m \in Nat \ {0}, NEW d \in Nat \ {0}
    PROVE  m * d >= m
OBVIOUS
LEMMA DivMod ==
    ASSUME NEW m \in Nat \ {0}, NEW a \in Int
    PROVE  a % m \in 0 .. m - 1 /\ a \div m \in Int /\ a = m * (a \div m) + (a % m)
OBVIOUS
LEMMA Small1 ==
    ASSUME NEW m \in Nat \ {0}, NEW a \in 0 .. m - 1
    PROVE  a % m = a
OBVIOUS
LEMMA Small2 ==
    ASSUME NEW m \in Nat \ {0}, NEW a \in m .. 2 * m - 1
    PROVE  a % m = a - m
OBVIOUS
LEMMA ModUnique ==
    ASSUME NEW m \in Nat \ {0}, NEW a \in Int, NEW q \in Int, NEW r \in 0 .. m - 1, a = m * q + r
    PROVE  a % m = r
<1> DEFINE u == a \div m  s == a % m
<1>1. s \in 0 .. m - 1 /\ u \in Int /\ a = m * u + s
  BY DivMod
<1> HIDE DEF u, s
<1>2. m * (q - u) = s - r
  BY <1>1
<1>3. CASE q - u >= 1
  <2>1. m * (q - u) >= m
    BY <1>1, <1>3, Times
  <2> QED BY <1>1, <1>2, <2>1
<1>4. CASE u - q >= 1
  <2>1. m * (u - q) >= m
    BY <1>1, <1>4, Times
  <2>2. m * (u - q) = r - s
    BY <1>1
  <2> QED BY <1>1, <2>1, <2>2
<1>5. CASE q = u
  BY <1>1, <1>5 DEF s
<1> QED BY <1>1, <1>3, <1>4, <1>5

LEMMA ModMod ==
    ASSUME NEW m \in Nat \ {0}, NEW k \in Nat \ {0}, m % k = 0, NEW a \in Int
    PROVE  (a % m) % k = a % k
<1> DEFINE u == a \div m  s == a % m  c == m \div k  v == s \div k  t == s % k
<1>1. s \in 0 .. m - 1 /\ u \in Int /\ a = m * u + s
  BY DivMod
<1>2. c \in Int /\ m = k * c
  BY DivMod
<1>3. t \in 0 .. k - 1 /\ v \in Int /\ s = k * v + t
  BY <1>1, DivMod
<1> HIDE DEF u, s, c, v, t
<1>4. a = k * (c * u + v) + t
  BY <1>1, <1>2, <1>3
<1>5. a % k = t
  BY <1>1, <1>2, <1>3, <1>4, ModUnique
<1> QED BY <1>5 DEF s, t

LEMMA ModDistinct ==
    ASSUME NEW m \in Nat \ {0}, NEW a \in Int, NEW b \in Int, a % m = b % m, a - b < m, b - a < m
    PROVE  a = b
<1> DEFINE u == a \div m  s == a % m  v == b \div m
<1>1. s \in 0 .. m - 1 /\ u \in Int /\ a = m * u + s
  BY DivMod
<1>2. v \in Int /\ b = m * v + s
  BY DivMod
<1> HIDE DEF u, s, v
<1>3. a - b = m * (u - v) /\ b - a = m * (v - u)
  BY <1>1, <1>2
<1>4. CASE u - v >= 1
  BY <1>1, <1>2, <1>3, <1>4, Times
<1>5. CASE v - u >= 1
  BY <1>1, <1>2, <1>3, <1>5, Times
<1>6. CASE u = v
  BY <1>1, <1>2, <1>6
<1> QED BY <1>1, <1>2, <1>4, <1>5, <1>6

\* A sum or a difference of two counters wraps around once.
LEMMA Wraps ==
    ASSUME NEW a \in 0 .. 2 * UINTMOD - 1
    PROVE  a % UINTMOD = IF a < UINTMOD THEN a ELSE a - UINTMOD
<1>1. UINTMOD \in Nat \ {0} /\ a \in Int
  BY PipeAssumption
<1>2. CASE a < UINTMOD
  <2>1. a \in 0 .. UINTMOD - 1
    BY <1>1, <1>2
  <2> QED BY <1>1, <1>2, <2>1, Small1
<1>3. CASE ~(a < UINTMOD)
  <2>1. a \in UINTMOD .. 2 * UINTMOD - 1
    BY <1>1, <1>3
  <2> QED BY <1>1, <1>3, <2>1, Small2
<1> QED BY <1>2, <1>3

\* The arithmetic of uint for two counters, and for a counter and a number.
LEMMA Minus ==
    ASSUME NEW a \in Uint, NEW b \in Uint
    PROVE  (a - b + UINTMOD) % UINTMOD = IF a >= b THEN a - b ELSE a - b + UINTMOD
<1>1. UINTMOD \in Nat \ {0}
  BY PipeAssumption
<1> DEFINE x == a - b + UINTMOD
<1>2. x \in 0 .. 2 * UINTMOD - 1
  BY <1>1 DEF Uint
<1> HIDE DEF x
<1>3. x % UINTMOD = IF x < UINTMOD THEN x ELSE x - UINTMOD
  BY <1>2, Wraps
<1>4. x % UINTMOD = IF a >= b THEN a - b ELSE a - b + UINTMOD
  BY <1>1, <1>3 DEF Uint, x
<1> QED BY <1>4 DEF x

LEMMA Sum ==
    ASSUME NEW a \in Uint, NEW k \in 0 .. UINTMOD - 1
    PROVE  Plus(a, k) = IF a + k < UINTMOD THEN a + k ELSE a + k - UINTMOD
<1> DEFINE x == a + k
<1>1. x \in 0 .. 2 * UINTMOD - 1
  BY PipeAssumption DEF Uint
<1> HIDE DEF x
<1>2. x % UINTMOD = IF x < UINTMOD THEN x ELSE x - UINTMOD
  BY <1>1, Wraps
<1>3. Plus(a, k) = x % UINTMOD
  BY Zenon DEF Plus, x
<1>4. Plus(a, k) = IF x < UINTMOD THEN x ELSE x - UINTMOD
  BY <1>2, <1>3
<1> QED BY <1>4, PipeAssumption DEF x, Uint

\* What the counters say: nread and nwrite wrap around, Count does not.
LEMMA Counting ==
    ASSUME TypeOK
    PROVE  /\ Count = IF nwrite >= nread THEN nwrite - nread ELSE nwrite - nread + UINTMOD
           /\ Count \in Uint
           /\ Empty <=> Count = 0
           /\ Full <=> Count = PIPESIZE
<1>1. Count = IF nwrite >= nread THEN nwrite - nread ELSE nwrite - nread + UINTMOD
  BY Minus DEF TypeOK, Count
<1>2. Count \in Uint
  BY <1>1, PipeAssumption DEF TypeOK, Uint
<1>3. Plus(nread, PIPESIZE) = IF nread + PIPESIZE < UINTMOD THEN nread + PIPESIZE
                              ELSE nread + PIPESIZE - UINTMOD
  <2>1. PIPESIZE \in 0 .. UINTMOD - 1
    BY PipeAssumption
  <2> QED BY <2>1, Sum DEF TypeOK
<1>4. Empty <=> Count = 0
  BY <1>1, PipeAssumption DEF Empty, TypeOK, Uint
<1>5. Full <=> Count = PIPESIZE
  BY <1>1, <1>3, PipeAssumption DEF Full, TypeOK, Uint
<1> QED BY <1>1, <1>2, <1>4, <1>5

\* k more bytes, and k bytes less.
LEMMA Adds ==
    ASSUME TypeOK, NEW k \in Nat, Count + k <= PIPESIZE,
           nwrite' = Plus(nwrite, k), nread' = nread
    PROVE  nwrite' \in Uint /\ Count' = Count + k
<1>1. Count \in Uint /\ Count = IF nwrite >= nread THEN nwrite - nread ELSE nwrite - nread + UINTMOD
  BY Counting
<1>2. k \in 0 .. UINTMOD - 1
  BY <1>1, PipeAssumption DEF Uint
<1>3. nwrite' = IF nwrite + k < UINTMOD THEN nwrite + k ELSE nwrite + k - UINTMOD
  BY <1>2, Sum DEF TypeOK
<1>4. nwrite' \in Uint
  BY <1>2, <1>3, PipeAssumption DEF Uint, TypeOK
<1>5. Count' = IF nwrite' >= nread THEN nwrite' - nread ELSE nwrite' - nread + UINTMOD
  BY <1>4, Minus DEF Count, TypeOK
<1> QED BY <1>1, <1>2, <1>3, <1>4, <1>5, PipeAssumption DEF TypeOK, Uint

LEMMA Removes ==
    ASSUME TypeOK, NEW k \in Nat, k <= Count, nread' = Plus(nread, k), nwrite' = nwrite
    PROVE  nread' \in Uint /\ Count' = Count - k
<1>1. Count \in Uint /\ Count = IF nwrite >= nread THEN nwrite - nread ELSE nwrite - nread + UINTMOD
  BY Counting
<1>2. k \in 0 .. UINTMOD - 1
  BY <1>1, PipeAssumption DEF Uint
<1>3. nread' = IF nread + k < UINTMOD THEN nread + k ELSE nread + k - UINTMOD
  BY <1>2, Sum DEF TypeOK
<1>4. nread' \in Uint
  BY <1>2, <1>3, PipeAssumption DEF Uint, TypeOK
<1>5. Count' = IF nwrite >= nread' THEN nwrite - nread' ELSE nwrite - nread' + UINTMOD
  BY <1>4, Minus DEF Count, TypeOK
<1> QED BY <1>1, <1>2, <1>3, <1>4, <1>5, PipeAssumption DEF TypeOK, Uint

\* What pipewrite stores fits.
LEMMA RoomFits ==
    ASSUME IInv, NEW p \in Writers, i[p] < n[p], ~Full
    PROVE  /\ Room(p) \in Nat \ {0} /\ Count + Room(p) <= PIPESIZE
           /\ i[p] + Room(p) <= n[p]
<1>1. Count \in Nat /\ Count < PIPESIZE
  BY Counting, PipeAssumption DEF IInv, Filled, Uint
<1>2. n[p] \in Nat /\ i[p] \in Nat
  BY DEF IInv, TypeOK, Procs
<1> QED BY <1>1, <1>2, PipeAssumption DEF Room

\* What it stores are bytes, at the slots from nwrite on.
LEMMA CopiedType ==
    ASSUME TypeOK, NEW m \in Nat, NEW s \in [1 .. m -> Bytes]
    PROVE  s \in Seq(Bytes) /\ Len(s) = m /\ Copied(s) \in [Slots -> Bytes]
<1>1. s \in Seq(Bytes) /\ Len(s) = m
  OBVIOUS
<1>2. ASSUME NEW k \in Slots PROVE Copied(s)[k] \in Bytes
  <2>1. Copied(s)[k] = IF \E j \in 1 .. m : Plus(nwrite, j - 1) % PIPESIZE = k
                       THEN s[CHOOSE j \in 1 .. m : Plus(nwrite, j - 1) % PIPESIZE = k]
                       ELSE data[k]
    BY <1>1 DEF Copied, Slots
  <2>2. CASE \E j \in 1 .. m : Plus(nwrite, j - 1) % PIPESIZE = k
    BY <2>1, <2>2
  <2>3. CASE ~\E j \in 1 .. m : Plus(nwrite, j - 1) % PIPESIZE = k
    BY <2>1, <2>3 DEF TypeOK
  <2> QED BY <2>2, <2>3
<1>3. Copied(s) = [k \in Slots |-> Copied(s)[k]]
  BY DEF Copied, Slots
<1> QED BY <1>1, <1>2, <1>3

----------------------------------------------------------------------------
(* One lemma per action *)

LEMMA InitInv == Init => IInv
<1> SUFFICES ASSUME Init PROVE IInv
  OBVIOUS
<1> USE PipeAssumption DEF Init
<1>1. TypeOK
  <2>1. PICK b \in Bytes : data = [k \in Slots |-> b]
    BY DEF Slots
  <2>2. 0 \in Uint
    BY DEF Uint
  <2> QED BY <2>1, <2>2 DEF TypeOK, Labels
<1>2. Locks /\ Closing /\ ReadersSleep /\ WritersSleep
  BY DEF Locks, Closing, ReadersSleep, WritersSleep, Procs
<1>3. Filled
  BY <1>1, Counting DEF Filled, Empty
<1> QED BY <1>1, <1>2, <1>3 DEF IInv

\* A step that closes nothing.
LEMMA ClosingKept ==
    ASSUME IInv, UNCHANGED ends,
           \A q \in Procs : /\ pc[q] = "closed" => pc'[q] = "closed"
                            /\ pc'[q] = "close" => pc[q] = "close"
    PROVE  Closing'
<1>1. \A q \in Procs : LastOf(q) => LastOf(q)'
  BY DEF LastOf, At, Side, Procs
<1> QED BY <1>1 DEF IInv, Closing, ends, Procs


\* A step that leaves the ring and the lock alone and puts nobody to sleep.
LEMMA NobodyElseSleeps ==
    ASSUME IInv, UNCHANGED <<ring, ends, lock>>,
           \A q \in Procs : killed[q] => killed'[q],
           \A q \in Procs : /\ pc'[q] \in {"sleep", "block", "asleep"} => pc[q] \in {"sleep", "block", "asleep"}
                            /\ pc'[q] = "full" => pc[q] = "full"
                            /\ pc[q] \in {"loop", "full", "wake"} => pc'[q] = pc[q]
    PROVE  ReadersSleep' /\ WritersSleep'
<1>1. Empty' = Empty /\ Full' = Full
  BY DEF Empty, Full, Plus, ring
<1>2. WriterKilled => WriterKilled'
  BY DEF WriterKilled, Procs
<1>3. ReadersSleep'
  BY <1>1, <1>2 DEF IInv, ReadersSleep, ends, Procs
<1>4. WritersSleep'
  BY <1>1 DEF IInv, WritersSleep, ends, Procs
<1> QED BY <1>3, <1>4

LEMMA CallStep ==
    ASSUME IInv, NEW p \in Procs, NEW len \in Lengths, Call(p, len)
    PROVE  IInv'
<1> USE DEF IInv
<1>1. /\ pc[p] = "user" /\ pc' = [pc EXCEPT ![p] = "acquire"]
      /\ n' = [n EXCEPT ![p] = len] /\ i' = [i EXCEPT ![p] = 0]
      /\ UNCHANGED <<ring, ends, lock, ptlock, killed>>
  BY DEF Call, At, Goto
<1>2. pc'[p] = "acquire" /\ \A q \in Procs \ {p} : pc'[q] = pc[q]
  BY <1>1 DEF TypeOK
<1>3. TypeOK'
  BY <1>1, PipeAssumption DEF TypeOK, ring, ends, Labels
<1>4. Locks'
  BY <1>1, <1>2 DEF Locks
<1>5. Closing'
  BY <1>1, <1>2, ClosingKept
<1>6. ReadersSleep' /\ WritersSleep'
  BY <1>1, <1>2, NobodyElseSleeps
<1>7. Filled'
  BY <1>1, PipeAssumption DEF Filled, TypeOK, Count, ring
<1> QED BY <1>3, <1>4, <1>5, <1>6, <1>7

\* acquire of pipe.lock
LEMMA AcquireStep ==
    ASSUME IInv, NEW p \in Procs, Acquire(p)
    PROVE  IInv'
<1> USE DEF IInv
<1>1. /\ pc[p] = "acquire" /\ pc' = [pc EXCEPT ![p] = "loop"]
      /\ lock = NoProc /\ lock' = p
      /\ UNCHANGED <<ring, ends, ptlock, n, i, killed>>
  BY DEF Acquire, At, Goto
<1>2. pc'[p] = "loop" /\ \A q \in Procs \ {p} : pc'[q] = pc[q]
  BY <1>1 DEF TypeOK
<1>3. TypeOK'
  BY <1>1 DEF TypeOK, ring, ends, Labels
<1>4. Locks'
  BY <1>1, <1>2, PipeAssumption DEF Locks
<1>5. Closing'
  BY <1>1, <1>2, ClosingKept
<1>6. Empty' = Empty /\ Full' = Full /\ WriterKilled' = WriterKilled /\ Count' = Count
  BY <1>1 DEF Empty, Full, Plus, WriterKilled, Count, ring
<1>7. ReadersSleep'
  BY <1>1, <1>2, <1>6, PipeAssumption DEF ReadersSleep, ends, Procs
<1>8. WritersSleep'
  BY <1>1, <1>2, <1>6, PipeAssumption DEF WritersSleep, ends, Procs
<1>9. Filled'
  BY <1>1, <1>6 DEF Filled
<1> QED BY <1>3, <1>4, <1>5, <1>7, <1>8, <1>9

\* A write stores bytes; no writer sleeps, and the readers that do will be woken.
LEMMA WriteBytesStep ==
    ASSUME IInv, NEW p \in Procs, WriteBytes(p)
    PROVE  IInv'
<1> USE DEF IInv
<1>1. /\ p \in Writers /\ pc[p] = "loop" /\ i[p] < n[p] /\ ~Full
      /\ nwrite' = Plus(nwrite, Room(p)) /\ i' = [i EXCEPT ![p] = @ + Room(p)]
      /\ UNCHANGED <<nread, ends, lock, ptlock, pc, n, killed>>
  BY DEF WriteBytes, At
<1>2. PICK s \in [1 .. Room(p) -> Bytes] : data' = Copied(s)
  BY DEF WriteBytes
<1>3. /\ Room(p) \in Nat \ {0} /\ Count + Room(p) <= PIPESIZE
      /\ i[p] + Room(p) <= n[p]
  BY <1>1, RoomFits
<1>4. nwrite' \in Uint /\ Count' = Count + Room(p)
  BY <1>1, <1>3, Adds
<1>5. data' \in [Slots -> Bytes]
  BY <1>2, <1>3, CopiedType
<1>6. TypeOK'
  BY <1>1, <1>3, <1>4, <1>5 DEF TypeOK, ends
<1>7. Locks'
  BY <1>1 DEF Locks
<1>8. Closing'
  BY <1>1, ClosingKept
<1>9. lock = p
  BY <1>1 DEF Locks
<1>10. ReadersSleep'
  BY <1>1, <1>9 DEF ReadersSleep, ends
<1>11. WritersSleep'
  BY <1>1, <1>9, PipeAssumption DEF WritersSleep, ends
<1>12. Filled'
  BY <1>1, <1>3, <1>4 DEF Filled, TypeOK
<1> QED BY <1>6, <1>7, <1>8, <1>10, <1>11, <1>12

\* A step that leaves the ring alone and at most returns from a call.
LEMMA FilledKept ==
    ASSUME IInv, UNCHANGED ring,
           \/ UNCHANGED <<n, i>>
           \/ \E p \in Procs : n' = [n EXCEPT ![p] = 0] /\ i' = [i EXCEPT ![p] = 0]
    PROVE  Filled' /\ Count' = Count /\ (Empty' <=> Empty) /\ (Full' <=> Full)
BY DEF IInv, Filled, TypeOK, Count, Empty, Full, Plus, ring

\* A call fails: the other side is gone, or the process was killed.
LEMMA FailsStep ==
    ASSUME IInv, NEW p \in Procs, WriteFails(p) \/ ReadFails(p)
    PROVE  IInv'
<1> USE DEF IInv
<1>1. /\ pc[p] = "loop" /\ pc' = [pc EXCEPT ![p] = "user"]
      /\ n' = [n EXCEPT ![p] = 0] /\ i' = [i EXCEPT ![p] = 0]
      /\ lock' = NoProc /\ UNCHANGED <<ring, ends, ptlock, killed>>
  BY DEF WriteFails, ReadFails, Return, At
<1>2. pc'[p] = "user" /\ \A q \in Procs \ {p} : pc'[q] = pc[q]
  BY <1>1 DEF TypeOK
<1>3. lock = p
  BY <1>1 DEF Locks
<1>4. TypeOK'
  BY <1>1 DEF TypeOK, ring, ends, Labels
<1>5. Locks'
  BY <1>1, <1>2, <1>3, PipeAssumption DEF Locks
<1>6. Closing'
  BY <1>1, <1>2, ClosingKept
<1>7. Filled' /\ (Empty' <=> Empty) /\ (Full' <=> Full) /\ WriterKilled' = WriterKilled
  BY <1>1, FilledKept DEF WriterKilled
<1>8. ReadersSleep'
  <2> SUFFICES ASSUME NEW r \in Readers, pc'[r] \in {"sleep", "block", "asleep"}
               PROVE  writeopen /\ (Empty \/ WriterKilled)
    BY <1>1, <1>7 DEF ReadersSleep, ends
  <2>1. pc[r] \in {"sleep", "block", "asleep"} /\ r \in Procs
    BY <1>2 DEF Procs
  <2>2. CASE WriteFails(p)
    BY <2>1, <2>2 DEF WriteFails, WriterKilled, Closing, ReadersSleep, Procs
  <2>3. CASE ReadFails(p)
    BY <2>1, <2>3 DEF ReadFails, ReadersSleep
  <2> QED BY <2>2, <2>3
<1>9. WritersSleep'
  <2> SUFFICES ASSUME NEW w \in Writers, pc'[w] \in {"full", "sleep", "block", "asleep"}
               PROVE  readopen /\ Full
    BY <1>1, <1>7 DEF WritersSleep, ends
  <2>1. pc[w] \in {"full", "sleep", "block", "asleep"}
    BY <1>2 DEF Procs
  <2> QED BY <1>1, <1>3, <2>1 DEF WritersSleep
<1> QED BY <1>4, <1>5, <1>6, <1>7, <1>8, <1>9

\* The ring is full and may still be read, or empty and may still be written.
LEMMA WaitStep ==
    ASSUME IInv, NEW p \in Procs, WriteFull(p) \/ ReadEmpty(p)
    PROVE  IInv'
<1> USE DEF IInv
<1>1. /\ pc[p] = "loop" /\ UNCHANGED <<ring, ends, lock, ptlock, n, i, killed>>
      /\ \/ pc' = [pc EXCEPT ![p] = "full"] /\ p \in Writers /\ Full /\ readopen
         \/ pc' = [pc EXCEPT ![p] = "sleep"] /\ p \in Readers /\ Empty /\ writeopen
  BY DEF WriteFull, ReadEmpty, Goto, At
<1>2. /\ \A q \in Procs \ {p} : pc'[q] = pc[q]
      /\ \/ pc'[p] = "full" /\ p \in Writers /\ Full /\ readopen
         \/ pc'[p] = "sleep" /\ p \in Readers /\ Empty /\ writeopen
  BY <1>1 DEF TypeOK
<1>3. lock = p
  BY <1>1 DEF Locks
<1>4. TypeOK'
  BY <1>1 DEF TypeOK, ring, ends, Labels
<1>5. Locks'
  BY <1>1, <1>2, <1>3 DEF Locks
<1>6. Closing'
  BY <1>1, <1>2, ClosingKept
<1>7. Filled' /\ (Empty' <=> Empty) /\ (Full' <=> Full) /\ WriterKilled' = WriterKilled
  BY <1>1, FilledKept DEF WriterKilled
<1>8. ReadersSleep'
  BY <1>1, <1>2, <1>3, <1>7, PipeAssumption DEF ReadersSleep, ends, Procs
<1>9. WritersSleep'
  BY <1>1, <1>2, <1>3, <1>7, PipeAssumption DEF WritersSleep, ends, Procs
<1> QED BY <1>4, <1>5, <1>6, <1>7, <1>8, <1>9

\* A writer that is about to sleep wakes the readers: nobody is between the test
\* of the loop and its sleep, since that takes ptable.lock or pipe.lock.
LEMMA WakeReadersStep ==
    ASSUME IInv, NEW p \in Procs, WakeReaders(p)
    PROVE  IInv'
<1> USE DEF IInv
<1>1. /\ pc[p] = "full" /\ ptlock = NoProc /\ p \in Writers /\ lock = p
      /\ UNCHANGED <<ring, ends, lock, ptlock, n, i, killed>>
  BY DEF WakeReaders, At, Locks
<1>2. /\ pc'[p] = "sleep"
      /\ \A q \in Procs \ {p} : pc'[q] = IF q \in Readers /\ pc[q] = "asleep" THEN "acquire" ELSE pc[q]
  BY <1>1, PipeAssumption DEF WakeReaders, Woken, TypeOK
<1>3. TypeOK'
  <2>1. pc' = [q \in Procs |-> pc'[q]]
    BY DEF WakeReaders, Woken
  <2>2. \A q \in Procs : pc'[q] \in Labels
    BY <1>2 DEF TypeOK, Labels
  <2>3. pc' \in [Procs -> Labels]
    BY <2>1, <2>2
  <2> QED BY <1>1, <2>3 DEF TypeOK, ring, ends
<1>4. Locks'
  BY <1>1, <1>2 DEF Locks
<1>5. Closing'
  BY <1>1, <1>2, ClosingKept
<1>6. Filled' /\ (Empty' <=> Empty) /\ (Full' <=> Full)
  BY <1>1, FilledKept
<1>7. ReadersSleep'
  <2>1. \A r \in Readers : pc'[r] \notin {"sleep", "block", "asleep"}
    BY <1>1, <1>2, PipeAssumption DEF Locks, Procs
  <2> QED BY <2>1 DEF ReadersSleep
<1>8. WritersSleep'
  BY <1>1, <1>2, <1>6, PipeAssumption DEF WritersSleep, ends, Procs
<1> QED BY <1>3, <1>4, <1>5, <1>6, <1>7, <1>8

\* The end of a call wakes the other side.
LEMMA DoneStep ==
    ASSUME IInv, NEW p \in Procs, WriteDone(p) \/ ReadDone(p)
    PROVE  IInv'
<1> USE DEF IInv
<1> DEFINE other == IF p \in Readers THEN Writers ELSE Readers
<1>1. /\ pc[p] = IF p \in Readers THEN "wake" ELSE "loop"
      /\ ptlock = NoProc /\ lock = p /\ lock' = NoProc
      /\ pc' = [Woken(other, pc) EXCEPT ![p] = "user"]
      /\ n' = [n EXCEPT ![p] = 0] /\ i' = [i EXCEPT ![p] = 0]
      /\ UNCHANGED <<ring, ends, ptlock, killed>>
  BY PipeAssumption DEF WriteDone, ReadDone, Return, At, Locks
<1> HIDE DEF other
<1>2. /\ pc'[p] = "user"
      /\ \A q \in Procs \ {p} : pc'[q] = IF q \in other /\ pc[q] = "asleep" THEN "acquire" ELSE pc[q]
  BY <1>1 DEF Woken
<1>3. TypeOK'
  <2>1. pc' = [q \in Procs |-> pc'[q]]
    BY <1>1 DEF Woken
  <2>2. \A q \in Procs : pc'[q] \in Labels
    BY <1>2 DEF TypeOK, Labels
  <2>3. pc' \in [Procs -> Labels]
    BY <2>1, <2>2
  <2> QED BY <1>1, <2>3 DEF TypeOK, ring, ends
<1>4. Locks'
  BY <1>1, <1>2, PipeAssumption DEF Locks
<1>5. Closing'
  BY <1>1, <1>2, ClosingKept
<1>6. Filled' /\ (Empty' <=> Empty) /\ (Full' <=> Full) /\ WriterKilled' = WriterKilled
  BY <1>1, FilledKept DEF WriterKilled
<1>7. \A q \in other : pc'[q] \notin {"full", "sleep", "block", "asleep"}
  <2>1. \A q \in other : q \in Procs \ {p} /\ pc[q] \notin {"full", "sleep", "block"}
    BY <1>1, PipeAssumption DEF Locks, Procs, other
  <2> QED BY <1>2, <2>1
<1>8. ReadersSleep'
  <2>1. CASE p \in Readers
    BY <1>1, <1>2, <1>6, <2>1, PipeAssumption DEF ReadersSleep, ends, Procs, other
  <2>2. CASE p \notin Readers
    BY <1>7, <2>2 DEF ReadersSleep, other
  <2> QED BY <2>1, <2>2
<1>9. WritersSleep'
  <2>1. CASE p \in Readers
    BY <1>7, <2>1 DEF WritersSleep, other
  <2>2. CASE p \notin Readers
    BY <1>1, <1>2, <1>6, <2>2, PipeAssumption DEF WritersSleep, ends, Procs, other
  <2> QED BY <2>1, <2>2
<1> QED BY <1>3, <1>4, <1>5, <1>6, <1>8, <1>9

\* How many bytes piperead takes.
LEMMA TakenFits ==
    ASSUME IInv, NEW p \in Procs
    PROVE  LET m == IF n[p] < Count THEN n[p] ELSE Count
           IN  m \in Nat /\ m <= Count /\ m <= n[p] /\ Count \in Nat
<1>1. Count \in Nat /\ n[p] \in Nat
  BY Counting, PipeAssumption DEF IInv, TypeOK, Uint
<1> QED BY <1>1

\* A read takes bytes; the writers that sleep will be woken.
LEMMA ReadBytesStep ==
    ASSUME IInv, NEW p \in Procs, ReadBytes(p)
    PROVE  IInv'
<1> USE DEF IInv
<1> DEFINE m == IF n[p] < Count THEN n[p] ELSE Count
<1>1. /\ p \in Readers /\ pc[p] = "loop" /\ lock = p
      /\ nread' = Plus(nread, m) /\ i' = [i EXCEPT ![p] = m] /\ pc' = [pc EXCEPT ![p] = "wake"]
      /\ UNCHANGED <<data, nwrite, ends, lock, ptlock, n, killed>>
  BY DEF ReadBytes, At, Goto, Locks
<1>2. ~Empty \/ ~writeopen
  BY DEF ReadBytes
<1>3. m \in Nat /\ m <= Count /\ m <= n[p] /\ Count \in Nat
  BY TakenFits
<1> HIDE DEF m
<1>4. nread' \in Uint /\ Count' = Count - m
  BY <1>1, <1>3, Removes
<1>5. pc'[p] = "wake" /\ \A q \in Procs \ {p} : pc'[q] = pc[q]
  BY <1>1 DEF TypeOK
<1>6. TypeOK'
  BY <1>1, <1>3, <1>4 DEF TypeOK, ends, Labels
<1>7. Locks'
  BY <1>1, <1>5 DEF Locks
<1>8. Closing'
  BY <1>1, <1>5, ClosingKept
<1>9. ReadersSleep'
  <2> SUFFICES ASSUME NEW r \in Readers, pc'[r] \in {"sleep", "block", "asleep"}
               PROVE  writeopen' /\ WriterKilled'
    BY DEF ReadersSleep
  <2>1. pc[r] \in {"sleep", "block", "asleep"}
    BY <1>5 DEF Procs
  <2>2. writeopen /\ WriterKilled
    BY <1>1, <1>2, <2>1, PipeAssumption DEF ReadersSleep
  <2> QED BY <1>1, <2>2 DEF WriterKilled, ends
<1>10. WritersSleep'
  BY <1>1, <1>5, PipeAssumption DEF WritersSleep, ends, Procs
<1>11. Filled'
  BY <1>1, <1>3, <1>4, PipeAssumption DEF Filled, TypeOK
<1> QED BY <1>6, <1>7, <1>8, <1>9, <1>10, <1>11

\* sleep: ptable.lock is taken before pipe.lock is released ...
LEMMA SleepStep ==
    ASSUME IInv, NEW p \in Procs, Sleep(p)
    PROVE  IInv'
<1> USE DEF IInv
<1>1. /\ pc[p] = "sleep" /\ lock = p /\ ptlock = NoProc /\ ptlock' = p /\ lock' = NoProc
      /\ pc' = [pc EXCEPT ![p] = "block"] /\ UNCHANGED <<ring, ends, n, i, killed>>
  BY DEF Sleep, SleepLocks, At, Goto, Locks
<1>2. pc'[p] = "block" /\ \A q \in Procs \ {p} : pc'[q] = pc[q]
  BY <1>1 DEF TypeOK
<1>3. TypeOK'
  BY <1>1 DEF TypeOK, ring, ends, Labels
<1>4. Locks'
  BY <1>1, <1>2, PipeAssumption DEF Locks
<1>5. Closing'
  BY <1>1, <1>2, ClosingKept
<1>6. Filled' /\ (Empty' <=> Empty) /\ (Full' <=> Full) /\ WriterKilled' = WriterKilled
  BY <1>1, FilledKept DEF WriterKilled
<1>7. ReadersSleep'
  BY <1>1, <1>2, <1>6 DEF ReadersSleep, ends, Procs
<1>8. WritersSleep'
  BY <1>1, <1>2, <1>6 DEF WritersSleep, ends, Procs
<1> QED BY <1>3, <1>4, <1>5, <1>6, <1>7, <1>8

\* ... and released when the process is SLEEPING.
LEMMA BlockStep ==
    ASSUME IInv, NEW p \in Procs, Block(p)
    PROVE  IInv'
<1> USE DEF IInv
<1>1. /\ pc[p] = "block" /\ ptlock = p /\ ptlock' = NoProc
      /\ pc' = [pc EXCEPT ![p] = "asleep"] /\ UNCHANGED <<ring, ends, lock, n, i, killed>>
  BY DEF Block, At, Goto, Locks
<1>2. pc'[p] = "asleep" /\ \A q \in Procs \ {p} : pc'[q] = pc[q]
  BY <1>1 DEF TypeOK
<1>3. TypeOK'
  BY <1>1 DEF TypeOK, ring, ends, Labels
<1>4. Locks'
  BY <1>1, <1>2, PipeAssumption DEF Locks
<1>5. Closing'
  BY <1>1, <1>2, ClosingKept
<1>6. Filled'
  BY <1>1, FilledKept
<1>7. ReadersSleep' /\ WritersSleep'
  BY <1>1, <1>2, NobodyElseSleeps
<1> QED BY <1>3, <1>4, <1>5, <1>6, <1>7

\* kill wakes its victim.
LEMMA KillStep ==
    ASSUME IInv, NEW p \in Procs, Kill(p)
    PROVE  IInv'
<1> USE DEF IInv
<1>1. /\ killed' = [killed EXCEPT ![p] = TRUE]
      /\ pc' = IF pc[p] = "asleep" THEN [pc EXCEPT ![p] = "acquire"] ELSE pc
      /\ UNCHANGED <<ring, ends, lock, ptlock, n, i>>
  BY DEF Kill, At
<1>2. \A q \in Procs : pc'[q] = pc[q] \/ (pc[q] = "asleep" /\ pc'[q] = "acquire")
  BY <1>1 DEF TypeOK
<1>3. TypeOK'
  BY <1>1 DEF TypeOK, ring, ends, Labels
<1>4. Locks'
  BY <1>1, <1>2 DEF Locks
<1>5. Closing'
  BY <1>1, <1>2, ClosingKept
<1>6. Filled'
  BY <1>1, FilledKept
<1>7. \A q \in Procs : killed[q] => killed'[q]
  BY <1>1 DEF TypeOK
<1>8. ReadersSleep' /\ WritersSleep'
  BY <1>1, <1>2, <1>7, NobodyElseSleeps
<1> QED BY <1>3, <1>4, <1>5, <1>6, <1>8

\* fileclose
LEMMA CloseFdStep ==
    ASSUME IInv, NEW p \in Procs, CloseFd(p)
    PROVE  IInv'
<1> USE DEF IInv
<1>1. /\ pc[p] = "user" /\ pc' = [pc EXCEPT ![p] = IF LastOf(p) THEN "close" ELSE "closed"]
      /\ UNCHANGED <<ring, ends, lock, ptlock, n, i, killed>>
  BY DEF CloseFd, At, Goto
<1>2. /\ pc'[p] = IF LastOf(p) THEN "close" ELSE "closed"
      /\ \A q \in Procs \ {p} : pc'[q] = pc[q]
  BY <1>1 DEF TypeOK
<1>3. TypeOK'
  BY <1>1 DEF TypeOK, ring, ends, Labels
<1>4. Locks'
  BY <1>1, <1>2 DEF Locks
<1>5. Closing'
  <2>1. \A q \in Procs : LastOf(q) => LastOf(q)'
    BY <1>1, <1>2 DEF LastOf, At, Side, Procs
  <2>2. \A q \in Procs : pc'[q] = "close" => LastOf(q)'
    BY <1>2, <2>1 DEF Closing
  <2>3. \A q \in Procs : pc[q] = "closed" => pc'[q] = "closed"
    BY <1>1, <1>2
  <2> QED BY <1>1, <2>2, <2>3 DEF Closing, ends, Procs
<1>6. Filled'
  BY <1>1, FilledKept
<1>7. ReadersSleep' /\ WritersSleep'
  BY <1>1, <1>2, NobodyElseSleeps
<1> QED BY <1>3, <1>4, <1>5, <1>6, <1>7

\* pipeclose wakes the other side and frees the page when that has closed.
LEMMA PipeCloseStep ==
    ASSUME IInv, NEW p \in Procs, PipeClose(p)
    PROVE  IInv'
<1> USE DEF IInv
<1>1. /\ pc[p] = "close" /\ lock = NoProc /\ ptlock = NoProc
      /\ readopen' = (readopen /\ p \notin Readers)
      /\ writeopen' = (writeopen /\ p \notin Writers)
      /\ freed' = (~readopen' /\ ~writeopen')
      /\ UNCHANGED <<ring, lock, ptlock, n, i, killed>>
  BY DEF PipeClose, At
<1>2. /\ pc'[p] = "closed"
      /\ \A q \in Procs \ {p} : pc'[q] = IF q \notin Side(p) /\ pc[q] = "asleep" THEN "acquire" ELSE pc[q]
      /\ pc' = [q \in Procs |-> pc'[q]]
  BY DEF PipeClose, Woken, TypeOK
<1>3. TypeOK'
  <2>1. \A q \in Procs : pc'[q] \in Labels
    BY <1>2 DEF TypeOK, Labels
  <2>2. pc' \in [Procs -> Labels]
    BY <1>2, <2>1
  <2>3. readopen' \in BOOLEAN /\ writeopen' \in BOOLEAN /\ freed' \in BOOLEAN
    BY <1>1
  <2> QED BY <1>1, <2>2, <2>3 DEF TypeOK, ring
<1>4. Locks'
  BY <1>1, <1>2 DEF Locks
<1>5. \A q \in Side(p) \ {p} : pc[q] = "closed" /\ q \in Procs
  BY <1>1 DEF Closing, LastOf, At, Side, Procs
<1>6. Closing'
  <2>1. \A q \in Procs : pc[q] = "closed" => pc'[q] = "closed"
    BY <1>2
  <2>2. \A q \in Procs : pc'[q] = "close" => pc[q] = "close"
    BY <1>2
  <2>3. \A q \in Procs : LastOf(q) => LastOf(q)'
    BY <2>1 DEF LastOf, At, Side, Procs
  <2>4. \A q \in Side(p) : pc'[q] = "closed"
    BY <1>2, <1>5, <2>1
  <2>5. ~readopen' => \A q \in Readers : pc'[q] = "closed"
    BY <1>1, <2>1, <2>4 DEF Closing, Side, Procs
  <2>6. ~writeopen' => \A q \in Writers : pc'[q] = "closed"
    BY <1>1, <2>1, <2>4, PipeAssumption DEF Closing, Side, Procs
  <2> QED BY <1>1, <2>2, <2>3, <2>5, <2>6 DEF Closing
<1>7. Filled' /\ (Empty' <=> Empty) /\ (Full' <=> Full) /\ WriterKilled' = WriterKilled
  BY <1>1, FilledKept DEF WriterKilled
<1>8. \A q \in Procs : pc'[q] \in {"full", "sleep", "block", "asleep"} => pc'[q] = pc[q] /\ q \in Side(p)
  <2>1. \A q \in Procs : pc[q] \notin {"full", "sleep", "block"}
    BY <1>1, PipeAssumption DEF Locks
  <2> QED BY <1>2, <2>1
<1>9. \A q \in Procs : pc'[q] \notin {"full", "sleep", "block", "asleep"}
  BY <1>2, <1>5, <1>8
<1>10. ReadersSleep' /\ WritersSleep'
  BY <1>9 DEF ReadersSleep, WritersSleep, Procs
<1> QED BY <1>3, <1>4, <1>6, <1>7, <1>10

LEMMA NextInv == IInv /\ [Next]_vars => IInv'
<1> SUFFICES ASSUME IInv, [Next]_vars PROVE IInv'
  OBVIOUS
<1>1. CASE UNCHANGED vars
  <2>1. TypeOK' /\ Locks'
    BY <1>1 DEF IInv, TypeOK, Locks, vars
  <2>2. Closing'
    BY <1>1, ClosingKept DEF vars, ends
  <2>3. ReadersSleep' /\ WritersSleep'
    BY <1>1, NobodyElseSleeps DEF vars, ring, ends
  <2>4. Filled'
    BY <1>1, FilledKept DEF vars, ring
  <2> QED BY <2>1, <2>2, <2>3, <2>4 DEF IInv
<1>2. ASSUME NEW p \in Procs, Inside(p) PROVE IInv'
  BY <1>2, AcquireStep, WriteBytesStep, FailsStep, WaitStep, WakeReadersStep, DoneStep,
     ReadBytesStep, SleepStep, BlockStep, PipeCloseStep DEF Inside
<1> QED BY <1>1, <1>2, CallStep, KillStep, CloseFdStep DEF Next, AllClosed

----------------------------------------------------------------------------
(* What follows from it *)

\* The locks, the ends, the ring and the sleepers agree with each other in
\* every reachable state (pipe.c, proc.c:430-468).
THEOREM PipeInvariant == Spec => []IInv
BY InitInv, NextInv, PTL DEF Spec

\* No wakeup is lost between the test of the loop and the sleep (proc.c:451-460).
THEOREM PipeNoLostWakeup == Spec => []NoLostWakeup
<1>1. IInv => NoLostWakeup
  <2> SUFFICES ASSUME IInv, lock = NoProc
               PROVE  /\ \A p \in Readers : At(p, "asleep") => writeopen /\ (Empty \/ WriterKilled)
                      /\ \A p \in Writers : At(p, "asleep") => Full /\ readopen
    BY DEF NoLostWakeup
  <2>1. \A p \in Readers : At(p, "asleep") => writeopen /\ (Empty \/ WriterKilled)
    BY PipeAssumption DEF IInv, ReadersSleep, At, Procs
  <2>2. \A p \in Writers : At(p, "asleep") => Full /\ readopen
    BY PipeAssumption DEF IInv, WritersSleep, At, Procs
  <2> QED BY <2>1, <2>2
<1> QED BY <1>1, PipeInvariant, PTL

\* pipeclose frees the page only when every process has closed it (pipe.c:66-71).
THEOREM PipeNoUseAfterFree == Spec => []NoUseAfterFree
<1>1. IInv => NoUseAfterFree
  BY DEF IInv, Closing, NoUseAfterFree, At, Procs
<1> QED BY <1>1, PipeInvariant, PTL

----------------------------------------------------------------------------
(* The refinement of Fifo *)

\* UINTMOD is a multiple of PIPESIZE: to wrap a counter does not move its slot.
LEMMA WrapKeepsSlot ==
    ASSUME NEW a \in Int
    PROVE  /\ (a % UINTMOD) % PIPESIZE = a % PIPESIZE
           /\ (a - UINTMOD) % PIPESIZE = a % PIPESIZE
           /\ a % PIPESIZE \in Slots
<1>1. UINTMOD \in Nat \ {0} /\ PIPESIZE \in Nat \ {0} /\ UINTMOD % PIPESIZE = 0
  BY PipeAssumption
<1>2. (a % UINTMOD) % PIPESIZE = a % PIPESIZE
  BY <1>1, ModMod
<1> DEFINE q == a \div PIPESIZE  r == a % PIPESIZE  c == UINTMOD \div PIPESIZE
<1>3. r \in 0 .. PIPESIZE - 1 /\ q \in Int /\ a = PIPESIZE * q + r
  BY <1>1, DivMod
<1>4. c \in Int /\ UINTMOD = PIPESIZE * c
  BY <1>1, DivMod
<1> HIDE DEF q, r, c
<1>5. a - UINTMOD = PIPESIZE * (q - c) + r
  BY <1>1, <1>3, <1>4
<1>6. q - c \in Int /\ a - UINTMOD \in Int
  BY <1>1, <1>3, <1>4
<1>7. (a - UINTMOD) % PIPESIZE = r
  <2> DEFINE x == a - UINTMOD  y == q - c
  <2>1. x \in Int /\ y \in Int /\ x = PIPESIZE * y + r
    BY <1>5, <1>6
  <2> HIDE DEF x, y
  <2>2. x % PIPESIZE = r
    BY <1>1, <1>3, <2>1, ModUnique
  <2> QED BY <2>2 DEF x
<1> QED BY <1>2, <1>3, <1>7 DEF r, Slots

\* The slot of the byte after j bytes that are read, or that are written.
LEMMA ReadSlot ==
    ASSUME NEW a \in Uint, NEW j \in Nat
    PROVE  Plus(a, j) % PIPESIZE = (a + j) % PIPESIZE /\ (a + j) % PIPESIZE \in Slots
<1>1. a + j \in Int
  BY PipeAssumption DEF Uint
<1> QED BY <1>1, WrapKeepsSlot DEF Plus

LEMMA WriteSlot ==
    ASSUME TypeOK, NEW j \in Nat
    PROVE  Plus(nwrite, j) % PIPESIZE = (nread + Count + j) % PIPESIZE
<1>1. /\ Count = IF nwrite >= nread THEN nwrite - nread ELSE nwrite - nread + UINTMOD
      /\ nread \in Int /\ nwrite \in Uint /\ nwrite \in Int /\ UINTMOD \in Int
  BY Counting, PipeAssumption DEF TypeOK, Uint
<1>2. Plus(nwrite, j) % PIPESIZE = (nwrite + j) % PIPESIZE
  BY <1>1, ReadSlot
<1>3. CASE nwrite >= nread
  <2>1. nread + Count + j = nwrite + j
    BY <1>1, <1>3
  <2> QED BY <1>2, <2>1
<1>4. CASE nwrite < nread
  <2> DEFINE x == nread + Count + j
  <2>1. x \in Int /\ x - UINTMOD = nwrite + j
    BY <1>1, <1>4
  <2> HIDE DEF x
  <2>2. (x - UINTMOD) % PIPESIZE = x % PIPESIZE
    BY <2>1, WrapKeepsSlot
  <2> QED BY <1>2, <2>1, <2>2 DEF x
<1> QED BY <1>1, <1>3, <1>4

\* The bytes in the ring.
QueueIs ==
    /\ Count \in Nat /\ Queue \in Seq(Bytes) /\ Len(Queue) = Count
    /\ \A k \in 1 .. Count : /\ Queue[k] = data[(nread + (k - 1)) % PIPESIZE]
                             /\ Queue[k] \in Bytes

LEMMA QueueType == TypeOK => QueueIs
<1> SUFFICES ASSUME TypeOK PROVE QueueIs
  OBVIOUS
<1>1. Count \in Nat
  BY Counting, PipeAssumption DEF Uint
<1>2. \A k \in 1 .. Count : /\ Queue[k] = data[(nread + (k - 1)) % PIPESIZE]
                            /\ Queue[k] \in Bytes
  <2> SUFFICES ASSUME NEW k \in 1 .. Count
               PROVE  Queue[k] = data[(nread + (k - 1)) % PIPESIZE] /\ Queue[k] \in Bytes
    OBVIOUS
  <2>1. k - 1 \in Nat /\ nread \in Uint
    BY <1>1 DEF TypeOK
  <2>2. Queue[k] = data[Plus(nread, k - 1) % PIPESIZE]
    BY DEF Queue
  <2>3. Plus(nread, k - 1) % PIPESIZE = (nread + (k - 1)) % PIPESIZE /\ (nread + (k - 1)) % PIPESIZE \in Slots
    BY <2>1, ReadSlot
  <2> QED BY <2>2, <2>3 DEF TypeOK
<1>3. Queue = [k \in 1 .. Count |-> Queue[k]]
  BY DEF Queue
<1>4. Queue \in [1 .. Count -> Bytes]
  BY <1>2, <1>3
<1> QED BY <1>1, <1>2, <1>4 DEF QueueIs

LEMMA QueueTypeNext == TypeOK' => QueueIs'
BY QueueType, PTL

\* pipewrite puts its bytes behind those in the ring.
LEMMA RefinesWrite ==
    ASSUME IInv, IInv', NEW p \in Procs, WriteBytes(p)
    PROVE  Fifo!Next
<1> DEFINE m == Room(p)
<1>1. /\ p \in Writers /\ pc[p] = "loop" /\ i[p] < n[p] /\ ~Full
      /\ nwrite' = Plus(nwrite, m) /\ nread' = nread /\ UNCHANGED ends
  BY DEF WriteBytes, At
<1>2. PICK s \in [1 .. m -> Bytes] : data' = Copied(s)
  BY DEF WriteBytes
<1>3. m \in Nat \ {0} /\ Count + m <= PIPESIZE
  BY <1>1, RoomFits
<1> HIDE DEF m
<1>4. Count' = Count + m
  BY <1>1, <1>3, Adds DEF IInv
<1>5. QueueIs /\ QueueIs'
  BY QueueType, QueueTypeNext DEF IInv
<1>6. s \in Seq(Bytes) /\ Len(s) = m
  BY <1>2, <1>3, CopiedType DEF IInv
<1>7. /\ nread \in Int /\ Count \in Nat /\ PIPESIZE \in Nat \ {0}
  BY <1>5, PipeAssumption DEF IInv, TypeOK, Uint, QueueIs
<1> DEFINE slot(t) == (nread + (t - 1)) % PIPESIZE
<1>8. \A t \in 1 .. Count + m : slot(t) \in Slots
  <2> SUFFICES ASSUME NEW t \in 1 .. Count + m PROVE slot(t) \in Slots
    OBVIOUS
  <2>1. nread + (t - 1) \in Int
    BY <1>3, <1>7
  <2> QED BY <2>1, WrapKeepsSlot
<1>9. \A t, u \in 1 .. Count + m : slot(t) = slot(u) => t = u
  <2> SUFFICES ASSUME NEW t \in 1 .. Count + m, NEW u \in 1 .. Count + m, slot(t) = slot(u)
               PROVE  t = u
    OBVIOUS
  <2> DEFINE x == nread + (t - 1)  y == nread + (u - 1)
  <2>1. x \in Int /\ y \in Int /\ x - y < PIPESIZE /\ y - x < PIPESIZE
    BY <1>3, <1>7
  <2>2. x % PIPESIZE = y % PIPESIZE
    OBVIOUS
  <2> HIDE DEF x, y
  <2>3. x = y
    BY <1>7, <2>1, <2>2, ModDistinct
  <2> QED BY <1>3, <1>7, <2>3 DEF x, y
<1>10. \A j \in 1 .. m : Plus(nwrite, j - 1) % PIPESIZE = slot(Count + j)
  <2> SUFFICES ASSUME NEW j \in 1 .. m PROVE Plus(nwrite, j - 1) % PIPESIZE = slot(Count + j)
    OBVIOUS
  <2>1. j - 1 \in Nat
    BY <1>3
  <2>2. Plus(nwrite, j - 1) % PIPESIZE = (nread + Count + (j - 1)) % PIPESIZE
    BY <2>1, WriteSlot DEF IInv
  <2>3. nread + Count + (j - 1) = nread + ((Count + j) - 1)
    BY <1>3, <1>7
  <2> QED BY <2>2, <2>3
<1> HIDE DEF slot
<1>11. \A k \in Slots : data'[k] = IF \E j \in 1 .. m : slot(Count + j) = k
                                   THEN s[CHOOSE j \in 1 .. m : slot(Count + j) = k]
                                   ELSE data[k]
  <2> SUFFICES ASSUME NEW k \in Slots
               PROVE  data'[k] = IF \E j \in 1 .. m : slot(Count + j) = k
                                 THEN s[CHOOSE j \in 1 .. m : slot(Count + j) = k]
                                 ELSE data[k]
    OBVIOUS
  <2>1. data'[k] = IF \E j \in 1 .. m : Plus(nwrite, j - 1) % PIPESIZE = k
                   THEN s[CHOOSE j \in 1 .. m : Plus(nwrite, j - 1) % PIPESIZE = k]
                   ELSE data[k]
    BY <1>2, <1>6 DEF Copied, Slots
  <2>2. \A j \in 1 .. m : Plus(nwrite, j - 1) % PIPESIZE = k <=> slot(Count + j) = k
    BY <1>10
  <2>3. (CHOOSE j \in 1 .. m : Plus(nwrite, j - 1) % PIPESIZE = k)
          = (CHOOSE j \in 1 .. m : slot(Count + j) = k)
    BY <2>2
  <2> QED BY <2>1, <2>2, <2>3
<1>12. ASSUME NEW t \in 1 .. Count + m
       PROVE  Queue'[t] = IF t <= Count THEN Queue[t] ELSE s[t - Count]
  <2>1. Queue'[t] = data'[slot(t)]
    BY <1>1, <1>4, <1>5, <1>12 DEF QueueIs, slot
  <2>2. slot(t) \in Slots
    BY <1>8
  <2>3. CASE t <= Count
    <3>1. t \in 1 .. Count /\ \A j \in 1 .. m : Count + j \in 1 .. Count + m /\ Count + j # t
      BY <1>3, <1>7, <2>3
    <3>2. \A j \in 1 .. m : slot(Count + j) # slot(t)
      BY <1>9, <3>1
    <3>3. data'[slot(t)] = data[slot(t)]
      BY <1>11, <2>2, <3>2
    <3>4. Queue[t] = data[slot(t)]
      BY <1>5, <3>1 DEF QueueIs, slot
    <3> QED BY <2>1, <2>3, <3>3, <3>4
  <2>4. CASE t > Count
    <3> DEFINE j == t - Count
    <3>1. j \in 1 .. m /\ Count + j = t
      BY <1>3, <1>7, <2>4
    <3> HIDE DEF j
    <3>2. \A h \in 1 .. m : slot(Count + h) = slot(t) => h = j
      <4> SUFFICES ASSUME NEW h \in 1 .. m, slot(Count + h) = slot(t) PROVE h = j
        OBVIOUS
      <4>1. Count + h \in 1 .. Count + m
        BY <1>3, <1>7
      <4>2. Count + h = t
        BY <1>9, <4>1
      <4> QED BY <1>3, <1>7, <3>1, <4>2
    <3>3. data'[slot(t)] = s[j]
      BY <1>11, <2>2, <3>1, <3>2
    <3> QED BY <1>7, <2>1, <2>4, <3>3 DEF j
  <2> QED BY <1>3, <1>7, <2>3, <2>4
<1>13. Queue' = Queue \o s
  <2>1. /\ Queue \o s \in Seq(Bytes) /\ Len(Queue \o s) = Count + m
        /\ \A t \in 1 .. Count + m : (Queue \o s)[t] = IF t <= Count THEN Queue[t] ELSE s[t - Count]
    BY <1>5, <1>6, ConcatProperties DEF QueueIs
  <2>2. Queue' \in Seq(Bytes) /\ Len(Queue') = Count + m
    BY <1>4, <1>5 DEF QueueIs
  <2>3. \A t \in 1 .. Len(Queue') : Queue'[t] = (Queue \o s)[t]
    BY <1>12, <2>1, <2>2
  <2> QED BY <2>1, <2>2, <2>3, SeqEqual
<1>14. m \in 1 .. PIPESIZE - Len(Queue)
  BY <1>3, <1>5, <1>7 DEF QueueIs
<1>15. writeopen
  BY <1>1 DEF IInv, Closing
<1>16. Fifo!Put
  BY <1>1, <1>13, <1>14, <1>15 DEF Fifo!Put, ends
<1> QED BY <1>16 DEF Fifo!Next

\* piperead takes the bytes at the front.
LEMMA RefinesRead ==
    ASSUME IInv, IInv', NEW p \in Procs, ReadBytes(p)
    PROVE  [Fifo!Next]_(Fifo!vars)
<1> DEFINE m == IF n[p] < Count THEN n[p] ELSE Count
<1>1. /\ p \in Readers /\ pc[p] = "loop" /\ nread' = Plus(nread, m)
      /\ UNCHANGED <<data, nwrite, ends>>
  BY DEF ReadBytes, At
<1>2. m \in Nat /\ m <= Count
  BY TakenFits
<1> HIDE DEF m
<1>3. nread' \in Uint /\ Count' = Count - m
  BY <1>1, <1>2, Removes DEF IInv
<1>4. QueueIs /\ QueueIs'
  BY QueueType, QueueTypeNext DEF IInv
<1>5. nread \in Uint /\ nread \in Int /\ nread' \in Int /\ Count \in Nat /\ UINTMOD \in Nat
  BY <1>3, <1>4, PipeAssumption DEF IInv, TypeOK, Uint, QueueIs
<1>6. nread' = nread + m \/ nread' = nread + m - UINTMOD
  <2>1. m \in 0 .. UINTMOD - 1
    BY <1>2, <1>5, Counting, PipeAssumption DEF IInv, Uint
  <2> QED BY <1>1, <1>5, <2>1, Sum
<1>7. ASSUME NEW t \in 1 .. Count - m PROVE Queue'[t] = Queue[m + t]
  <2> DEFINE x == nread + ((m + t) - 1)
  <2>1. Queue'[t] = data[(nread' + (t - 1)) % PIPESIZE]
    BY <1>1, <1>3, <1>4, <1>7 DEF QueueIs
  <2>2. m + t \in 1 .. Count
    BY <1>2, <1>5
  <2>3. Queue[m + t] = data[x % PIPESIZE]
    BY <1>4, <2>2 DEF QueueIs
  <2>4. x \in Int /\ (nread' + (t - 1) = x \/ nread' + (t - 1) = x - UINTMOD)
    <3>1. t \in Int /\ m \in Int
      BY <1>2, <1>5
    <3>2. CASE nread' = nread + m
      BY <1>5, <3>1, <3>2
    <3>3. CASE nread' = nread + m - UINTMOD
      BY <1>5, <3>1, <3>3
    <3> QED BY <1>6, <3>2, <3>3
  <2> HIDE DEF x
  <2>5. (nread' + (t - 1)) % PIPESIZE = x % PIPESIZE
    <3>1. (x - UINTMOD) % PIPESIZE = x % PIPESIZE
      BY <2>4, WrapKeepsSlot
    <3> QED BY <2>4, <3>1
  <2> QED BY <2>1, <2>3, <2>5
<1>8. Queue' = SubSeq(Queue, m + 1, Count)
  <2> DEFINE S == SubSeq(Queue, m + 1, Count)
  <2>1. m + 1 \in Int /\ Count \in Int /\ \A k \in m + 1 .. Count : Queue[k] \in Bytes
    BY <1>2, <1>4, <1>5 DEF QueueIs
  <2>2. /\ S \in Seq(Bytes) /\ Len(S) = Count - m
        /\ \A t \in 1 .. Count - m : S[t] = Queue[m + t]
    <3>1. /\ S \in Seq(Bytes) /\ Len(S) = IF m + 1 <= Count THEN Count - (m + 1) + 1 ELSE 0
          /\ \A t \in 1 .. Count - (m + 1) + 1 : S[t] = Queue[m + 1 + t - 1]
      BY <2>1, SubSeqProperties
    <3>2. Len(S) = Count - m /\ Count - (m + 1) + 1 = Count - m
      BY <1>2, <1>5, <3>1
    <3>3. \A t \in 1 .. Count - m : m + 1 + t - 1 = m + t
      BY <1>2, <1>5
    <3> HIDE DEF S
    <3> QED BY <3>1, <3>2, <3>3
  <2> HIDE DEF S
  <2>3. Queue' \in Seq(Bytes) /\ Len(Queue') = Count - m
    BY <1>3, <1>4 DEF QueueIs
  <2>4. \A t \in 1 .. Len(Queue') : Queue'[t] = S[t]
    BY <1>7, <2>2, <2>3
  <2>5. Queue' = S
    BY <2>2, <2>3, <2>4, SeqEqual
  <2> QED BY <2>5 DEF S
<1>9. readopen
  BY <1>1 DEF IInv, Closing
<1>10. CASE m = 0
  <2>1. \A t \in 1 .. Len(Queue') : Queue'[t] = Queue[t]
    BY <1>3, <1>4, <1>5, <1>7, <1>10 DEF QueueIs
  <2>2. Len(Queue') = Len(Queue)
    BY <1>3, <1>4, <1>5, <1>10 DEF QueueIs
  <2>3. Queue' = Queue
    BY <1>4, <2>1, <2>2, SeqEqual DEF QueueIs
  <2> QED BY <1>1, <2>3 DEF Fifo!vars, ends
<1>11. CASE m # 0
  <2>1. m \in 1 .. Len(Queue) /\ Len(Queue) = Count
    BY <1>2, <1>4, <1>5, <1>11 DEF QueueIs
  <2>2. Fifo!Get
    BY <1>1, <1>8, <1>9, <2>1 DEF Fifo!Get, ends
  <2> QED BY <2>2 DEF Fifo!Next
<1> QED BY <1>10, <1>11

\* pipeclose closes one end.
LEMMA RefinesClose ==
    ASSUME IInv, NEW p \in Procs, PipeClose(p)
    PROVE  Fifo!Next
<1>1. /\ pc[p] = "close" /\ UNCHANGED ring
      /\ readopen' = (readopen /\ p \notin Readers)
      /\ writeopen' = (writeopen /\ p \notin Writers)
  BY DEF PipeClose, At
<1>2. Queue' = Queue
  BY <1>1 DEF Queue, Count, Plus, ring
<1>3. readopen \in BOOLEAN /\ writeopen \in BOOLEAN
  BY DEF IInv, TypeOK
<1>4. CASE p \in Readers
  <2>1. readopen /\ p \notin Writers
    BY <1>1, <1>4, PipeAssumption DEF IInv, Closing
  <2>2. Fifo!CloseRead
    BY <1>1, <1>2, <1>3, <1>4, <2>1 DEF Fifo!CloseRead
  <2> QED BY <2>2 DEF Fifo!Next
<1>5. CASE p \in Writers
  <2>1. writeopen /\ p \notin Readers
    BY <1>1, <1>5, PipeAssumption DEF IInv, Closing
  <2>2. Fifo!CloseWrite
    BY <1>1, <1>2, <1>3, <1>5, <2>1 DEF Fifo!CloseWrite
  <2> QED BY <2>2 DEF Fifo!Next
<1> QED BY <1>4, <1>5 DEF Procs

\* Everything else is not seen.
LEMMA RefinesRest ==
    ASSUME UNCHANGED <<ring, ends>>
    PROVE  UNCHANGED Fifo!vars
<1>1. Queue' = Queue
  BY DEF Queue, Count, Plus, ring
<1> QED BY <1>1 DEF Fifo!vars, ends

LEMMA RefinesNext ==
    ASSUME IInv, IInv', [Next]_vars
    PROVE  [Fifo!Next]_(Fifo!vars)
<1>1. CASE UNCHANGED vars
  BY <1>1, RefinesRest DEF vars, ring, ends
<1>2. ASSUME NEW p \in Procs, Inside(p) PROVE [Fifo!Next]_(Fifo!vars)
  <2>1. CASE WriteBytes(p)
    BY <2>1, RefinesWrite
  <2>2. CASE ReadBytes(p)
    BY <2>2, RefinesRead
  <2>3. CASE PipeClose(p)
    BY <2>3, RefinesClose
  <2>4. CASE \/ Acquire(p) \/ WriteFails(p) \/ WriteFull(p) \/ WakeReaders(p) \/ WriteDone(p)
             \/ ReadFails(p) \/ ReadEmpty(p) \/ ReadDone(p) \/ Sleep(p) \/ Block(p)
    <3>1. UNCHANGED <<ring, ends>>
      BY <2>4 DEF Acquire, WriteFails, WriteFull, WakeReaders, WriteDone, ReadFails, ReadEmpty,
                  ReadDone, Sleep, Block
    <3> QED BY <3>1, RefinesRest
  <2> QED BY <1>2, <2>1, <2>2, <2>3, <2>4 DEF Inside
<1>3. ASSUME NEW p \in Procs,
             \/ Kill(p) \/ CloseFd(p) \/ \E len \in Lengths : Call(p, len)
      PROVE  [Fifo!Next]_(Fifo!vars)
  <2>1. UNCHANGED <<ring, ends>>
    BY <1>3 DEF Kill, CloseFd, Call
  <2> QED BY <2>1, RefinesRest
<1> QED BY <1>1, <1>2, <1>3 DEF Next, AllClosed

LEMMA RefinesInit == Init => Fifo!Init
<1> SUFFICES ASSUME Init PROVE Fifo!Init
  OBVIOUS
<1>1. TypeOK /\ Empty
  BY InitInv DEF IInv, Init, Empty
<1>2. Len(Queue) = 0 /\ Queue \in Seq(Bytes)
  BY <1>1, QueueType, Counting DEF QueueIs
<1>3. Queue = <<>>
  BY <1>2
<1> QED BY <1>3 DEF Fifo!Init, Init

\* The ring of pipe.c is a first-in first-out queue of at most PIPESIZE bytes,
\* where nread and nwrite wrap around too, however reads, writes, kills and
\* closes interleave.
THEOREM PipeImplementsFifo == Spec => ImplementsFifo
<1>1. IInv /\ IInv' /\ [Next]_vars => [Fifo!Next]_(Fifo!vars)
  BY RefinesNext
<1> QED BY RefinesInit, <1>1, PipeInvariant, PTL DEF Spec, ImplementsFifo, Fifo!Spec
====
