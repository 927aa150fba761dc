-------------------------------- MODULE Proc --------------------------------
(***************************************************************************)
(* Processes and the scheduler of proc.c on several CPUs: fork, exit,      *)
(* wait, sleep, wakeup, kill and yield.  ptable.lock is handed over in     *)
(* sched: the process that switches away holds it, the scheduler goes on   *)
(* with it, and the process it picks releases it.  A critical section that *)
(* does not switch is one step.                                            *)
(*                                                                         *)
(* What fork and exit do to open files and shared memory is left out (see  *)
(* Pipe and Shm); the sleep of sys_sleep stands for all sleeping on a      *)
(* channel that an interrupt wakes.                                        *)
(***************************************************************************)
EXTENDS Integers, FiniteSets

CONSTANTS
    NPROC,      \* entries of ptable
    CPUs, NoCpu,
    Killable,   \* entries whose processes may be killed or misbehave
    Sleepers,   \* entries whose processes call sleep
    MaxPid      \* bound: the last pid given out

ASSUME ProcAssumption ==
    /\ NPROC \in Nat \ {0} /\ MaxPid \in Nat \ {0}
    /\ NoCpu \notin CPUs
    /\ Killable \subseteq 1 .. NPROC - 1 /\ Sleepers \subseteq 0 .. NPROC - 1

Procs == 0 .. NPROC - 1
NoProc == -1
initproc == 0
Ticks == NPROC          \* the channel &ticks; channel p is &ptable.proc[p]

VARIABLES
    state, parent, chan, killed, pid,   \* struct proc
    nextpid,
    pc,         \* what the kernel thread of each process does next
    np,         \* the local of fork
    switched,   \* its context is saved in sched, or set up by allocproc
    lock,       \* the CPU that holds ptable.lock
    cpu,        \* cpu.proc
    at,         \* where the loop of each scheduler is
    named,      \* ghost: the pids that kill or a trap has marked
    struck      \* ghost: the entries marked while no process was in them

sched == <<lock, cpu, at>>
vars == <<state, parent, chan, killed, pid, nextpid, pc, np, switched, lock, cpu, at, named,
          struck>>

\* userinit has made the first process.
Init ==
    /\ state = [p \in Procs |-> IF p = initproc THEN "RUNNABLE" ELSE "UNUSED"]
    /\ parent = [p \in Procs |-> NoProc]
    /\ chan = [p \in Procs |-> NoProc]
    /\ killed = [p \in Procs |-> FALSE]
    /\ pid = [p \in Procs |-> IF p = initproc THEN 1 ELSE 0]
    /\ nextpid = 2
    /\ pc = [p \in Procs |-> "user"]
    /\ np = [p \in Procs |-> NoProc]
    /\ switched = [p \in Procs |-> p = initproc]
    /\ lock = NoCpu
    /\ cpu = [c \in CPUs |-> NoProc]
    /\ at = [c \in CPUs |-> 0]
    /\ named = {}
    /\ struck = {}

Free == lock = NoCpu

\* Process p executes on CPU c, at label l, without ptable.lock.
On(p, c, l) == cpu[c] = p /\ ~switched[p] /\ pc[p] = l

\* A system call begins: trap lets a killed process exit instead.
Calls(p, c) == On(p, c, "user") /\ ~killed[p]

Goto(p, l) == pc' = [pc EXCEPT ![p] = l]

\* wakeup1, applied to the states s.
Woken(ch, s) ==
    [q \in Procs |-> IF s[q] = "SLEEPING" /\ chan[q] = ch THEN "RUNNABLE" ELSE s[q]]

\* sched(): p leaves c in one of the states s; the scheduler of c has the lock.
SwitchAway(p, c, s) ==
    /\ state' = s
    /\ switched' = [switched EXCEPT ![p] = TRUE]
    /\ lock' = c
    /\ cpu' = [cpu EXCEPT ![c] = NoProc]
    /\ UNCHANGED at

----------------------------------------------------------------------------
(* fork *)

FirstUnused(q) == state[q] = "UNUSED" /\ \A r \in 0 .. q - 1 : state[r] # "UNUSED"

AllocProc(p, c) ==
    /\ Calls(p, c) /\ Free
    /\ nextpid <= MaxPid
    /\ \E q \in Procs :
          /\ FirstUnused(q)
          /\ state' = [state EXCEPT ![q] = "EMBRYO"]
          /\ pid' = [pid EXCEPT ![q] = nextpid]
          /\ np' = [np EXCEPT ![p] = q]
    /\ nextpid' = nextpid + 1
    /\ Goto(p, "copy")
    /\ UNCHANGED <<parent, chan, killed, switched, sched, named, struck>>

\* No page for the kernel stack or in copyuvm; the lock is not taken.  The pid
\* and a mark of kill stay in the entry.
ForkNoMemory(p, c) ==
    /\ On(p, c, "copy")
    /\ struck' = IF killed[np[p]] THEN struck \cup {np[p]} ELSE struck
    /\ state' = [state EXCEPT ![np[p]] = "UNUSED"]
    /\ Goto(p, "user")
    /\ np' = [np EXCEPT ![p] = NoProc]
    /\ UNCHANGED <<parent, chan, killed, pid, nextpid, switched, sched, named>>

\* The parent is set without the lock.
ForkCopy(p, c) ==
    /\ On(p, c, "copy")
    /\ parent' = [parent EXCEPT ![np[p]] = p]
    /\ Goto(p, "ready")
    /\ UNCHANGED <<state, chan, killed, pid, nextpid, np, switched, sched, named, struck>>

\* The child starts in forkret.
ForkReady(p, c) ==
    /\ On(p, c, "ready") /\ Free
    /\ state' = [state EXCEPT ![np[p]] = "RUNNABLE"]
    /\ switched' = [switched EXCEPT ![np[p]] = TRUE]
    /\ pc' = [pc EXCEPT ![p] = "user", ![np[p]] = "user"]
    /\ np' = [np EXCEPT ![p] = NoProc]
    /\ UNCHANGED <<parent, chan, killed, pid, nextpid, sched, named, struck>>

----------------------------------------------------------------------------
(* exit and wait *)

Kids(p) == {q \in Procs : parent[q] = p}

\* Up to the acquire: files are closed.  init never exits by itself.
ExitCall(p, c) ==
    /\ On(p, c, "user") /\ p # initproc
    /\ Goto(p, "exit")
    /\ UNCHANGED <<state, parent, chan, killed, pid, nextpid, np, switched, sched, named, struck>>

\* Mutant for WaitersInformed: init is not told of the zombies it inherits.
ExitWakes_Parent(p) == Woken(parent[p], state)

\* The parent is woken, and init if it inherits a zombie.
ExitWakes(p) ==
    LET s == Woken(parent[p], state)
    IN  IF \E q \in Kids(p) : state[q] = "ZOMBIE" THEN Woken(initproc, s) ELSE s

\* Mutant for ParentsAlive: only zombies are passed to init.
Abandoned_Zombies(p) == {q \in Kids(p) : state[q] = "ZOMBIE"}

\* The children that pass to init.
Abandoned(p) == Kids(p)

Exit(p, c) ==
    /\ On(p, c, "exit") /\ Free
    /\ parent' = [q \in Procs |-> IF q \in Abandoned(p) THEN initproc ELSE parent[q]]
    /\ SwitchAway(p, c, [ExitWakes(p) EXCEPT ![p] = "ZOMBIE"])
    /\ UNCHANGED <<chan, killed, pid, nextpid, pc, np, named, struck>>

\* p holds ptable.lock in the loop of wait: it has just acquired it, or
\* returns from the sleep in it.
InWait(p, c) ==
    \/ Calls(p, c) /\ Free
    \/ cpu[c] = p /\ switched[p] /\ pc[p] = "wait"

\* wait returns and releases the lock.
WaitReturns(p) ==
    /\ Goto(p, "user")
    /\ switched' = [switched EXCEPT ![p] = FALSE]
    /\ lock' = NoCpu
    /\ chan' = [chan EXCEPT ![p] = NoProc]
    /\ UNCHANGED <<cpu, at>>

FirstZombie(p, q) ==
    /\ q \in Kids(p) /\ state[q] = "ZOMBIE"
    /\ \A r \in Kids(p) : state[r] = "ZOMBIE" => q <= r

\* Mutant for KilledWasNamed: the mark stays for the next user of the entry.
Cleared_Not(q) == killed

Cleared(q) == [killed EXCEPT ![q] = FALSE]

WaitReap(p, c) ==
    /\ InWait(p, c)
    /\ \E q \in Procs :
          /\ FirstZombie(p, q)
          /\ pid' = [pid EXCEPT ![q] = 0]
          /\ parent' = [parent EXCEPT ![q] = NoProc]
          /\ killed' = Cleared(q)
          /\ state' = [state EXCEPT ![q] = "UNUSED"]
          /\ named' = named \ {pid[q]}
          /\ struck' = struck \ {q}
    /\ WaitReturns(p)
    /\ UNCHANGED <<nextpid, np>>

WaitFails(p, c) ==
    /\ InWait(p, c)
    /\ \A q \in Kids(p) : state[q] # "ZOMBIE"
    /\ Kids(p) = {} \/ killed[p]
    /\ WaitReturns(p)
    /\ UNCHANGED <<state, parent, killed, pid, nextpid, np, named, struck>>

\* sleep(curproc, &ptable.lock): the lock is held throughout.
WaitSleeps(p, c) ==
    /\ InWait(p, c)
    /\ \A q \in Kids(p) : state[q] # "ZOMBIE"
    /\ Kids(p) # {} /\ ~killed[p]
    /\ chan' = [chan EXCEPT ![p] = p]
    /\ Goto(p, "wait")
    /\ SwitchAway(p, c, [state EXCEPT ![p] = "SLEEPING"])
    /\ UNCHANGED <<parent, killed, pid, nextpid, np, named, struck>>

----------------------------------------------------------------------------
(* sys_sleep, kill, the timer *)

\* tickslock is held from the test of the loop to the sleep.
TicksFree == \A q \in Procs : pc[q] # "sleep"

\* Under tickslock: the time is up, or the process was killed, ...
TicksReturn(p, c) ==
    /\ On(p, c, "ticks") /\ TicksFree
    /\ Goto(p, "user")
    /\ UNCHANGED <<state, parent, chan, killed, pid, nextpid, np, switched, sched, named, struck>>

\* ... or it will sleep; interrupts are off, but other CPUs run on.
TicksTest(p, c) ==
    /\ p \in Sleepers /\ TicksFree
    /\ Calls(p, c) \/ (On(p, c, "ticks") /\ ~killed[p])
    /\ Goto(p, "sleep")
    /\ UNCHANGED <<state, parent, chan, killed, pid, nextpid, np, switched, sched, named, struck>>

TicksSleep(p, c) ==
    /\ On(p, c, "sleep") /\ Free
    /\ chan' = [chan EXCEPT ![p] = Ticks]
    /\ Goto(p, "ticks")
    /\ SwitchAway(p, c, [state EXCEPT ![p] = "SLEEPING"])
    /\ UNCHANGED <<parent, killed, pid, nextpid, np, named, struck>>

\* The timer interrupt of the first CPU.
Tick ==
    /\ Free /\ TicksFree
    /\ state' = Woken(Ticks, state)
    /\ UNCHANGED <<parent, chan, killed, pid, nextpid, pc, np, switched, sched, named, struck>>

\* The entry at which the loop of kill stops.
FirstWithPid(n, q) == pid[q] = n /\ \A r \in 0 .. q - 1 : pid[r] # n

\* Whatever the state of the entry: kill(0) finds one that was never used or
\* is reaped, and the pid of a half-made or failed fork is found as well.
Kill(p, c, n) ==
    /\ Calls(p, c) /\ Free
    /\ \E q \in Killable :
          /\ FirstWithPid(n, q)
          /\ killed' = [killed EXCEPT ![q] = TRUE]
          /\ state' = [state EXCEPT ![q] = IF @ = "SLEEPING" THEN "RUNNABLE" ELSE @]
          /\ IF state[q] = "UNUSED"
             THEN struck' = struck \cup {q} /\ UNCHANGED named
             ELSE named' = named \cup {n} /\ UNCHANGED struck
    /\ UNCHANGED <<parent, chan, pid, nextpid, pc, np, switched, sched>>

\* A trap in user space that is not a system call or an interrupt.
Misbehaves(p, c) ==
    /\ Calls(p, c) /\ p \in Killable
    /\ killed' = [killed EXCEPT ![p] = TRUE]
    /\ named' = named \cup {pid[p]}
    /\ UNCHANGED <<state, parent, chan, pid, nextpid, pc, np, switched, sched, struck>>

\* The timer interrupts p in user space, or in the kernel where it holds no
\* spin lock.
Yield(p, c) ==
    /\ Calls(p, c) \/ On(p, c, "copy") \/ On(p, c, "ready") \/ On(p, c, "exit")
    /\ Free
    /\ SwitchAway(p, c, [state EXCEPT ![p] = "RUNNABLE"])
    /\ UNCHANGED <<parent, chan, killed, pid, nextpid, pc, np, named, struck>>

----------------------------------------------------------------------------
(* scheduler *)

SchedAcquire(c) ==
    /\ cpu[c] = NoProc /\ Free
    /\ lock' = c
    /\ UNCHANGED <<state, parent, chan, killed, pid, nextpid, pc, np, switched, cpu, at, named, struck>>

Runnable(c) == {q \in Procs : q >= at[c] /\ state[q] = "RUNNABLE"}

\* Mutant for Scheduled: the loop counts twice.
Resumes_Later(q) == q + 2

\* Where the loop goes on when process q comes back.
Resumes(q) == q + 1

\* Mutant for OneCpu: the process picked stays RUNNABLE.
Picked_Runnable(q) == state

Picked(q) == [state EXCEPT ![q] = "RUNNING"]

SchedPick(c) ==
    /\ cpu[c] = NoProc /\ lock = c
    /\ \E q \in Runnable(c) :
          /\ \A r \in Runnable(c) : q <= r
          /\ state' = Picked(q)
          /\ cpu' = [cpu EXCEPT ![c] = q]
          /\ at' = [at EXCEPT ![c] = Resumes(q)]
    /\ UNCHANGED <<parent, chan, killed, pid, nextpid, pc, np, switched, lock, named, struck>>

SchedRelease(c) ==
    /\ cpu[c] = NoProc /\ lock = c
    /\ Runnable(c) = {}
    /\ lock' = NoCpu
    /\ at' = [at EXCEPT ![c] = 0]
    /\ UNCHANGED <<state, parent, chan, killed, pid, nextpid, pc, np, switched, cpu, named, struck>>

\* The end of sched in yield and sleep, or forkret: the lock is released.
Resume(p, c) ==
    /\ cpu[c] = p /\ switched[p] /\ pc[p] # "wait"
    /\ switched' = [switched EXCEPT ![p] = FALSE]
    /\ lock' = NoCpu
    /\ chan' = [chan EXCEPT ![p] = NoProc]
    /\ UNCHANGED <<state, parent, killed, pid, nextpid, pc, np, cpu, at, named, struck>>

\* What CPU c does without a choice of a program.
CpuStep(c) ==
    \/ SchedAcquire(c) \/ SchedPick(c) \/ SchedRelease(c)
    \/ \E p \in Procs :
          \/ Resume(p, c) \/ Yield(p, c)
          \/ ForkNoMemory(p, c) \/ ForkCopy(p, c) \/ ForkReady(p, c)
          \/ killed[p] /\ ExitCall(p, c)
          \/ Exit(p, c)
          \/ pc[p] = "wait" /\ (WaitReap(p, c) \/ WaitFails(p, c) \/ WaitSleeps(p, c))
          \/ TicksReturn(p, c) \/ TicksSleep(p, c)

Call(c) ==
    \E p \in Procs :
        \/ AllocProc(p, c) \/ ExitCall(p, c)
        \/ WaitReap(p, c) \/ WaitFails(p, c) \/ WaitSleeps(p, c)
        \/ TicksTest(p, c)
        \/ Misbehaves(p, c)
        \/ \E n \in 0 .. MaxPid : Kill(p, c, n)

Next == (\E c \in CPUs : CpuStep(c) \/ Call(c)) \/ Tick

(***************************************************************************)
(* A CPU that is not spinning goes on, and a program that makes no call is *)
(* interrupted by the timer.  Spin locks are not fair.                     *)
(***************************************************************************)
Spec == Init /\ [][Next]_vars /\ \A c \in CPUs : WF_vars(CpuStep(c))

----------------------------------------------------------------------------
(* Properties *)

procstate == {"UNUSED", "EMBRYO", "SLEEPING", "RUNNABLE", "RUNNING", "ZOMBIE"}
Labels == {"user", "copy", "ready", "exit", "wait", "sleep", "ticks"}

TypeOK ==
    /\ state \in [Procs -> procstate]
    /\ parent \in [Procs -> Procs \cup {NoProc}]
    /\ chan \in [Procs -> Procs \cup {NoProc, Ticks}]
    /\ killed \in [Procs -> BOOLEAN]
    /\ pid \in [Procs -> 0 .. MaxPid]
    /\ nextpid \in 1 .. MaxPid + 1
    /\ pc \in [Procs -> Labels]
    /\ np \in [Procs -> Procs \cup {NoProc}]
    /\ switched \in [Procs -> BOOLEAN]
    /\ lock \in CPUs \cup {NoCpu}
    /\ cpu \in [CPUs -> Procs \cup {NoProc}]
    /\ at \in [CPUs -> 0 .. NPROC]
    /\ named \subseteq 0 .. MaxPid
    /\ struck \subseteq Procs

(***************************************************************************)
(* A process runs on one CPU at a time, and ptable.lock is where sched     *)
(* expects it (proc.c:362-364, 381): on the CPU between a switch away and  *)
(* the next release, and nowhere else.                                     *)
(***************************************************************************)
OneCpu ==
    /\ \A p \in Procs : state[p] = "RUNNING" <=> \E c \in CPUs : cpu[c] = p
    /\ \A c, d \in CPUs : cpu[c] = cpu[d] /\ cpu[c] # NoProc => c = d
    /\ \A c \in CPUs : cpu[c] # NoProc => (switched[cpu[c]] <=> lock = c)

(***************************************************************************)
(* A process sleeps in wait only while it has children and none of them is *)
(* a zombie: the exit of a child, or of a process that leaves zombies to   *)
(* init, has woken it (proc.c:275-285, 332).                               *)
(***************************************************************************)
WaitersInformed ==
    \A p \in Procs : state[p] = "SLEEPING" /\ pc[p] = "wait" =>
        /\ Kids(p) # {}
        /\ \A q \in Kids(p) : state[q] # "ZOMBIE"

(***************************************************************************)
(* Every process but init has a parent that has not exited, so somebody    *)
(* can wait for it (proc.c:247-249, 278).                                  *)
(***************************************************************************)
Alive(p) == state[p] \in {"SLEEPING", "RUNNABLE", "RUNNING"}
ParentsAlive ==
    \A p \in Procs \ {initproc} :
        Alive(p) \/ state[p] = "ZOMBIE" => parent[p] \in Procs /\ Alive(parent[p])

(***************************************************************************)
(* kill marks the process with the given pid (proc.c:499): a marked        *)
(* process was named itself, unlike an earlier user of its entry, unless   *)
(* kill struck the entry when no process was in it.  The exception is the  *)
(* code's: kill does not look at the state (proc.c:509), so kill(0), or    *)
(* the pid of a fork that failed, marks an unused entry, and allocproc     *)
(* does not clear the mark of the process it makes there.                  *)
(***************************************************************************)
KilledWasNamed == \A p \in Procs : killed[p] => pid[p] \in named \/ p \in struck

(***************************************************************************)
(* The invariants of proc.c that make the properties above inductive.      *)
(***************************************************************************)

\* A process that does not run has its context saved.
ContextSaved ==
    \A p \in Procs : state[p] \in {"SLEEPING", "RUNNABLE"} => switched[p]

Forking(p) == pc[p] \in {"copy", "ready"}

\* The entry a fork works on belongs to it alone, and has no parent until
\* ForkCopy; unused entries have none.
EmbryosOwned ==
    /\ \A p \in Procs : Forking(p) =>
          np[p] \in Procs /\ state[np[p]] = "EMBRYO" /\ Alive(p)
    /\ \A p, q \in Procs : Forking(p) /\ Forking(q) /\ np[p] = np[q] => p = q
    /\ \A p \in Procs : pc[p] = "copy" => parent[np[p]] = NoProc
    /\ \A p \in Procs : pc[p] = "ready" => parent[np[p]] = p
    /\ \A p \in Procs : state[p] = "UNUSED" => parent[p] = NoProc

\* init is always there, and nobody's child; no process is its own.
InitAlive ==
    /\ Alive(initproc) /\ parent[initproc] = NoProc
    /\ \A p \in Procs : pc[p] = "exit" => p # initproc
    /\ \A p \in Procs : parent[p] # p

\* A process in wait sleeps on itself, where exit looks for it.
WaitChannel ==
    \A p \in Procs : state[p] = "SLEEPING" /\ pc[p] = "wait" => chan[p] = p

\* No two entries have the same pid, left over or in use, but for 0.
PidsDistinct ==
    /\ \A p, q \in Procs : pid[p] = pid[q] /\ pid[p] # 0 => p = q
    /\ \A p \in Procs : pid[p] < nextpid
    /\ \A p \in Procs : state[p] = "UNUSED" /\ killed[p] => p \in struck
    /\ \A p \in Procs : state[p] \notin {"UNUSED"} => pid[p] # 0

IInv ==
    /\ TypeOK /\ OneCpu /\ ContextSaved /\ EmbryosOwned /\ InitAlive
    /\ WaitChannel /\ WaitersInformed /\ ParentsAlive /\ PidsDistinct /\ KilledWasNamed

(***************************************************************************)
(* A runnable process is eventually run: the loop of every scheduler goes  *)
(* round the whole table (proc.c:356-375).                                 *)
(***************************************************************************)
Scheduled == \A p \in Procs : (state[p] = "RUNNABLE") ~> (state[p] # "RUNNABLE")
============================================================================
