----------------------------- MODULE ProcProofs -----------------------------
(***************************************************************************)
(* The safety properties of module Proc for any number of processes, CPUs  *)
(* and pids: IInv is preserved by every action, one lemma for each.        *)
(***************************************************************************)
EXTENDS Proc, TLAPS

----------------------------------------------------------------------------
(* One lemma per action *)

\* A process that switches away is on no CPU any more, and its CPU alone has
\* the lock.
LEMMA SwitchAwayOneCpu ==
    ASSUME TypeOK, OneCpu, NEW p \in Procs, NEW c \in CPUs, cpu[c] = p,
           switched' = [switched EXCEPT ![p] = TRUE], lock' = c,
           cpu' = [cpu EXCEPT ![c] = NoProc],
           \A d \in CPUs : lock = d => d = c,
           \A r \in Procs : state'[r] = "RUNNING" <=> state[r] = "RUNNING" /\ r # p
    PROVE  OneCpu'
<1> USE ProcAssumption DEF Procs, NoProc
<1>1. \A d \in CPUs : cpu'[d] # NoProc => d # c /\ cpu'[d] = cpu[d] /\ cpu[d] # p
  BY DEF OneCpu, TypeOK
<1>2. \A r \in Procs : state'[r] = "RUNNING" <=> \E d \in CPUs : cpu'[d] = r
  <2>1. cpu'[c] = NoProc /\ \A d \in CPUs \ {c} : cpu'[d] = cpu[d]
    BY DEF TypeOK
  <2>2. \A r \in Procs : state'[r] = "RUNNING" <=> state[r] = "RUNNING" /\ r # p
    OBVIOUS
  <2>3. \A r \in Procs : state[r] = "RUNNING" <=> \E d \in CPUs : cpu[d] = r
    BY DEF OneCpu
  <2> QED BY <1>1, <2>1, <2>2, <2>3
<1>3. \A d, e \in CPUs : cpu'[d] = cpu'[e] /\ cpu'[d] # NoProc => d = e
  BY <1>1 DEF OneCpu
<1>4. \A d \in CPUs : cpu'[d] # NoProc => (switched'[cpu'[d]] <=> lock' = d)
  <2>1. \A d \in CPUs \ {c} : cpu[d] # NoProc => ~switched[cpu[d]]
    BY DEF OneCpu
  <2>2. lock' = c /\ \A r \in Procs \ {p} : switched'[r] = switched[r]
    BY DEF TypeOK
  <2>3. \A d \in CPUs : cpu[d] # NoProc => cpu[d] \in Procs
    BY DEF TypeOK
  <2> QED BY <1>1, <2>1, <2>2, <2>3
<1> QED BY <1>2, <1>3, <1>4 DEF OneCpu

\* An action that starts no fork keeps EmbryosOwned if the forks under way keep
\* their entries and stay alive, and entries become unused without a parent.
LEMMA EmbryosKept ==
    ASSUME EmbryosOwned,
           \A r \in Procs : Forking(r)' =>
              Forking(r) /\ pc'[r] = pc[r] /\ np'[r] = np[r] /\ Alive(r)',
           \A r \in Procs : Forking(r)' =>
              state'[np[r]] = "EMBRYO" /\ parent'[np[r]] = parent[np[r]],
           \A r \in Procs : state'[r] = "UNUSED" => parent'[r] = NoProc
    PROVE  EmbryosOwned'
<1>1. \A r \in Procs : Forking(r)' =>
         np'[r] \in Procs /\ state'[np'[r]] = "EMBRYO" /\ Alive(r)'
  BY DEF EmbryosOwned
<1>2. \A r, t \in Procs : Forking(r)' /\ Forking(t)' /\ np'[r] = np'[t] => r = t
  BY DEF EmbryosOwned
<1>3. \A r \in Procs : /\ pc'[r] = "copy" => parent'[np'[r]] = NoProc
                       /\ pc'[r] = "ready" => parent'[np'[r]] = r
  <2> SUFFICES ASSUME NEW r \in Procs, Forking(r)'
               PROVE  /\ pc'[r] = "copy" => parent'[np'[r]] = NoProc
                      /\ pc'[r] = "ready" => parent'[np'[r]] = r
    BY DEF Forking
  <2> QED BY DEF EmbryosOwned
<1>4. \A r \in Procs : state'[r] = "UNUSED" => parent'[r] = NoProc
  OBVIOUS
<1> QED BY <1>1, <1>2, <1>3, <1>4 DEF EmbryosOwned

\* allocproc takes an unused entry, which nobody forks into, waits for or
\* runs.
LEMMA AllocProcStep ==
    ASSUME IInv, NEW p \in Procs, NEW c \in CPUs, AllocProc(p, c)
    PROVE  IInv'
<1> USE ProcAssumption DEF Procs, NoProc, initproc, Ticks
<1> USE DEF IInv, TypeOK, procstate, Labels, AllocProc, Calls, On, Free, Goto,
     FirstUnused, sched
<1>0. state[p] = "RUNNING"
  BY DEF OneCpu
<1>q. PICK q \in Procs :
         /\ state[q] = "UNUSED"
         /\ state' = [state EXCEPT ![q] = "EMBRYO"]
         /\ pid' = [pid EXCEPT ![q] = nextpid]
         /\ np' = [np EXCEPT ![p] = q]
  OBVIOUS
<1>1. TypeOK'
  <2>1. pid' \in [Procs -> 0 .. MaxPid] /\ nextpid' \in 1 .. MaxPid + 1
    BY <1>q
  <2>2. np' \in [Procs -> Procs \cup {NoProc}]
    BY <1>q
  <2>3. state' \in [Procs -> procstate]
    BY <1>q
  <2>4. pc' \in [Procs -> Labels]
    OBVIOUS
  <2> QED BY <2>1, <2>2, <2>3, <2>4
<1>2. OneCpu'
  BY <1>0 DEF OneCpu, EmbryosOwned, Forking, Alive
<1>3. ContextSaved'
  BY <1>0 DEF ContextSaved, EmbryosOwned, Forking, Alive
<1>4. EmbryosOwned'
  <2>1. \A r \in Procs : Forking(r)' <=> Forking(r) \/ r = p
    BY <1>0 DEF Forking
  <2>2. ~Forking(p) /\ q # p /\ parent[q] = NoProc
    BY <1>0, <1>q DEF Forking, EmbryosOwned
  <2>3. \A r \in Procs : Forking(r) => np'[r] = np[r] /\ np[r] # q /\ pc'[r] = pc[r]
    BY <1>q, <2>2 DEF EmbryosOwned
  <2>4. \A r \in Procs : Alive(r) => Alive(r)'
    BY <1>q DEF Alive
  <2>5. Alive(p)' /\ np'[p] = q /\ state'[q] = "EMBRYO" /\ pc'[p] = "copy"
    BY <1>0, <1>q, <2>2 DEF Alive
  <2>6. \A r \in Procs : r # q => state'[r] = state[r]
    BY <1>q
  <2> HIDE DEF AllocProc
  <2>7. parent' = parent
    BY DEF AllocProc
  <2>8. \A r \in Procs : Forking(r)' =>
           np'[r] \in Procs /\ state'[np'[r]] = "EMBRYO" /\ Alive(r)'
    BY <2>1, <2>3, <2>4, <2>5, <2>6, <1>q DEF EmbryosOwned
  <2>9. \A r, t \in Procs : Forking(r)' /\ Forking(t)' /\ np'[r] = np'[t] => r = t
    <3> SUFFICES ASSUME NEW r \in Procs, NEW t \in Procs,
                        Forking(r)', Forking(t)', np'[r] = np'[t]
                 PROVE  r = t
      OBVIOUS
    <3>1. CASE r = p \/ t = p
      BY <3>1, <2>1, <2>3, <2>5
    <3>2. CASE r # p /\ t # p
      BY <3>2, <2>1, <2>3 DEF EmbryosOwned
    <3> QED BY <3>1, <3>2
  <2>10. \A r \in Procs : /\ pc'[r] = "copy" => parent[np'[r]] = NoProc
                          /\ pc'[r] = "ready" => parent[np'[r]] = r
    <3>1. \A r \in Procs : pc'[r] \in {"copy", "ready"} /\ r # p => Forking(r)
      BY <2>1 DEF Forking
    <3>2. \A r \in Procs \ {p} : /\ pc'[r] = "copy" => parent[np'[r]] = NoProc
                                 /\ pc'[r] = "ready" => parent[np'[r]] = r
      BY <3>1, <2>3 DEF EmbryosOwned
    <3>3. pc'[p] = "copy" /\ parent[np'[p]] = NoProc
      BY <2>2, <2>5
    <3> QED BY <3>2, <3>3
  <2>11. \A r \in Procs : state'[r] = "UNUSED" => parent[r] = NoProc
    BY <2>6, <2>2 DEF EmbryosOwned
  <2> QED BY <2>7, <2>8, <2>9, <2>10, <2>11 DEF EmbryosOwned
<1>5. InitAlive'
  BY <1>0 DEF InitAlive, Alive, EmbryosOwned, Forking
<1>6. WaitChannel'
  BY <1>0 DEF WaitChannel, EmbryosOwned, Forking, Alive
<1>7. WaitersInformed'
  BY <1>0 DEF WaitersInformed, Kids, EmbryosOwned, Forking, Alive, WaitChannel,
       InitAlive
<1>8. ParentsAlive'
  BY <1>0 DEF ParentsAlive, Alive, EmbryosOwned, Forking, InitAlive
<1>9. PidsDistinct'
  <2>1. /\ nextpid' = nextpid + 1 /\ killed' = killed
        /\ \A r \in Procs : pid'[r] = IF r = q THEN nextpid ELSE pid[r]
        /\ \A r \in Procs \ {q} : state'[r] = state[r]
    BY <1>q
  <2>2. \A r \in Procs : pid[r] \in Nat /\ pid[r] < nextpid
    BY DEF PidsDistinct
  <2>3. \A r, t \in Procs : pid'[r] = pid'[t] /\ pid'[r] # 0 => r = t
    BY <2>1, <2>2 DEF PidsDistinct
  <2>4. \A r \in Procs : pid'[r] < nextpid'
    BY <2>1, <2>2
  <2>5. \A r \in Procs : state'[r] = "UNUSED" /\ killed'[r] => r \in struck'
    BY <1>q, <2>1 DEF PidsDistinct
  <2>6. \A r \in Procs : state'[r] \notin {"UNUSED"} => pid'[r] # 0
    BY <2>1 DEF PidsDistinct
  <2> QED BY <2>3, <2>4, <2>5, <2>6 DEF PidsDistinct
<1>10. KilledWasNamed'
  BY <1>0 DEF KilledWasNamed, PidsDistinct, EmbryosOwned, Forking, Alive
<1> QED BY <1>1, <1>2, <1>3, <1>4, <1>5, <1>6, <1>7, <1>8, <1>9, <1>10

\* A failed fork gives the entry back, which had no parent yet.
LEMMA ForkNoMemoryStep ==
    ASSUME IInv, NEW p \in Procs, NEW c \in CPUs, ForkNoMemory(p, c)
    PROVE  IInv'
<1> USE ProcAssumption DEF Procs, NoProc, initproc, Ticks
<1> USE DEF IInv, TypeOK, procstate, Labels, ForkNoMemory, On, Goto, sched
<1>0. state[p] = "RUNNING"
  BY DEF OneCpu
<1>e. np[p] \in Procs /\ state[np[p]] = "EMBRYO"
  BY DEF EmbryosOwned, Forking
<1>1. TypeOK'
  <2>1. struck \in SUBSET Procs /\ struck' \in {struck, struck \cup {np[p]}}
    OBVIOUS
  <2>2. struck' \subseteq Procs
    BY ONLY <1>e, <2>1
  <2> QED BY <1>e, <2>2
<1>2. OneCpu'
  BY <1>0 DEF OneCpu, EmbryosOwned, Forking, Alive
<1>3. ContextSaved'
  BY <1>0 DEF ContextSaved, EmbryosOwned, Forking, Alive
<1>4. EmbryosOwned'
  <2>0. /\ Forking(p) /\ np[p] \in Procs /\ parent[np[p]] = NoProc
        /\ \A r \in Procs \ {p} : Forking(r) => np[r] # np[p] /\ np[r] \in Procs
    BY DEF EmbryosOwned, Forking
  <2>1. \A r \in Procs : Forking(r)' =>
           Forking(r) /\ pc'[r] = pc[r] /\ np'[r] = np[r] /\ Alive(r)'
    BY <1>0 DEF EmbryosOwned, Forking, Alive
  <2>2. \A r \in Procs : Forking(r)' =>
           state'[np[r]] = "EMBRYO" /\ parent'[np[r]] = parent[np[r]]
    BY <2>0, <2>1 DEF EmbryosOwned, Forking
  <2>3. \A r \in Procs : state'[r] = "UNUSED" => parent'[r] = NoProc
    BY <2>0 DEF EmbryosOwned
  <2> QED BY EmbryosKept, <2>1, <2>2, <2>3
<1>5. InitAlive'
  BY <1>0 DEF InitAlive, Alive, EmbryosOwned, Forking
<1>6. WaitChannel'
  BY <1>0 DEF WaitChannel, EmbryosOwned, Forking, Alive
<1>7. WaitersInformed'
  BY <1>0 DEF WaitersInformed, Kids, EmbryosOwned, Forking, Alive, WaitChannel,
       InitAlive
<1>8. ParentsAlive'
  BY <1>0 DEF ParentsAlive, Alive, EmbryosOwned, Forking, InitAlive
<1>9. PidsDistinct'
  BY <1>0 DEF PidsDistinct, EmbryosOwned, Forking, Alive
<1>10. KilledWasNamed'
  BY <1>e DEF KilledWasNamed
<1> QED BY <1>1, <1>2, <1>3, <1>4, <1>5, <1>6, <1>7, <1>8, <1>9, <1>10

\* Only the fork that owns the entry gives it a parent.
LEMMA ForkCopyStep ==
    ASSUME IInv, NEW p \in Procs, NEW c \in CPUs, ForkCopy(p, c)
    PROVE  IInv'
<1> USE ProcAssumption DEF Procs, NoProc, initproc, Ticks
<1> USE DEF IInv, TypeOK, procstate, Labels, ForkCopy, On, Goto, sched
<1>0. state[p] = "RUNNING"
  BY DEF OneCpu
<1>1. TypeOK'
  BY <1>0 DEF EmbryosOwned, Forking
<1>2. EmbryosOwned'
  <2>1. np[p] \in Procs /\ np' = np /\ state' = state /\ parent'[np[p]] = p
    BY DEF EmbryosOwned, Forking
  <2>2. \A r \in Procs : Forking(r)' <=> Forking(r)
    BY DEF Forking
  <2>3. \A r \in Procs \ {p} : pc'[r] = pc[r]
    OBVIOUS
  <2>4. Forking(p) /\ pc'[p] = "ready" /\ state[np[p]] = "EMBRYO"
    BY DEF EmbryosOwned, Forking
  <2>5. \A r \in Procs \ {p} : Forking(r) => parent'[np[r]] = parent[np[r]]
    BY <2>4 DEF EmbryosOwned
  <2>6. \A r \in Procs : state[r] = "UNUSED" => parent'[r] = NoProc
    BY <2>4 DEF EmbryosOwned
  <2>7. \A r \in Procs : Alive(r)' <=> Alive(r)
    BY <2>1 DEF Alive
  <2>8. \A r \in Procs : /\ pc'[r] = "copy" => parent'[np[r]] = NoProc
                         /\ pc'[r] = "ready" => parent'[np[r]] = r
    BY <2>1, <2>3, <2>4, <2>5 DEF EmbryosOwned, Forking
  <2> HIDE DEF ForkCopy
  <2> QED BY <2>1, <2>2, <2>6, <2>7, <2>8 DEF EmbryosOwned
<1>3. InitAlive'
  BY <1>0 DEF InitAlive, Alive, EmbryosOwned, Forking
<1>4. WaitChannel'
  BY <1>0 DEF WaitChannel, EmbryosOwned, Forking, Alive
<1>5. WaitersInformed'
  BY <1>0 DEF WaitersInformed, Kids, EmbryosOwned, Forking, Alive, WaitChannel,
       InitAlive
<1>6. ParentsAlive'
  <2>1. \A r \in Procs : state'[r] = state[r] /\ (Alive(r)' <=> Alive(r))
    BY DEF Alive
  <2>2. \A r \in Procs : Alive(r) \/ state[r] = "ZOMBIE" => parent'[r] = parent[r]
    BY DEF Alive, EmbryosOwned, Forking
  <2> QED BY <2>1, <2>2 DEF ParentsAlive
<1>7. (OneCpu /\ ContextSaved /\ PidsDistinct /\ KilledWasNamed)'
  <2>1. (OneCpu /\ ContextSaved)'
    BY DEF OneCpu, ContextSaved
  <2>2. (PidsDistinct /\ KilledWasNamed)'
    BY DEF PidsDistinct, KilledWasNamed
  <2> QED BY <2>1, <2>2
<1> QED BY <1>1, <1>2, <1>3, <1>4, <1>5, <1>6, <1>7

\* The child becomes runnable with its context set up.
LEMMA ForkReadyStep ==
    ASSUME IInv, NEW p \in Procs, NEW c \in CPUs, ForkReady(p, c)
    PROVE  IInv'
<1> USE ProcAssumption DEF Procs, NoProc, initproc, Ticks
<1> USE DEF IInv, TypeOK, procstate, Labels, ForkReady, On, Free, sched
<1>0. state[p] = "RUNNING"
  BY DEF OneCpu
<1>n. /\ np[p] \in Procs /\ state[np[p]] = "EMBRYO" /\ np[p] # p
      /\ ~\E d \in CPUs : cpu[d] = np[p]
  BY <1>0 DEF OneCpu, EmbryosOwned, Forking
<1>1. TypeOK'
  BY <1>0 DEF EmbryosOwned, Forking
<1>2. OneCpu'
  <2>1. \A r \in Procs : state'[r] = "RUNNING" <=> state[r] = "RUNNING"
    BY <1>n
  <2>2. \A d \in CPUs : cpu[d] # NoProc => switched'[cpu[d]] = switched[cpu[d]]
    BY <1>n
  <2> QED BY <2>1, <2>2 DEF OneCpu
<1>3. ContextSaved'
  BY <1>0 DEF ContextSaved, EmbryosOwned, Forking, Alive
<1>4. EmbryosOwned'
  <2>0. /\ Forking(p) /\ np[p] \in Procs /\ parent[np[p]] = p
        /\ \A r \in Procs \ {p} : Forking(r) => np[r] # np[p] /\ np[r] \in Procs
    BY DEF EmbryosOwned, Forking
  <2>1. \A r \in Procs : Forking(r)' =>
           Forking(r) /\ pc'[r] = pc[r] /\ np'[r] = np[r] /\ Alive(r)'
    BY <1>0, <1>n DEF EmbryosOwned, Forking, Alive
  <2>2. \A r \in Procs : Forking(r)' =>
           state'[np[r]] = "EMBRYO" /\ parent'[np[r]] = parent[np[r]]
    BY <2>0, <2>1 DEF EmbryosOwned, Forking
  <2>3. \A r \in Procs : state'[r] = "UNUSED" => parent'[r] = NoProc
    BY <2>0 DEF EmbryosOwned
  <2> QED BY EmbryosKept, <2>1, <2>2, <2>3
<1>5. InitAlive'
  BY <1>0 DEF InitAlive, Alive, EmbryosOwned, Forking
<1>6. WaitChannel'
  BY <1>0 DEF WaitChannel, EmbryosOwned, Forking, Alive
<1>7. WaitersInformed'
  <2>1. \A r \in Procs : /\ state'[r] = "ZOMBIE" <=> state[r] = "ZOMBIE"
                        /\ Kids(r)' = Kids(r)
    BY <1>n DEF Kids
  <2>2. \A r \in Procs : state'[r] = "SLEEPING" /\ pc'[r] = "wait" =>
           state[r] = "SLEEPING" /\ pc[r] = "wait"
    BY <1>n
  <2>3. \A r \in Procs : Kids(r) \subseteq Procs
    BY DEF Kids
  <2> SUFFICES ASSUME NEW r \in Procs, state'[r] = "SLEEPING", pc'[r] = "wait"
               PROVE  Kids(r)' # {} /\ \A q \in Kids(r)' : state'[q] # "ZOMBIE"
    BY DEF WaitersInformed
  <2>4. Kids(r) # {} /\ \A q \in Kids(r) : state[q] # "ZOMBIE"
    BY <2>2 DEF WaitersInformed
  <2> QED BY ONLY <2>1, <2>3, <2>4, r \in Procs
<1>8. ParentsAlive'
  BY <1>0 DEF ParentsAlive, Alive, EmbryosOwned, Forking, InitAlive
<1>9. PidsDistinct'
  BY <1>0 DEF PidsDistinct, EmbryosOwned, Forking, Alive
<1>10. KilledWasNamed'
  BY DEF KilledWasNamed
<1> QED BY <1>1, <1>2, <1>3, <1>4, <1>5, <1>6, <1>7, <1>8, <1>9, <1>10

\* Entering exit changes nothing others rely on.
LEMMA ExitCallStep ==
    ASSUME IInv, NEW p \in Procs, NEW c \in CPUs, ExitCall(p, c)
    PROVE  IInv'
<1> USE ProcAssumption DEF Procs, NoProc, initproc, Ticks
<1> USE DEF IInv, TypeOK, procstate, Labels, ExitCall, On, Goto, sched
<1>0. state[p] = "RUNNING"
  BY DEF OneCpu
<1>1. TypeOK'
  BY <1>0
<1>2. EmbryosOwned'
  BY <1>0 DEF EmbryosOwned, Forking, Alive
<1>3. InitAlive'
  BY <1>0 DEF InitAlive, Alive, EmbryosOwned, Forking
<1>4. WaitChannel'
  BY <1>0 DEF WaitChannel, EmbryosOwned, Forking, Alive
<1>5. WaitersInformed'
  BY <1>0 DEF WaitersInformed, Kids, EmbryosOwned, Forking, Alive, WaitChannel,
       InitAlive
<1>6. (OneCpu /\ ContextSaved /\ PidsDistinct /\ KilledWasNamed)'
  BY DEF OneCpu, ContextSaved, PidsDistinct, KilledWasNamed
<1>7. ParentsAlive'
  BY DEF ParentsAlive, Alive
<1> QED BY <1>1, <1>2, <1>3, <1>4, <1>5, <1>6, <1>7

\* exit wakes its parent, and init if it inherits a zombie, before it
\* becomes one.
LEMMA ExitStep ==
    ASSUME IInv, NEW p \in Procs, NEW c \in CPUs, Exit(p, c)
    PROVE  IInv'
<1> USE ProcAssumption DEF Procs, NoProc, initproc, Ticks
<1> USE DEF IInv, TypeOK, procstate, Labels, Exit, On, Free, SwitchAway, Abandoned,
     ExitWakes, Woken
<1>0. state[p] = "RUNNING"
  BY DEF OneCpu
<1>w. \A r \in Procs \ {p} :
         \/ state'[r] = state[r]
         \/ state[r] = "SLEEPING" /\ state'[r] = "RUNNABLE"
  BY <1>0
<1>z. state'[p] = "ZOMBIE" /\ state' \in [Procs -> procstate]
  BY <1>0
<1>1. TypeOK'
  BY <1>z
<1>2. OneCpu'
  <2>1. /\ cpu[c] = p
        /\ cpu' = [cpu EXCEPT ![c] = NoProc]
        /\ switched' = [switched EXCEPT ![p] = TRUE] /\ lock' = c
    OBVIOUS
  <2>2. \A d \in CPUs : lock = d => d = c
    OBVIOUS
  <2>3. \A r \in Procs : state'[r] = "RUNNING" <=> state[r] = "RUNNING" /\ r # p
    BY <1>w, <1>z
  <2>4. TypeOK /\ OneCpu
    OBVIOUS
  <2> HIDE DEF TypeOK, Procs, NoProc
  <2> QED
    BY ONLY <2>1, <2>2, <2>3, <2>4, SwitchAwayOneCpu, p \in Procs, c \in CPUs
<1>3. ContextSaved'
  BY <1>0 DEF ContextSaved, EmbryosOwned, Forking, Alive, Kids
<1>4. EmbryosOwned'
  <2>0. \A r \in Procs : Forking(r) =>
           /\ r # p /\ np[r] \in Procs \ {p}
           /\ state[np[r]] = "EMBRYO" /\ parent[np[r]] # p
    BY <1>0 DEF EmbryosOwned, Forking
  <2>1. \A r \in Procs : Forking(r)' =>
           Forking(r) /\ pc'[r] = pc[r] /\ np'[r] = np[r] /\ Alive(r)'
    BY <1>0, <1>w DEF EmbryosOwned, Forking, Alive
  <2>2. \A r \in Procs : Forking(r)' =>
           state'[np[r]] = "EMBRYO" /\ parent'[np[r]] = parent[np[r]]
    <3>1. \A r \in Procs : parent[r] # p => parent'[r] = parent[r]
      BY DEF Kids
    <3> QED BY ONLY <3>1, <1>w, <2>0, <2>1
  <2>3. \A r \in Procs : state'[r] = "UNUSED" => parent'[r] = NoProc
    <3>1. \A r \in Procs : parent[r] = NoProc => parent'[r] = NoProc
      BY DEF Kids
    <3>2. \A r \in Procs : state[r] = "UNUSED" => parent[r] = NoProc
      BY DEF EmbryosOwned
    <3> QED BY ONLY <3>1, <3>2, <1>w, <1>z
  <2> QED BY EmbryosKept, <2>1, <2>2, <2>3
<1>5. InitAlive'
  BY <1>0 DEF InitAlive, Alive, EmbryosOwned, Forking, Kids
<1>6. WaitChannel'
  BY <1>0 DEF WaitChannel, EmbryosOwned, Forking, Alive, Kids
<1>7. WaitersInformed'
  <2> SUFFICES ASSUME NEW r \in Procs, state'[r] = "SLEEPING", pc'[r] = "wait"
               PROVE  Kids(r)' # {} /\ \A k \in Kids(r)' : state'[k] # "ZOMBIE"
    BY DEF WaitersInformed
  <2>1. r # p /\ state[r] = "SLEEPING" /\ pc[r] = "wait" /\ chan[r] = r
    BY <1>w, <1>z DEF WaitChannel
  <2>2. r # parent[p]
    BY <2>1, <1>0
  <2>3. r = initproc => \A k \in Kids(p) : state[k] # "ZOMBIE"
    BY <2>1, <1>0
  <2>4. Kids(r) # {} /\ \A k \in Kids(r) : state[k] # "ZOMBIE"
    BY <2>1 DEF WaitersInformed
  <2>5. Kids(r) \subseteq Kids(r)'
    BY <2>1 DEF Kids
  <2>6. ASSUME NEW k \in Kids(r)' PROVE state'[k] # "ZOMBIE"
    <3>1. k \in Kids(r) \/ (r = initproc /\ k \in Kids(p))
      BY DEF Kids
    <3>2. k # p
      BY <3>1, <2>2, <2>1, <1>0, <2>4 DEF Kids, InitAlive
    <3>3. k \in Procs /\ state[k] # "ZOMBIE"
      BY <3>1, <2>3, <2>4 DEF Kids
    <3> QED BY <3>2, <3>3, <1>w
  <2> QED BY <2>4, <2>5, <2>6
<1>8. ParentsAlive'
  <2>1. p # initproc /\ Alive(initproc)'
    BY <1>w DEF InitAlive, Alive
  <2>2. \A r \in Procs \ {p} : Alive(r) => Alive(r)'
    BY <1>w DEF Alive
  <2>3. \A r \in Procs : Alive(r)' \/ state'[r] = "ZOMBIE"
                          => Alive(r) \/ state[r] = "ZOMBIE"
    BY <1>0, <1>w DEF Alive
  <2>4. \A r \in Procs : parent'[r] = IF parent[r] = p THEN initproc ELSE parent[r]
    BY DEF Kids
  <2> SUFFICES ASSUME NEW r \in Procs \ {initproc}, Alive(r)' \/ state'[r] = "ZOMBIE"
               PROVE  /\ parent'[r] \in Procs
                      /\ state'[parent'[r]] \in {"SLEEPING", "RUNNABLE", "RUNNING"}
    BY DEF ParentsAlive, Alive
  <2>5. parent[r] \in Procs /\ Alive(parent[r])
    BY <2>3 DEF ParentsAlive
  <2>6. CASE parent[r] = p
    BY <2>6, <2>1, <2>4 DEF Alive
  <2>7. CASE parent[r] # p
    BY <2>7, <2>2, <2>4, <2>5 DEF Alive
  <2> QED BY <2>6, <2>7
<1>9. PidsDistinct'
  BY <1>0 DEF PidsDistinct, EmbryosOwned, Forking, Alive, Kids
<1>10. KilledWasNamed'
  BY DEF KilledWasNamed
<1> QED BY <1>1, <1>2, <1>3, <1>4, <1>5, <1>6, <1>7, <1>8, <1>9, <1>10

\* wait frees a zombie child of the caller: nobody else waits for it.
LEMMA WaitReapStep ==
    ASSUME IInv, NEW p \in Procs, NEW c \in CPUs, WaitReap(p, c)
    PROVE  IInv'
<1> USE ProcAssumption DEF Procs, NoProc, initproc, Ticks
<1> USE DEF IInv, TypeOK, procstate, Labels, WaitReap, InWait, Calls, On, Free,
     FirstZombie, WaitReturns, Goto, Cleared
<1>0. state[p] = "RUNNING"
  BY DEF OneCpu
<1>q. PICK q \in Procs :
         /\ q \in Kids(p) /\ state[q] = "ZOMBIE"
         /\ pid' = [pid EXCEPT ![q] = 0]
         /\ parent' = [parent EXCEPT ![q] = NoProc]
         /\ killed' = [killed EXCEPT ![q] = FALSE]
         /\ state' = [state EXCEPT ![q] = "UNUSED"]
         /\ named' = named \ {pid[q]} /\ struck' = struck \ {q}
  OBVIOUS
<1>l. \A d \in CPUs : lock = d => d = c
  <2>1. cpu[c] = p /\ p # NoProc /\ (lock = NoCpu \/ switched[p])
    OBVIOUS
  <2> QED BY ONLY <2>1, OneCpu, ProcAssumption DEF OneCpu
<1>1. TypeOK'
  <2>1. pid' \in [Procs -> 0 .. MaxPid]
    BY <1>q
  <2>6. named' \subseteq 0 .. MaxPid
    <3>1. named \in SUBSET (0 .. MaxPid) /\ named' = named \ {pid[q]}
      BY <1>q
    <3> QED BY ONLY <3>1
  <2>7. struck' \subseteq Procs
    <3>1. struck \in SUBSET Procs /\ struck' = struck \ {q}
      BY <1>q
    <3> QED BY ONLY <3>1
  <2>2. killed' \in [Procs -> BOOLEAN] /\ switched' \in [Procs -> BOOLEAN]
    BY <1>q
  <2>3. /\ parent' \in [Procs -> Procs \cup {NoProc}]
        /\ chan' \in [Procs -> Procs \cup {NoProc, Ticks}]
    BY <1>q
  <2>4. state' \in [Procs -> procstate]
    BY <1>q
  <2>5. pc' \in [Procs -> Labels]
    OBVIOUS
  <2> QED BY <2>1, <2>2, <2>3, <2>4, <2>5, <2>6, <2>7
<1>2. OneCpu'
  <2>1. \A r \in Procs : state'[r] = "RUNNING" <=> state[r] = "RUNNING"
    BY <1>q
  <2>2. \A d \in CPUs \ {c} : cpu[d] # NoProc => ~switched'[cpu[d]]
    BY <1>l DEF OneCpu
  <2>3. ~switched'[cpu[c]] /\ lock' = NoCpu /\ cpu' = cpu
    OBVIOUS
  <2> QED BY <2>1, <2>2, <2>3 DEF OneCpu
<1>3. ContextSaved'
  BY <1>0 DEF ContextSaved, EmbryosOwned, Forking, Alive, Kids
<1>4. EmbryosOwned'
  <2>0. \A r \in Procs : Forking(r) => np[r] \in Procs \ {q} /\ state[np[r]] = "EMBRYO"
    BY <1>q DEF EmbryosOwned
  <2>1. \A r \in Procs : Forking(r)' =>
           Forking(r) /\ pc'[r] = pc[r] /\ np'[r] = np[r] /\ Alive(r)'
    BY <1>0, <1>q DEF EmbryosOwned, Forking, Alive
  <2>2. \A r \in Procs : Forking(r)' =>
           state'[np[r]] = "EMBRYO" /\ parent'[np[r]] = parent[np[r]]
    BY <1>q, <2>0, <2>1
  <2>3. \A r \in Procs : state'[r] = "UNUSED" => parent'[r] = NoProc
    BY <1>q DEF EmbryosOwned
  <2> QED BY EmbryosKept, <2>1, <2>2, <2>3
<1>5. InitAlive'
  BY <1>0 DEF InitAlive, Alive, EmbryosOwned, Forking, Kids
<1>6. WaitChannel'
  BY <1>0 DEF WaitChannel, EmbryosOwned, Forking, Alive, Kids
<1>7. WaitersInformed'
  BY <1>0 DEF WaitersInformed, Kids, EmbryosOwned, Forking, Alive, WaitChannel,
       InitAlive
<1>8. ParentsAlive'
  BY <1>0 DEF ParentsAlive, Alive, EmbryosOwned, Forking, InitAlive, Kids
<1>9. PidsDistinct'
  BY <1>0 DEF PidsDistinct, EmbryosOwned, Forking, Alive, Kids
<1>10. KilledWasNamed'
  BY <1>0 DEF KilledWasNamed, PidsDistinct, EmbryosOwned, Forking, Alive, Kids
<1> QED BY <1>1, <1>2, <1>3, <1>4, <1>5, <1>6, <1>7, <1>8, <1>9, <1>10

\* wait gives the lock back.
LEMMA WaitFailsStep ==
    ASSUME IInv, NEW p \in Procs, NEW c \in CPUs, WaitFails(p, c)
    PROVE  IInv'
<1> USE ProcAssumption DEF Procs, NoProc, initproc, Ticks
<1> USE DEF IInv, TypeOK, procstate, Labels, WaitFails, InWait, Calls, On, Free,
     WaitReturns, Goto
<1>0. state[p] = "RUNNING"
  BY DEF OneCpu
<1>1. TypeOK'
  BY <1>0 DEF Kids
<1>2. OneCpu'
  <2>0. \A d \in CPUs : lock = d => d = c
    <3>1. InWait(p, c) /\ cpu[c] # NoProc
      OBVIOUS
    <3>2. \A d \in CPUs : cpu[d] # NoProc => (switched[cpu[d]] <=> lock = d)
      BY DEF OneCpu
    <3>3. lock = NoCpu \/ lock = c
      BY ONLY <3>1, <3>2, c \in CPUs
    <3> QED BY ONLY <3>3, ProcAssumption
  <2>1. \A r \in Procs : state'[r] = "RUNNING" <=> state[r] = "RUNNING"
    OBVIOUS
  <2>2. \A d \in CPUs \ {c} : cpu[d] # NoProc => ~switched'[cpu[d]]
    BY <2>0 DEF OneCpu
  <2>3. ~switched'[cpu[c]] /\ lock' = NoCpu /\ cpu' = cpu
    OBVIOUS
  <2> QED BY <2>1, <2>2, <2>3 DEF OneCpu
<1>3. ContextSaved'
  BY <1>0 DEF ContextSaved, EmbryosOwned, Forking, Alive, Kids
<1>4. EmbryosOwned'
  BY <1>0 DEF EmbryosOwned, Forking, Alive, Kids
<1>5. InitAlive'
  BY <1>0 DEF InitAlive, Alive, EmbryosOwned, Forking, Kids
<1>6. WaitChannel'
  BY <1>0 DEF WaitChannel, EmbryosOwned, Forking, Alive, Kids
<1>7. WaitersInformed'
  BY <1>0 DEF WaitersInformed, Kids, EmbryosOwned, Forking, Alive, WaitChannel,
       InitAlive
<1>8. (PidsDistinct /\ KilledWasNamed)'
  BY DEF PidsDistinct, KilledWasNamed
<1>9. ParentsAlive'
  BY DEF ParentsAlive, Alive
<1> QED BY <1>1, <1>2, <1>3, <1>4, <1>5, <1>6, <1>7, <1>8, <1>9

\* wait sleeps only after it found children and no zombie, still holding
\* the lock.
LEMMA WaitSleepsStep ==
    ASSUME IInv, NEW p \in Procs, NEW c \in CPUs, WaitSleeps(p, c)
    PROVE  IInv'
<1> USE ProcAssumption DEF Procs, NoProc, initproc, Ticks
<1> USE DEF IInv, TypeOK, procstate, Labels, WaitSleeps, InWait, Calls, On, Free,
     Goto, SwitchAway
<1>0. state[p] = "RUNNING"
  BY DEF OneCpu
<1>1. TypeOK'
  BY <1>0 DEF Kids
<1>2. OneCpu'
  <2>1. /\ cpu[c] = p
        /\ cpu' = [cpu EXCEPT ![c] = NoProc]
        /\ switched' = [switched EXCEPT ![p] = TRUE] /\ lock' = c
    OBVIOUS
  <2>2. \A r \in Procs : state'[r] = "RUNNING" <=> state[r] = "RUNNING" /\ r # p
    OBVIOUS
  <2>3. \A d \in CPUs : lock = d => d = c
    <3>1. InWait(p, c) /\ cpu[c] # NoProc
      BY DEF WaitSleeps
    <3>2. \A d \in CPUs : cpu[d] # NoProc => (switched[cpu[d]] <=> lock = d)
      BY DEF OneCpu
    <3>3. lock = NoCpu \/ lock = c
      BY ONLY <3>1, <3>2, c \in CPUs DEF InWait, Calls, On, Free
    <3> QED BY ONLY <3>3, ProcAssumption
  <2>4. TypeOK /\ OneCpu
    OBVIOUS
  <2> HIDE DEF TypeOK, Procs, NoProc
  <2> QED
    BY ONLY <2>1, <2>2, <2>3, <2>4, SwitchAwayOneCpu, p \in Procs, c \in CPUs
<1>3. ContextSaved'
  BY <1>0 DEF ContextSaved, EmbryosOwned, Forking, Alive, Kids
<1>4. EmbryosOwned'
  <2>1. \A r \in Procs : Forking(r)' =>
           Forking(r) /\ pc'[r] = pc[r] /\ np'[r] = np[r] /\ Alive(r)'
    BY <1>0 DEF EmbryosOwned, Forking, Alive
  <2>2. \A r \in Procs : Forking(r)' =>
           state'[np[r]] = "EMBRYO" /\ parent'[np[r]] = parent[np[r]]
    BY <1>0, <2>1 DEF EmbryosOwned
  <2>3. \A r \in Procs : state'[r] = "UNUSED" => parent'[r] = NoProc
    BY <1>0 DEF EmbryosOwned
  <2> QED BY EmbryosKept, <2>1, <2>2, <2>3
<1>5. InitAlive'
  BY <1>0 DEF InitAlive, Alive, EmbryosOwned, Forking, Kids
<1>6. WaitChannel'
  BY <1>0 DEF WaitChannel, EmbryosOwned, Forking, Alive, Kids
<1>7. WaitersInformed'
  BY <1>0 DEF WaitersInformed, Kids, EmbryosOwned, Forking, Alive, WaitChannel,
       InitAlive
<1>8. ParentsAlive'
  BY <1>0 DEF ParentsAlive, Alive, EmbryosOwned, Forking, InitAlive, Kids
<1>9. PidsDistinct'
  BY <1>0 DEF PidsDistinct, EmbryosOwned, Forking, Alive, Kids
<1>10. KilledWasNamed'
  BY DEF KilledWasNamed
<1> QED BY <1>1, <1>2, <1>3, <1>4, <1>5, <1>6, <1>7, <1>8, <1>9, <1>10

\* sys_sleep returns.
LEMMA TicksReturnStep ==
    ASSUME IInv, NEW p \in Procs, NEW c \in CPUs, TicksReturn(p, c)
    PROVE  IInv'
<1> USE ProcAssumption DEF Procs, NoProc, initproc, Ticks
<1> USE DEF IInv, TypeOK, procstate, Labels, TicksReturn, On, Goto, sched
<1>0. state[p] = "RUNNING"
  BY DEF OneCpu
<1>1. TypeOK'
  BY <1>0
<1>2. EmbryosOwned'
  BY <1>0 DEF EmbryosOwned, Forking, Alive
<1>3. InitAlive'
  BY <1>0 DEF InitAlive, Alive, EmbryosOwned, Forking
<1>4. WaitChannel'
  BY <1>0 DEF WaitChannel, EmbryosOwned, Forking, Alive
<1>5. WaitersInformed'
  BY <1>0 DEF WaitersInformed, Kids, EmbryosOwned, Forking, Alive, WaitChannel,
       InitAlive
<1>6. (OneCpu /\ ContextSaved /\ PidsDistinct /\ KilledWasNamed)'
  BY DEF OneCpu, ContextSaved, PidsDistinct, KilledWasNamed
<1>7. ParentsAlive'
  BY DEF ParentsAlive, Alive
<1> QED BY <1>1, <1>2, <1>3, <1>4, <1>5, <1>6, <1>7

\* sys_sleep decides to sleep.
LEMMA TicksTestStep ==
    ASSUME IInv, NEW p \in Procs, NEW c \in CPUs, TicksTest(p, c)
    PROVE  IInv'
<1> USE ProcAssumption DEF Procs, NoProc, initproc, Ticks
<1> USE DEF IInv, TypeOK, procstate, Labels, TicksTest, Calls, On, Goto, sched
<1>0. state[p] = "RUNNING"
  BY DEF OneCpu
<1>1. TypeOK'
  BY <1>0
<1>2. EmbryosOwned'
  BY <1>0 DEF EmbryosOwned, Forking, Alive
<1>3. InitAlive'
  BY <1>0 DEF InitAlive, Alive, EmbryosOwned, Forking
<1>4. WaitChannel'
  BY <1>0 DEF WaitChannel, EmbryosOwned, Forking, Alive
<1>5. WaitersInformed'
  BY <1>0 DEF WaitersInformed, Kids, EmbryosOwned, Forking, Alive, WaitChannel,
       InitAlive
<1>6. (OneCpu /\ ContextSaved /\ PidsDistinct /\ KilledWasNamed)'
  BY DEF OneCpu, ContextSaved, PidsDistinct, KilledWasNamed
<1>7. ParentsAlive'
  BY DEF ParentsAlive, Alive
<1> QED BY <1>1, <1>2, <1>3, <1>4, <1>5, <1>6, <1>7

\* sleep on another channel hands the lock over like wait.
LEMMA TicksSleepStep ==
    ASSUME IInv, NEW p \in Procs, NEW c \in CPUs, TicksSleep(p, c)
    PROVE  IInv'
<1> USE ProcAssumption DEF Procs, NoProc, initproc, Ticks
<1> USE DEF IInv, TypeOK, procstate, Labels, TicksSleep, On, Free, Goto, SwitchAway
<1>0. state[p] = "RUNNING"
  BY DEF OneCpu
<1>1. TypeOK'
  BY <1>0
<1>2. OneCpu'
  <2>1. /\ cpu[c] = p /\ lock = NoCpu
        /\ cpu' = [cpu EXCEPT ![c] = NoProc]
        /\ switched' = [switched EXCEPT ![p] = TRUE] /\ lock' = c
    OBVIOUS
  <2>2. \A r \in Procs : state'[r] = "RUNNING" <=> state[r] = "RUNNING" /\ r # p
    OBVIOUS
  <2>3. \A d \in CPUs : lock = d => d = c
    BY ONLY <2>1, ProcAssumption
  <2>4. TypeOK /\ OneCpu
    OBVIOUS
  <2> HIDE DEF TypeOK, Procs, NoProc
  <2> QED
    BY ONLY <2>1, <2>2, <2>3, <2>4, SwitchAwayOneCpu, p \in Procs, c \in CPUs
<1>3. ContextSaved'
  BY <1>0 DEF ContextSaved, EmbryosOwned, Forking, Alive
<1>4. EmbryosOwned'
  BY <1>0 DEF EmbryosOwned, Forking, Alive
<1>5. InitAlive'
  BY <1>0 DEF InitAlive, Alive, EmbryosOwned, Forking
<1>6. WaitChannel'
  BY <1>0 DEF WaitChannel, EmbryosOwned, Forking, Alive
<1>7. WaitersInformed'
  BY <1>0 DEF WaitersInformed, Kids, EmbryosOwned, Forking, Alive, WaitChannel,
       InitAlive
<1>8. ParentsAlive'
  BY <1>0 DEF ParentsAlive, Alive, EmbryosOwned, Forking, InitAlive
<1>9. PidsDistinct'
  BY <1>0 DEF PidsDistinct, EmbryosOwned, Forking, Alive
<1>10. KilledWasNamed'
  BY DEF KilledWasNamed
<1> QED BY <1>1, <1>2, <1>3, <1>4, <1>5, <1>6, <1>7, <1>8, <1>9, <1>10

\* A wakeup on another channel touches no process in wait that has reason
\* to sleep.
LEMMA TickStep ==
    ASSUME IInv, Tick
    PROVE  IInv'
<1> USE ProcAssumption DEF Procs, NoProc, initproc, Ticks
<1> USE DEF IInv, TypeOK, procstate, Labels, Tick, Woken, sched
<1>1. TypeOK'
  BY SMT
<1>2. OneCpu'
  BY DEF OneCpu, EmbryosOwned, Forking, Alive
<1>3. ContextSaved'
  BY DEF ContextSaved, OneCpu, EmbryosOwned, Forking, Alive
<1>4. EmbryosOwned'
  BY DEF EmbryosOwned, Forking, Alive, OneCpu
<1>5. InitAlive'
  BY DEF InitAlive, Alive, OneCpu, EmbryosOwned, Forking
<1>6. WaitChannel'
  BY DEF WaitChannel, OneCpu, EmbryosOwned, Forking, Alive
<1>7. WaitersInformed'
  BY DEF WaitersInformed, Kids, OneCpu, EmbryosOwned, Forking, Alive, WaitChannel,
       InitAlive
<1>8. ParentsAlive'
  BY DEF ParentsAlive, Alive, OneCpu, EmbryosOwned, Forking, InitAlive
<1>9. PidsDistinct'
  BY DEF PidsDistinct, OneCpu, EmbryosOwned, Forking, Alive
<1>10. KilledWasNamed'
  BY DEF KilledWasNamed
<1> QED BY <1>1, <1>2, <1>3, <1>4, <1>5, <1>6, <1>7, <1>8, <1>9, <1>10

\* kill marks the entry with the pid, whatever its state, and wakes it.
LEMMA KillStep ==
    ASSUME IInv, NEW p \in Procs, NEW c \in CPUs, NEW n \in 0 .. MaxPid, Kill(p, c, n)
    PROVE  IInv'
<1> USE ProcAssumption DEF Procs, NoProc, initproc, Ticks
<1> USE DEF IInv, TypeOK, procstate, Labels, Kill, Calls, On, Free, sched
<1>0. state[p] = "RUNNING"
  BY DEF OneCpu
<1>k. PICK q \in Killable :
         /\ pid[q] = n
         /\ killed' = [killed EXCEPT ![q] = TRUE]
         /\ state' = [state EXCEPT ![q] = IF @ = "SLEEPING" THEN "RUNNABLE" ELSE @]
         /\ IF state[q] = "UNUSED"
            THEN struck' = struck \cup {q} /\ UNCHANGED named
            ELSE named' = named \cup {n} /\ UNCHANGED struck
  BY Zenon DEF FirstWithPid
<1>i. q \in Procs /\ q # initproc
  BY ONLY q \in Killable, ProcAssumption DEF Procs, initproc
<1>q. /\ q \in Procs /\ q # initproc /\ pid[q] = n
      /\ killed' = [killed EXCEPT ![q] = TRUE]
      /\ state' = [state EXCEPT ![q] = IF @ = "SLEEPING" THEN "RUNNABLE" ELSE @]
      /\ \/ state[q] = "UNUSED" /\ struck' = struck \cup {q} /\ named' = named
         \/ state[q] # "UNUSED" /\ named' = named \cup {n} /\ struck' = struck
  BY ONLY <1>i, <1>k
<1>u. /\ parent' = parent /\ chan' = chan /\ pid' = pid /\ nextpid' = nextpid /\ pc' = pc
      /\ np' = np /\ switched' = switched /\ lock' = lock /\ cpu' = cpu /\ at' = at
  OBVIOUS
<1> HIDE DEF Kill
<1>1. TypeOK'
  <2>1. killed' \in [Procs -> BOOLEAN] /\ state' \in [Procs -> procstate]
    BY <1>q
  <2>2. /\ named \in SUBSET (0 .. MaxPid) /\ named' \in {named, named \cup {n}}
        /\ struck \in SUBSET Procs /\ struck' \in {struck, struck \cup {q}}
    BY <1>q
  <2>n. n \in 0 .. MaxPid /\ q \in Procs
    BY <1>q
  <2>3. named' \subseteq 0 .. MaxPid /\ struck' \subseteq Procs
    BY ONLY <2>2, <2>n
  <2> QED BY <1>u, <2>1, <2>3
<1>2. OneCpu'
  BY <1>0, <1>q, <1>u DEF OneCpu, EmbryosOwned, Forking, Alive
<1>3. ContextSaved'
  BY <1>0, <1>q, <1>u DEF ContextSaved, EmbryosOwned, Forking, Alive
<1>4. EmbryosOwned'
  <2>1. \A r \in Procs : Forking(r)' =>
           Forking(r) /\ pc'[r] = pc[r] /\ np'[r] = np[r] /\ Alive(r)'
    BY <1>0, <1>q, <1>u DEF EmbryosOwned, Forking, Alive
  <2>2. \A r \in Procs : Forking(r)' =>
           state'[np[r]] = "EMBRYO" /\ parent'[np[r]] = parent[np[r]]
    BY <1>q, <1>u, <2>1 DEF EmbryosOwned
  <2>3. \A r \in Procs : state'[r] = "UNUSED" => parent'[r] = NoProc
    BY <1>q, <1>u DEF EmbryosOwned
  <2> QED BY EmbryosKept, <2>1, <2>2, <2>3
<1>5. InitAlive'
  BY <1>0, <1>q, <1>u DEF InitAlive, Alive, EmbryosOwned, Forking
<1>6. WaitChannel'
  BY <1>0, <1>q, <1>u DEF WaitChannel, EmbryosOwned, Forking, Alive
<1>7. WaitersInformed'
  BY <1>0, <1>q, <1>u DEF WaitersInformed, Kids, EmbryosOwned, Forking, Alive, WaitChannel,
       InitAlive
<1>8. ParentsAlive'
  BY <1>0, <1>q, <1>u DEF ParentsAlive, Alive, EmbryosOwned, Forking, InitAlive
<1>9. PidsDistinct'
  BY <1>0, <1>q, <1>u DEF PidsDistinct, EmbryosOwned, Forking, Alive
<1>10. KilledWasNamed'
  BY <1>0, <1>q, <1>u DEF KilledWasNamed, PidsDistinct, EmbryosOwned, Forking, Alive
<1> QED BY <1>1, <1>2, <1>3, <1>4, <1>5, <1>6, <1>7, <1>8, <1>9, <1>10

\* A trap marks the running process itself.
LEMMA MisbehavesStep ==
    ASSUME IInv, NEW p \in Procs, NEW c \in CPUs, Misbehaves(p, c)
    PROVE  IInv'
<1> USE ProcAssumption DEF Procs, NoProc, initproc, Ticks
<1> USE DEF IInv, TypeOK, procstate, Labels, Misbehaves, Calls, On, sched
<1>0. state[p] = "RUNNING"
  BY DEF OneCpu
<1>1. TypeOK'
  <2>1. killed' \in [Procs -> BOOLEAN] /\ state' \in [Procs -> procstate]
    OBVIOUS
  <2>2. /\ pid[p] \in 0 .. MaxPid /\ named \in SUBSET (0 .. MaxPid)
        /\ named' = named \cup {pid[p]}
    OBVIOUS
  <2>3. named' \subseteq 0 .. MaxPid
    BY ONLY <2>2
  <2> QED BY <2>1, <2>3
<1>2. PidsDistinct'
  BY <1>0 DEF PidsDistinct, EmbryosOwned, Forking, Alive
<1>3. KilledWasNamed'
  BY <1>0 DEF KilledWasNamed, PidsDistinct, EmbryosOwned, Forking, Alive
<1>4. (OneCpu /\ ContextSaved /\ WaitChannel)'
  BY DEF OneCpu, ContextSaved, WaitChannel
<1>5. (EmbryosOwned /\ InitAlive)'
  BY DEF EmbryosOwned, Forking, Alive, InitAlive
<1>6. (WaitersInformed /\ ParentsAlive)'
  BY DEF WaitersInformed, Kids, ParentsAlive, Alive
<1> QED BY <1>1, <1>2, <1>3, <1>4, <1>5, <1>6

\* yield hands the lock to the scheduler.
LEMMA YieldStep ==
    ASSUME IInv, NEW p \in Procs, NEW c \in CPUs, Yield(p, c)
    PROVE  IInv'
<1> USE ProcAssumption DEF Procs, NoProc, initproc, Ticks
<1> USE DEF IInv, TypeOK, procstate, Labels, Yield, Calls, On, Free, SwitchAway
<1>0. state[p] = "RUNNING"
  BY DEF OneCpu
<1>1. TypeOK'
  BY <1>0
<1>2. OneCpu'
  <2>1. /\ cpu[c] = p /\ lock = NoCpu
        /\ cpu' = [cpu EXCEPT ![c] = NoProc]
        /\ switched' = [switched EXCEPT ![p] = TRUE] /\ lock' = c
    OBVIOUS
  <2>2. \A r \in Procs : state'[r] = "RUNNING" <=> state[r] = "RUNNING" /\ r # p
    OBVIOUS
  <2>3. \A d \in CPUs : lock = d => d = c
    BY ONLY <2>1, ProcAssumption
  <2>4. TypeOK /\ OneCpu
    OBVIOUS
  <2> HIDE DEF TypeOK, Procs, NoProc
  <2> QED
    BY ONLY <2>1, <2>2, <2>3, <2>4, SwitchAwayOneCpu, p \in Procs, c \in CPUs
<1>3. ContextSaved'
  BY <1>0 DEF ContextSaved, EmbryosOwned, Forking, Alive
<1>4. EmbryosOwned'
  BY <1>0 DEF EmbryosOwned, Forking, Alive
<1>5. InitAlive'
  BY <1>0 DEF InitAlive, Alive, EmbryosOwned, Forking
<1>6. WaitChannel'
  BY <1>0 DEF WaitChannel, EmbryosOwned, Forking, Alive
<1>7. WaitersInformed'
  BY <1>0 DEF WaitersInformed, Kids, EmbryosOwned, Forking, Alive, WaitChannel,
       InitAlive
<1>8. ParentsAlive'
  BY <1>0 DEF ParentsAlive, Alive, EmbryosOwned, Forking, InitAlive
<1>9. PidsDistinct'
  BY <1>0 DEF PidsDistinct, EmbryosOwned, Forking, Alive
<1>10. KilledWasNamed'
  BY DEF KilledWasNamed
<1> QED BY <1>1, <1>2, <1>3, <1>4, <1>5, <1>6, <1>7, <1>8, <1>9, <1>10

\* The scheduler takes the free lock.
LEMMA SchedAcquireStep ==
    ASSUME IInv, NEW c \in CPUs, SchedAcquire(c)
    PROVE  IInv'
<1> USE ProcAssumption DEF Procs, NoProc, initproc, Ticks
<1> USE DEF IInv, TypeOK, procstate, Labels, SchedAcquire, Free
<1>1. TypeOK'
  BY SMT
<1>2. OneCpu'
  BY DEF OneCpu, EmbryosOwned, Forking, Alive
<1>3. (ContextSaved /\ WaitChannel /\ PidsDistinct /\ KilledWasNamed)'
  BY DEF ContextSaved, WaitChannel, PidsDistinct, KilledWasNamed
<1>4. (EmbryosOwned /\ InitAlive)'
  BY DEF EmbryosOwned, Forking, Alive, InitAlive
<1>5. (WaitersInformed /\ ParentsAlive)'
  BY DEF WaitersInformed, Kids, ParentsAlive, Alive
<1> QED BY <1>1, <1>2, <1>3, <1>4, <1>5

\* The scheduler runs a process that is on no CPU and whose context is
\* saved.
LEMMA SchedPickStep ==
    ASSUME IInv, NEW c \in CPUs, SchedPick(c)
    PROVE  IInv'
<1> USE ProcAssumption DEF Procs, NoProc, initproc, Ticks
<1> USE DEF IInv, TypeOK, procstate, Labels, SchedPick, Runnable, Picked, Resumes
<1>q. PICK q \in Procs :
         /\ state[q] = "RUNNABLE"
         /\ state' = [state EXCEPT ![q] = "RUNNING"]
         /\ cpu' = [cpu EXCEPT ![c] = q]
         /\ at' = [at EXCEPT ![c] = q + 1]
  OBVIOUS
<1>1. TypeOK'
  <2>1. state' \in [Procs -> procstate]
    BY <1>q
  <2>2. cpu' \in [CPUs -> Procs \cup {NoProc}]
    BY <1>q
  <2>3. at' \in [CPUs -> 0 .. NPROC]
    BY <1>q
  <2> QED BY <2>1, <2>2, <2>3
<1>2. OneCpu'
  <2>1. \A d \in CPUs : cpu[d] # q
    BY <1>q DEF OneCpu
  <2>2. \A r \in Procs : (\E d \in CPUs : cpu'[d] = r)
                          <=> (\E d \in CPUs : cpu[d] = r) \/ r = q
    BY <1>q
  <2>3. \A r \in Procs : state'[r] = "RUNNING" <=> state[r] = "RUNNING" \/ r = q
    BY <1>q
  <2>4. \A d, e \in CPUs : cpu'[d] = cpu'[e] /\ cpu'[d] # NoProc => d = e
    BY <1>q, <2>1 DEF OneCpu
  <2>5. \A d \in CPUs : cpu'[d] # NoProc => (switched[cpu'[d]] <=> lock = d)
    BY <1>q DEF OneCpu, ContextSaved
  <2> QED BY <2>2, <2>3, <2>4, <2>5 DEF OneCpu
<1>3. ContextSaved'
  BY DEF ContextSaved, OneCpu, EmbryosOwned, Forking, Alive
<1>4. EmbryosOwned'
  BY DEF EmbryosOwned, Forking, Alive, OneCpu
<1>5. InitAlive'
  BY DEF InitAlive, Alive, OneCpu, EmbryosOwned, Forking
<1>6. WaitChannel'
  BY DEF WaitChannel, OneCpu, EmbryosOwned, Forking, Alive
<1>7. WaitersInformed'
  BY DEF WaitersInformed, Kids, OneCpu, EmbryosOwned, Forking, Alive, WaitChannel,
       InitAlive
<1>8. ParentsAlive'
  BY DEF ParentsAlive, Alive, OneCpu, EmbryosOwned, Forking, InitAlive
<1>9. PidsDistinct'
  BY DEF PidsDistinct, OneCpu, EmbryosOwned, Forking, Alive
<1>10. KilledWasNamed'
  BY DEF KilledWasNamed
<1> QED BY <1>1, <1>2, <1>3, <1>4, <1>5, <1>6, <1>7, <1>8, <1>9, <1>10

\* The scheduler releases the lock it holds.
LEMMA SchedReleaseStep ==
    ASSUME IInv, NEW c \in CPUs, SchedRelease(c)
    PROVE  IInv'
<1> USE ProcAssumption DEF Procs, NoProc, initproc, Ticks
<1> USE DEF IInv, TypeOK, procstate, Labels, SchedRelease, Runnable
<1>1. TypeOK'
  BY SMT
<1>2. OneCpu'
  BY DEF OneCpu, EmbryosOwned, Forking, Alive
<1>3. (ContextSaved /\ WaitChannel /\ PidsDistinct /\ KilledWasNamed)'
  BY DEF ContextSaved, WaitChannel, PidsDistinct, KilledWasNamed
<1>4. (EmbryosOwned /\ InitAlive)'
  BY DEF EmbryosOwned, Forking, Alive, InitAlive
<1>5. (WaitersInformed /\ ParentsAlive)'
  BY DEF WaitersInformed, Kids, ParentsAlive, Alive
<1> QED BY <1>1, <1>2, <1>3, <1>4, <1>5

\* The process the scheduler switched to releases the lock.
LEMMA ResumeStep ==
    ASSUME IInv, NEW p \in Procs, NEW c \in CPUs, Resume(p, c)
    PROVE  IInv'
<1> USE ProcAssumption DEF Procs, NoProc, initproc, Ticks
<1> USE DEF IInv, TypeOK, procstate, Labels, Resume
<1>0. state[p] = "RUNNING"
  BY DEF OneCpu
<1>1. TypeOK'
  BY <1>0
<1>2. OneCpu'
  <2>1. \A d \in CPUs \ {c} : cpu[d] # p /\ (cpu[d] # NoProc => ~switched[cpu[d]])
    BY DEF OneCpu
  <2>2. \A d \in CPUs : cpu[d] # NoProc => ~switched'[cpu[d]]
    BY <2>1
  <2> QED BY <2>2 DEF OneCpu
<1>3. ContextSaved'
  BY <1>0 DEF ContextSaved, EmbryosOwned, Forking, Alive
<1>4. WaitChannel'
  BY <1>0 DEF WaitChannel, EmbryosOwned, Forking, Alive
<1>5. (PidsDistinct /\ KilledWasNamed)'
  BY DEF PidsDistinct, KilledWasNamed
<1>6. (EmbryosOwned /\ InitAlive)'
  BY DEF EmbryosOwned, Forking, Alive, InitAlive
<1>7. (WaitersInformed /\ ParentsAlive)'
  BY DEF WaitersInformed, Kids, ParentsAlive, Alive
<1> QED BY <1>1, <1>2, <1>3, <1>4, <1>5, <1>6, <1>7

----------------------------------------------------------------------------
(* The invariant *)

\* The state userinit leaves satisfies the invariant.
LEMMA InitIInv == Init => IInv
<1> USE ProcAssumption DEF Init, IInv, Procs, NoProc, initproc, Ticks
<1>1. Init => TypeOK
  BY DEF TypeOK, procstate, Labels
<1>2. Init => OneCpu
  BY DEF OneCpu
<1>6. Init => ContextSaved
  BY DEF ContextSaved
<1>3. Init => EmbryosOwned /\ InitAlive
  BY DEF EmbryosOwned, Forking, InitAlive, Alive
<1>4. Init => WaitChannel /\ WaitersInformed /\ ParentsAlive
  BY DEF WaitChannel, WaitersInformed, ParentsAlive, Alive
<1>5. Init => PidsDistinct /\ KilledWasNamed
  BY DEF PidsDistinct, KilledWasNamed
<1> QED BY <1>1, <1>2, <1>3, <1>4, <1>5, <1>6

\* Every step of a CPU or a program preserves it.
LEMMA NextIInv == IInv /\ [Next]_vars => IInv'
<1> SUFFICES ASSUME IInv, [Next]_vars PROVE IInv'
  OBVIOUS
<1>1. CASE UNCHANGED vars
  BY <1>1 DEF vars, IInv, TypeOK, OneCpu, ContextSaved, EmbryosOwned, Forking, Alive,
        InitAlive, WaitChannel, WaitersInformed, Kids, ParentsAlive, PidsDistinct,
        KilledWasNamed
<1>2. CASE Tick
  BY <1>2, TickStep
<1>3. ASSUME NEW c \in CPUs, SchedAcquire(c) \/ SchedPick(c) \/ SchedRelease(c)
      PROVE  IInv'
  BY <1>3, SchedAcquireStep, SchedPickStep, SchedReleaseStep
<1>4. ASSUME NEW c \in CPUs, NEW p \in Procs,
             \/ Resume(p, c) \/ Yield(p, c)
             \/ ForkNoMemory(p, c) \/ ForkCopy(p, c) \/ ForkReady(p, c)
             \/ ExitCall(p, c) \/ Exit(p, c)
             \/ WaitReap(p, c) \/ WaitFails(p, c) \/ WaitSleeps(p, c)
             \/ TicksReturn(p, c) \/ TicksSleep(p, c)
      PROVE  IInv'
  BY <1>4, ResumeStep, YieldStep, ForkNoMemoryStep, ForkCopyStep, ForkReadyStep,
     ExitCallStep, ExitStep, WaitReapStep, WaitFailsStep, WaitSleepsStep,
     TicksReturnStep, TicksSleepStep
<1>5. ASSUME NEW c \in CPUs, NEW p \in Procs,
             \/ AllocProc(p, c) \/ TicksTest(p, c) \/ Misbehaves(p, c)
             \/ \E n \in 0 .. MaxPid : Kill(p, c, n)
      PROVE  IInv'
  BY <1>5, AllocProcStep, TicksTestStep, MisbehavesStep, KillStep
<1>6. ASSUME NEW c \in CPUs, CpuStep(c) PROVE IInv'
  BY <1>3, <1>4, <1>6 DEF CpuStep
<1>7. ASSUME NEW c \in CPUs, Call(c) PROVE IInv'
  BY <1>4, <1>5, <1>7 DEF Call
<1> QED BY <1>1, <1>2, <1>6, <1>7 DEF Next

\* The invariant of proc.c holds in every reachable state.
THEOREM IInvHolds == Spec => []IInv
BY InitIInv, NextIInv, PTL DEF Spec

(***************************************************************************)
(* ptable.lock is handed over correctly and a process runs on one CPU at a *)
(* time (scheduler, sched, yield, forkret), for any number of both.        *)
(***************************************************************************)
THEOREM OneCpuHolds == Spec => []OneCpu
<1>1. IInv => OneCpu
  BY DEF IInv
<1> QED BY <1>1, IInvHolds, PTL

(***************************************************************************)
(* No process sleeps in wait beside a zombie child (exit, wait).           *)
(***************************************************************************)
THEOREM WaitersInformedHolds == Spec => []WaitersInformed
<1>1. IInv => WaitersInformed
  BY DEF IInv
<1> QED BY <1>1, IInvHolds, PTL

(***************************************************************************)
(* Every process but init has a parent that can wait for it (fork, exit).  *)
(***************************************************************************)
THEOREM ParentsAliveHolds == Spec => []ParentsAlive
<1>1. IInv => ParentsAlive
  BY DEF IInv
<1> QED BY <1>1, IInvHolds, PTL

(***************************************************************************)
(* A mark of kill belongs to the process that has the entry now (kill,     *)
(* wait, allocproc), or was left there while the entry had no process.     *)
(***************************************************************************)
THEOREM KilledWasNamedHolds == Spec => []KilledWasNamed
<1>1. IInv => KilledWasNamed
  BY DEF IInv
<1> QED BY <1>1, IInvHolds, PTL
============================================================================
