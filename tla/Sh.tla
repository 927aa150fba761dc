--------------------------------- MODULE Sh ---------------------------------
(***************************************************************************)
(* The shell (sh.c) that init keeps running, the commands it runs, and the *)
(* open files they share: the file table (file.c), the descriptors of each *)
(* process (sysfile.c), and what fork, exit and wait do to them.           *)
(*                                                                         *)
(* A process is the list of the calls it will make, its code.  A call is a *)
(* step, and so is each fileclose and each pipeclose or iput after it.     *)
(* Pipes are counters here (module Pipe has their locks); files and the    *)
(* console have no contents, a read finds the end of the file.             *)
(***************************************************************************)
EXTENDS Parse, Integers, FiniteSets

CONSTANTS
    NPROC, NFILE, NOFILE,
    NPipes,         \* bound on the pages that kalloc has for pipes
    PIPESIZE,
    Lines,          \* what may be typed
    MaxLines,       \* bound on the lines typed
    Existing,       \* the words that name a file
    Echoed          \* how many bytes echo writes

Procs == 1 .. NPROC
InitProc == 1
Files == 1 .. NFILE
Fds == 0 .. NOFILE - 1
Pipes == 1 .. NPipes

ASSUME ShAssumption ==
    /\ NPROC \in Nat /\ NPROC >= 2 /\ NFILE \in Nat /\ NFILE >= 1
    /\ NOFILE \in Nat /\ NOFILE >= 3 /\ PIPESIZE \in Nat \ {0}
    /\ Existing \subseteq Words

VARIABLES
    state, parent,      \* of each process
    ofile,              \* its descriptors: files, 0 for none
    code,               \* the calls it will make
    p2,                 \* int p[2] of runcmd
    todo,               \* the files that sys_pipe is about to fileclose
    ff,                 \* fileclose's copy of a file it took out of the table
    file, pipe,         \* the file table and the pipes
    sh,                 \* init's pid
    typed,              \* how many lines were typed
    panic

kernel == <<file, pipe>>
vars == <<state, parent, ofile, code, p2, todo, ff, file, pipe, sh, typed, panic>>

NoFile == [ref |-> 0, type |-> "none", pipe |-> 0, readable |-> FALSE, writable |-> FALSE]
NoPipe == [readopen |-> FALSE, writeopen |-> FALSE, n |-> 0]
Inode(create) == [NoFile EXCEPT !.ref = 1, !.type = "inode", !.readable = ~create, !.writable = create]
Console == [NoFile EXCEPT !.ref = 1, !.type = "inode", !.readable = TRUE, !.writable = TRUE]
PipeEnd(k, writable) ==
    [ref |-> 1, type |-> "pipe", pipe |-> k, readable |-> ~writable, writable |-> writable]

Call(op, arg) == [op |-> op, arg |-> arg]
Exit == Call("exit", 0)

\* What init does once its descriptors are open, and a shell when it starts.
InitCode == <<Call("fork", <<Call("main", 0)>>), Call("waitsh", 0)>>

Init ==
    /\ state = [p \in Procs |-> IF p = InitProc THEN "alive" ELSE "unused"]
    /\ parent = [p \in Procs |-> 0]
    /\ ofile = [p \in Procs |-> [fd \in Fds |-> IF p = InitProc /\ fd < 3 THEN 1 ELSE 0]]
    /\ code = [p \in Procs |-> IF p = InitProc THEN InitCode ELSE <<>>]
    /\ p2 = [p \in Procs |-> <<0, 0>>]
    /\ todo = [p \in Procs |-> <<>>]
    /\ ff = [p \in Procs |-> NoFile]
    /\ file = [f \in Files |-> IF f = 1 THEN [Console EXCEPT !.ref = 3] ELSE NoFile]
    /\ pipe = [k \in Pipes |-> NoPipe]
    /\ sh = 0 /\ typed = 0 /\ panic = FALSE

----------------------------------------------------------------------------
(* The file table *)

\* filealloc and fdalloc take the first that is free.
FreeFiles == {f \in Files : file[f].ref = 0}
FreeFds(p) == {fd \in Fds : ofile[p][fd] = 0}
FreePipes == {k \in Pipes : ~pipe[k].readopen /\ ~pipe[k].writeopen}
Second(S) == First(S \ {First(S)})

\* p makes the call op; it is not inside an earlier one.
At(p, op) ==
    /\ ~panic /\ state[p] = "alive" /\ todo[p] = <<>> /\ ff[p] = NoFile
    /\ code[p][1].op = op
Arg(p) == code[p][1].arg
Continue(p) == code' = [code EXCEPT ![p] = Tail(@)]
Become(p, c) == code' = [code EXCEPT ![p] = c]

\* fileclose, first half, under ftable.lock: one reference less; the last one
\* takes a copy of the file.
Drop(p, f) ==
    /\ file' = [file EXCEPT ![f] = IF @.ref = 1 THEN NoFile ELSE [@ EXCEPT !.ref = @ - 1]]
    /\ ff' = IF file[f].ref = 1 /\ file[f].type # "none" THEN [ff EXCEPT ![p] = file[f]] ELSE ff

\* The files of a call that failed.
FileClose(p) ==
    /\ ~panic /\ todo[p] # <<>> /\ ff[p] = NoFile
    /\ Drop(p, Head(todo[p]))
    /\ todo' = [todo EXCEPT ![p] = Tail(@)]
    /\ UNCHANGED <<state, parent, ofile, code, p2, pipe, sh, typed, panic>>

\* Second half: pipeclose, or iput (module Fs).
CloseCopy(p) ==
    /\ ~panic /\ ff[p] # NoFile
    /\ pipe' = IF ff[p].type # "pipe" THEN pipe
               ELSE [pipe EXCEPT ![ff[p].pipe] =
                        LET open == IF ff[p].writable THEN [@ EXCEPT !.writeopen = FALSE]
                                    ELSE [@ EXCEPT !.readopen = FALSE]
                        IN  IF open.readopen \/ open.writeopen THEN open ELSE NoPipe]
    /\ ff' = [ff EXCEPT ![p] = NoFile]
    /\ UNCHANGED <<state, parent, ofile, code, p2, todo, file, sh, typed, panic>>

----------------------------------------------------------------------------
(* System calls on files *)

\* sys_close, of a constant or of p[k].
CloseFd(p, fd) ==
    /\ ofile' = [ofile EXCEPT ![p][fd] = 0]
    /\ IF ofile[p][fd] = 0 THEN UNCHANGED <<file, ff>> ELSE Drop(p, ofile[p][fd])
    /\ Continue(p)
    /\ UNCHANGED <<state, parent, p2, todo, pipe, sh, typed, panic>>

SysClose(p) ==
    \/ At(p, "close") /\ CloseFd(p, Arg(p))
    \/ At(p, "closep") /\ CloseFd(p, p2[p][Arg(p)])

\* Mutant: dup gives out the file without counting the reference.
Dup_NoRef(f) == file' = file

\* filedup.
Dup(f) == file' = [file EXCEPT ![f].ref = @ + 1]

\* sys_dup of p[k] or of 0; the result is not looked at.
SysDup(p) ==
    /\ At(p, "dupp") \/ At(p, "dup")
    /\ LET f == ofile[p][IF At(p, "dup") THEN Arg(p) ELSE p2[p][Arg(p)]]
       IN  IF FreeFds(p) = {} THEN UNCHANGED <<ofile, file>>
           ELSE /\ ofile' = [ofile EXCEPT ![p][First(FreeFds(p))] = f]
                /\ Dup(f)
    /\ Continue(p)
    /\ UNCHANGED <<state, parent, p2, todo, ff, pipe, sh, typed, panic>>

\* sys_open and the exit of runcmd if it fails; the argument is <<name, create>>.
SysOpen(p) ==
    /\ At(p, "open")
    /\ IF \/ FreeFiles = {} \/ FreeFds(p) = {}
          \/ ~Arg(p)[2] /\ Arg(p)[1] \notin Existing
       THEN Become(p, <<Exit>>) /\ UNCHANGED <<ofile, file>>
       ELSE /\ file' = [file EXCEPT ![First(FreeFiles)] = Inode(Arg(p)[2])]
            /\ ofile' = [ofile EXCEPT ![p][First(FreeFds(p))] = First(FreeFiles)]
            /\ Continue(p)
    /\ UNCHANGED <<state, parent, p2, todo, ff, pipe, sh, typed, panic>>

\* sys_pipe, and panic("pipe") if it fails: pipealloc closes the files it has,
\* sys_pipe takes back the descriptor and closes both.
SysPipe(p) ==
    /\ At(p, "pipe")
    /\ LET rf == First(FreeFiles)
           wf == Second(FreeFiles)
           k == First(FreePipes)
           bare(f) == [NoFile EXCEPT !.ref = 1]
       IN  CASE FreeFiles = {} ->
                    Become(p, <<Exit>>) /\ UNCHANGED <<ofile, p2, todo, kernel>>
             [] Cardinality(FreeFiles) = 1 ->
                    /\ file' = [file EXCEPT ![rf] = bare(rf)]
                    /\ todo' = [todo EXCEPT ![p] = <<rf>>]
                    /\ Become(p, <<Exit>>) /\ UNCHANGED <<ofile, p2, pipe>>
             [] Cardinality(FreeFiles) > 1 /\ FreePipes = {} ->
                    /\ file' = [file EXCEPT ![rf] = bare(rf), ![wf] = bare(wf)]
                    /\ todo' = [todo EXCEPT ![p] = <<rf, wf>>]
                    /\ Become(p, <<Exit>>) /\ UNCHANGED <<ofile, p2, pipe>>
             [] OTHER ->
                    /\ file' = [file EXCEPT ![rf] = PipeEnd(k, FALSE), ![wf] = PipeEnd(k, TRUE)]
                    /\ pipe' = [pipe EXCEPT ![k] = [readopen |-> TRUE, writeopen |-> TRUE, n |-> 0]]
                    /\ IF Cardinality(FreeFds(p)) < 2
                       THEN /\ todo' = [todo EXCEPT ![p] = <<rf, wf>>]
                            /\ Become(p, <<Exit>>) /\ UNCHANGED <<ofile, p2>>
                       ELSE LET fd0 == First(FreeFds(p))
                                fd1 == Second(FreeFds(p))
                            IN  /\ ofile' = [ofile EXCEPT ![p][fd0] = rf, ![p][fd1] = wf]
                                /\ p2' = [p2 EXCEPT ![p] = <<fd0, fd1>>]
                                /\ Continue(p) /\ UNCHANGED todo
    /\ UNCHANGED <<state, parent, ff, sh, typed, panic>>

\* A write by p to descriptor 1: the pipe is full, and then that its reader is
\* gone is an error; anything else takes the byte.
Out(p) == file[ofile[p][1]]
Full(p) == Out(p).type = "pipe" /\ pipe[Out(p).pipe].n = PIPESIZE
Broken(p) == ~Out(p).writable \/ (Full(p) /\ ~pipe[Out(p).pipe].readopen)
Stored(p) == IF Out(p).type = "pipe" THEN [pipe EXCEPT ![Out(p).pipe].n = @ + 1] ELSE pipe

\* echo goes on whatever write returns, cat exits if it fails.
Write(p) ==
    /\ At(p, "write") \/ At(p, "copy")
    /\ \/ /\ Broken(p)
          /\ IF At(p, "copy") THEN Become(p, <<Exit>>) ELSE Continue(p)
          /\ UNCHANGED pipe
       \/ /\ ~Broken(p) /\ ~Full(p)
          /\ pipe' = Stored(p)
          /\ Continue(p)
    /\ UNCHANGED <<state, parent, ofile, p2, todo, ff, file, sh, typed, panic>>

\* cat reads descriptor 0: what is in the pipe, or nothing once no writer is left.
In(p) == file[ofile[p][0]]
Read(p) ==
    /\ At(p, "cat")
    /\ \/ /\ In(p).type = "pipe" /\ pipe[In(p).pipe].n > 0
          /\ pipe' = [pipe EXCEPT ![In(p).pipe].n = 0]
          /\ Become(p, <<Call("copy", 0)>> \o code[p])
       \/ /\ In(p).type = "pipe" => pipe[In(p).pipe].n = 0 /\ ~pipe[In(p).pipe].writeopen
          /\ Become(p, <<Exit>>)
          /\ UNCHANGED pipe
    /\ UNCHANGED <<state, parent, ofile, p2, todo, ff, file, sh, typed, panic>>

----------------------------------------------------------------------------
(* Processes *)

\* How many descriptors of p are file f.
Uses(p, f) == Cardinality({fd \in Fds : ofile[p][fd] = f})

\* fork; the child runs the code of the argument.  Without a process fork1
\* panics, which ends the caller; it is the end of the system if it is init.
Fork(p) ==
    /\ At(p, "fork")
    /\ \/ /\ \A c \in Procs : state[c] # "unused"
          /\ IF p = InitProc THEN panic' = TRUE /\ UNCHANGED code
             ELSE Become(p, <<Exit>>) /\ UNCHANGED panic
          /\ UNCHANGED <<state, parent, ofile, p2, file, sh>>
       \/ /\ \E c \in Procs : state[c] = "unused"
          /\ LET c == First({q \in Procs : state[q] = "unused"})
             IN  /\ state' = [state EXCEPT ![c] = "alive"]
                 /\ parent' = [parent EXCEPT ![c] = p]
                 /\ ofile' = [ofile EXCEPT ![c] = ofile[p]]
                 /\ p2' = [p2 EXCEPT ![c] = p2[p]]
                 /\ file' = [f \in Files |-> [file[f] EXCEPT !.ref = @ + Uses(p, f)]]
                 /\ code' = [code EXCEPT ![p] = Tail(@), ![c] = Arg(p)]
                 /\ sh' = IF p = InitProc THEN c ELSE sh
          /\ UNCHANGED panic
    /\ UNCHANGED <<todo, ff, pipe, typed>>

\* exit closes the descriptors one by one ...
ExitClose(p) ==
    /\ At(p, "exit")
    /\ \E fd \in Fds :
          /\ ofile[p][fd] # 0
          /\ \A e \in Fds : e < fd => ofile[p][e] = 0
          /\ ofile' = [ofile EXCEPT ![p][fd] = 0]
          /\ Drop(p, ofile[p][fd])
    /\ UNCHANGED <<state, parent, code, p2, todo, pipe, sh, typed, panic>>

\* ... and then passes the children to init.
ExitDone(p) ==
    /\ At(p, "exit") /\ \A fd \in Fds : ofile[p][fd] = 0
    /\ state' = [state EXCEPT ![p] = "zombie"]
    /\ parent' = [q \in Procs |-> IF parent[q] = p THEN InitProc ELSE parent[q]]
    /\ UNCHANGED <<ofile, code, p2, todo, ff, kernel, sh, typed, panic>>

\* wait, which all callers here call with a child left; init starts another shell
\* once the one it started is gone.
Wait(p) ==
    /\ At(p, "wait") \/ At(p, "waitsh")
    /\ \E q \in Procs :
          /\ state[q] = "zombie" /\ parent[q] = p
          /\ state' = [state EXCEPT ![q] = "unused"]
          /\ parent' = [parent EXCEPT ![q] = 0]
          /\ p2' = [p2 EXCEPT ![q] = <<0, 0>>]
          /\ code' = [code EXCEPT ![q] = <<>>,
                                  ![p] = CASE At(p, "wait") -> Tail(code[p])
                                           [] At(p, "waitsh") /\ q = sh -> InitCode
                                           [] OTHER -> code[p]]
    /\ UNCHANGED <<ofile, todo, ff, kernel, sh, typed, panic>>

----------------------------------------------------------------------------
(* The shell *)

\* main opens the console until it has descriptors 0 to 2, and closes the next.
Main(p) ==
    /\ At(p, "main")
    /\ IF FreeFiles = {} \/ FreeFds(p) = {}
       THEN Become(p, <<Call("getcmd", 0)>>) /\ UNCHANGED <<ofile, file>>
       ELSE LET fd == First(FreeFds(p))
            IN  /\ file' = [file EXCEPT ![First(FreeFiles)] = Console]
                /\ ofile' = [ofile EXCEPT ![p][fd] = First(FreeFiles)]
                /\ Become(p, IF fd >= 3 THEN <<Call("close", fd), Call("getcmd", 0)>> ELSE code[p])
    /\ UNCHANGED <<state, parent, p2, todo, ff, pipe, sh, typed, panic>>

\* main's loop: a line, which a child runs, cd, which the shell does itself
\* (module Fs), or the end of the input.  The child parses the line; what it
\* finds is computed here from the line alone.
Getcmd(p) ==
    /\ At(p, "getcmd") /\ typed < MaxLines
    /\ typed' = typed + 1
    /\ \/ \E line \in Lines :
            Become(p, <<Call("fork", <<Call("parsed", [line |-> line, cmd |-> parsecmd(line)])>>),
                        Call("wait", 0), Call("getcmd", 0)>>)
       \/ UNCHANGED code
       \/ Become(p, <<Exit>>)
    /\ UNCHANGED <<state, parent, ofile, p2, todo, ff, kernel, sh, panic>>

\* What exec of a word starts: echo, cat, a program that runs out of descriptors
\* and then calls pipe, or nothing.
Program(w) ==
    CASE w = "echo" -> [i \in 1 .. Echoed + 1 |-> IF i <= Echoed THEN Call("write", 0) ELSE Exit]
      [] w = "cat" -> <<Call("cat", 0)>>
      [] w = "dups" -> <<Call("dup", 0), Call("pipe", 0), Exit>>
      [] OTHER -> <<Exit>>

Run(cmd) == <<Call("run", cmd)>>

\* Mutant: the shell that waits for a pipeline keeps its write end.
Parent_KeepsWriteEnd == <<Call("closep", 1), Call("wait", 0), Call("wait", 0), Exit>>

\* What the parent does after it has forked both sides of a pipeline.
Parent == <<Call("closep", 1), Call("closep", 2), Call("wait", 0), Call("wait", 0), Exit>>

\* One side of a pipeline: its end k of the pipe takes the place of descriptor fd.
Side(fd, k, cmd) ==
    Call("fork", <<Call("close", fd), Call("dupp", k), Call("closep", 1), Call("closep", 2)>> \o Run(cmd))

runcmd(cmd) ==
    CASE cmd.type = "EXEC" -> IF cmd.argv = <<>> THEN <<Exit>> ELSE Program(cmd.argv[1])
      [] cmd.type = "REDIR" -> <<Call("close", cmd.fd), Call("open", <<cmd.file, cmd.create>>)>> \o Run(cmd.cmd)
      [] cmd.type = "LIST" -> <<Call("fork", Run(cmd.left)), Call("wait", 0)>> \o Run(cmd.right)
      [] cmd.type = "PIPE" -> <<Call("pipe", 0), Side(1, 2, cmd.left), Side(0, 1, cmd.right)>> \o Parent
      [] cmd.type = "BACK" -> <<Call("fork", Run(cmd.cmd)), Exit>>
      [] OTHER -> <<Exit>>

Runcmd(p) ==
    /\ \/ At(p, "run") /\ Become(p, runcmd(Arg(p)))
       \/ At(p, "parsed") /\ Become(p, runcmd(Arg(p).cmd))
    /\ UNCHANGED <<state, parent, ofile, p2, todo, ff, kernel, sh, typed, panic>>

----------------------------------------------------------------------------

\* A step of p that does not wait for a user.
Step(p) ==
    \/ FileClose(p) \/ CloseCopy(p)
    \/ SysClose(p) \/ SysDup(p) \/ SysOpen(p) \/ SysPipe(p) \/ Write(p) \/ Read(p)
    \/ Fork(p) \/ ExitClose(p) \/ ExitDone(p) \/ Wait(p)
    \/ Main(p) \/ Runcmd(p)

Next == \E p \in Procs : Step(p) \/ Getcmd(p)

(***************************************************************************)
(* The scheduler takes the processes that can run in turn, so each that is *)
(* not blocked goes on.  Nobody has to type a line.                        *)
(***************************************************************************)
Spec == Init /\ [][Next]_vars /\ \A p \in Procs : WF_vars(Step(p))

----------------------------------------------------------------------------
(* Properties *)

\* The references to f: descriptors, and closes that were begun.
References(f) ==
    Cardinality({x \in Procs \X Fds : ofile[x[1]][x[2]] = f})
    + Cardinality({x \in Procs \X (1 .. 2) : x[2] <= Len(todo[x[1]]) /\ todo[x[1]][x[2]] = f})

\* The open files that are an end of pipe k, in the table or taken out of it by fileclose.
Ends(k, writable) ==
    {x \in {file[f] : f \in Files} \cup {ff[p] : p \in Procs} :
        x.ref > 0 /\ x.type = "pipe" /\ x.pipe = k /\ x.writable = writable}

(***************************************************************************)
(* A file's ref counts the descriptors that refer to it, across fork, dup, *)
(* close, exit and the failures of open and pipe, and an end of a pipe is  *)
(* open exactly as long as an open file refers to it: no descriptor        *)
(* outlives its file, no file or pipe is lost.                             *)
(***************************************************************************)
FilesCounted ==
    /\ \A f \in Files : file[f].ref = References(f)
    /\ \A k \in Pipes : /\ pipe[k].readopen <=> Ends(k, FALSE) # {}
                        /\ pipe[k].writeopen <=> Ends(k, TRUE) # {}

\* The line that p has parsed means what the operators in it say: LineMeans.
ParsedRight == \A p \in Procs : At(p, "parsed") => Arg(p).cmd = LineMeans(Arg(p).line)

(***************************************************************************)
(* Whatever line is typed, the prompt comes back: every pipeline ends, as  *)
(* each process closes the ends of the pipe it does not use, and a shell   *)
(* that had to exit is replaced.  Unless init itself could not fork.       *)
(***************************************************************************)
PromptReturns ==
    \A k \in 1 .. MaxLines : typed = k ~> panic \/ \E p \in Procs : typed = k /\ At(p, "getcmd")
=============================================================================
