------------------------------- MODULE Parse -------------------------------
(***************************************************************************)
(* The shell's parser (sh.c).  A line is the sequence of its tokens as     *)
(* gettoken returns them: "|", "&", ";", "<", ">", "+" for >>, "(", ")",   *)
(* and words.  A function that panics returns the command Error, which     *)
(* makes the shell's child exit.                                           *)
(***************************************************************************)
EXTENDS Naturals, Sequences, SequencesExt

CONSTANTS Words, MAXARGS

Error == [type |-> "ERROR"]

\* The constructors.
execcmd(argv) == [type |-> "EXEC", argv |-> argv]
redircmd(cmd, file, create, fd) ==
    [type |-> "REDIR", cmd |-> cmd, file |-> file, create |-> create, fd |-> fd]
pipecmd(left, right) == [type |-> "PIPE", left |-> left, right |-> right]
listcmd(left, right) == [type |-> "LIST", left |-> left, right |-> right]
backcmd(cmd) == [type |-> "BACK", cmd |-> cmd]

\* What a parsing function returns: the command and the tokens that are left.
Parsed(cmd, rest) == [cmd |-> cmd, rest |-> rest]
Panic == Parsed(Error, <<>>)

peek(s, toks) == s # <<>> /\ Head(s) \in toks

\* < is O_RDONLY on 0; > and >> are both O_WRONLY|O_CREATE on 1.
Redirect(cmd, tok, file) ==
    IF tok = "<" THEN redircmd(cmd, file, FALSE, 0) ELSE redircmd(cmd, file, TRUE, 1)

RECURSIVE parseline(_), parsepipe(_), parseexec(_), parseredirs(_, _), backs(_, _), args(_, _, _)

parseredirs(cmd, s) ==
    IF ~peek(s, {"<", ">", "+"}) THEN Parsed(cmd, s)
    ELSE IF ~peek(Tail(s), Words) THEN Panic
    ELSE parseredirs(Redirect(cmd, s[1], s[2]), SubSeq(s, 3, Len(s)))

parseblock(s) ==
    LET line == parseline(Tail(s))
    IN  IF line.cmd = Error \/ ~peek(line.rest, {")"}) THEN Panic
        ELSE parseredirs(line.cmd, Tail(line.rest))

\* The words go to the innermost command, which the redirections enclose: with
\* argv, the redirections r = parseredirs(...) around an empty place.
Enclose(r, cmd) == FoldLeft(LAMBDA c, t : Redirect(c, t[1], t[2]), cmd, r)

args(argv, r, s) ==
    IF s = <<>> \/ peek(s, {"|", ")", "&", ";"}) THEN Parsed(Enclose(r, execcmd(argv)), s)
    ELSE IF peek(s, {"<", ">", "+"})
         THEN IF peek(Tail(s), Words)
              THEN args(argv, Append(r, <<s[1], s[2]>>), SubSeq(s, 3, Len(s)))
              ELSE Panic
    ELSE IF Head(s) \notin Words \/ Len(argv) + 1 >= MAXARGS THEN Panic
    ELSE args(Append(argv, Head(s)), r, Tail(s))

parseexec(s) == IF peek(s, {"("}) THEN parseblock(s) ELSE args(<<>>, <<>>, s)

\* Mutant: what follows the | is one command, not a pipeline.
parsepipe_Two(s) ==
    LET left == parseexec(s)
    IN  IF left.cmd = Error \/ ~peek(left.rest, {"|"}) THEN left
        ELSE LET right == parseexec(Tail(left.rest))
             IN  IF right.cmd = Error THEN Panic ELSE Parsed(pipecmd(left.cmd, right.cmd), right.rest)

parsepipe(s) ==
    LET left == parseexec(s)
    IN  IF left.cmd = Error \/ ~peek(left.rest, {"|"}) THEN left
        ELSE LET right == parsepipe(Tail(left.rest))
             IN  IF right.cmd = Error THEN Panic ELSE Parsed(pipecmd(left.cmd, right.cmd), right.rest)

backs(cmd, s) == IF peek(s, {"&"}) THEN backs(backcmd(cmd), Tail(s)) ELSE Parsed(cmd, s)

parseline(s) ==
    LET pipe == parsepipe(s)
        back == backs(pipe.cmd, pipe.rest)
    IN  IF pipe.cmd = Error THEN Panic
        ELSE IF ~peek(back.rest, {";"}) THEN back
        ELSE LET list == parseline(Tail(back.rest))
             IN  IF list.cmd = Error THEN Panic ELSE Parsed(listcmd(back.cmd, list.cmd), list.rest)

\* Tokens that are left over are a syntax error.
parsecmd(s) == LET line == parseline(s) IN IF line.rest # <<>> THEN Error ELSE line.cmd

----------------------------------------------------------------------------
(* Reference: what a line means, by where its operators stand.             *)

\* Position i of s is outside all parentheses.
Outside(s, i) ==
    Len(SelectSeq(SubSeq(s, 1, i - 1), LAMBDA t : t = "(")) =
    Len(SelectSeq(SubSeq(s, 1, i - 1), LAMBDA t : t = ")"))

\* The positions of tok outside all parentheses.
Outer(s, tok) == {i \in 1 .. Len(s) : s[i] = tok /\ Outside(s, i)}
First(S) == CHOOSE i \in S : \A j \in S : i <= j
Before(s, i) == SubSeq(s, 1, i - 1)
After(s, i) == SubSeq(s, i + 1, Len(s))

\* The positions of the files of redirections.
FilesOf(s) == {i \in 2 .. Len(s) : s[i - 1] \in {"<", ">", "+"}}
OnlyRedirects(s) == \A i \in 1 .. Len(s) : s[i] \in {"<", ">", "+"} \/ i \in FilesOf(s)
Redirects(s, cmd) ==
    Enclose([k \in 1 .. Cardinality(FilesOf(s)) |->
                LET i == CHOOSE j \in FilesOf(s) : Cardinality({h \in FilesOf(s) : h <= j}) = k
                IN  <<s[i - 1], s[i]>>], cmd)
\* Every redirection names a file, and nothing but words stands beside it.
WellRedirected(s) ==
    /\ \A i \in FilesOf(s) : s[i] \in Words
    /\ s # <<>> => Last(s) \notin {"<", ">", "+"}

Simple(s) ==
    LET words == [k \in 1 .. Len(s) |-> IF k \in FilesOf(s) \/ s[k] \notin Words THEN "" ELSE s[k]]
        argv == SelectSeq(words, LAMBDA w : w # "")
    IN  IF /\ \A i \in 1 .. Len(s) : s[i] \in Words \cup {"<", ">", "+"}
           /\ WellRedirected(s) /\ Len(argv) < MAXARGS
        THEN Redirects(s, execcmd(argv))
        ELSE Error

Combine(f(_, _), left, right) == IF Error \in {left, right} THEN Error ELSE f(left, right)

RECURSIVE LineMeans(_), PipeMeans(_), BackMeans(_)
BlockMeans(s) ==
    LET close == {i \in 2 .. Len(s) : s[i] = ")" /\ Outside(s, i + 1)}
    IN  IF close = {} THEN Error
        ELSE LET i == First(close)
                 body == LineMeans(SubSeq(s, 2, i - 1))
             IN  IF body # Error /\ OnlyRedirects(After(s, i)) /\ WellRedirected(After(s, i))
                 THEN Redirects(After(s, i), body) ELSE Error

CommandMeans(s) == IF peek(s, {"("}) THEN BlockMeans(s) ELSE Simple(s)

PipeMeans(s) ==
    IF Outer(s, "|") = {} THEN CommandMeans(s)
    ELSE LET i == First(Outer(s, "|"))
         IN  Combine(pipecmd, CommandMeans(Before(s, i)), PipeMeans(After(s, i)))

BackMeans(s) ==
    IF peek(Reverse(s), {"&"})
    THEN LET c == BackMeans(Front(s)) IN IF c = Error THEN Error ELSE backcmd(c)
    ELSE IF Outer(s, "&") # {} THEN Error ELSE PipeMeans(s)

LineMeans(s) ==
    IF Outer(s, ";") = {} THEN BackMeans(s)
    ELSE LET i == First(Outer(s, ";"))
         IN  Combine(listcmd, BackMeans(Before(s, i)), LineMeans(After(s, i)))
=============================================================================
