-------------------------------- MODULE MCFs --------------------------------
(* Instances of Fs for TLC. *)
EXTENDS Fs, TLC

Root == [abs |-> TRUE, elems |-> <<>>]
A == [abs |-> FALSE, elems |-> <<"a">>]
B == [abs |-> FALSE, elems |-> <<"b">>]
AB == [abs |-> TRUE, elems |-> <<"a", "b">>]
Up == [abs |-> FALSE, elems |-> <<"..">>]
Does(call, paths) == [call : {call}, path : paths, new : {NoPath}]

MCRequests ==
    UNION {Does("open", {A, B}), Does("openr", {A, Up}), Does("create", {A, AB}), Does("mkdir", {A, Root}),
           Does("mknod", {A}), Does("unlink", {A, B, AB}), Does("chdir", {A, Root}),
           [call : {"link"}, path : {B, A}, new : {A, AB, Root}]}
MCPrograms == <<"b">>
Symmetry == Permutations(Procs)

\* Directories made and removed under a process that then looks for the parent
\* of the one it is in.
AbsA == [abs |-> TRUE, elems |-> <<"a">>]
UpRequests ==
    UNION {Does("mkdir", {AbsA, AB}), Does("unlink", {AbsA, AB}), Does("chdir", {AB}), Does("openr", {Up})}
NoPrograms == <<>>
=============================================================================
