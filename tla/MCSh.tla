-------------------------------- MODULE MCSh --------------------------------
(***************************************************************************)
(* All lines of up to MaxLength tokens, most of them syntax errors, and    *)
(* some longer ones: pipelines in the background, nested, with             *)
(* redirections that fail, more than the tables can hold.                  *)
(***************************************************************************)
EXTENDS Sh

CONSTANT MaxLength

Symbols == {"|", "&", ";", "<", "+", "(", ")"}
LongLines == {
    <<"cat", "&", ";", "echo", "|", "cat">>,
    <<"echo", "|", "cat", "|", "cat">>,
    <<"(", "echo", ";", "dups", ")", "|", "cat", ">", "x">>,
    <<"cat", "<", "x", "|", "cat">>,
    <<"echo", "|", "x">>,
    <<"dups">> }
MCLines == UNION {[1 .. n -> {"cat"} \cup Symbols] : n \in 0 .. MaxLength} \cup LongLines
=============================================================================
