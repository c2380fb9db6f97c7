------------------------------- MODULE MCPrintf -------------------------------
(***************************************************************************)
(* All formats of up to five characters over "%", "d", "x", "s", "c" and   *)
(* one that is no directive, with an int of eight bits.                    *)
(***************************************************************************)
EXTENDS Printf

AllFormats == UNION {[1 .. n -> {"%", "d", "x", "s", "c", "a"}] : n \in 0 .. 5}

\* The ends of int, of one digit and of two digits in both bases.
EdgeInts == {-128, -100, -10, -1, 0, 9, 10, 15, 16, 100, 127}

\* Lengths that add up to INT_MAX and to one more.
SomeStrings == {<<>>, <<"b">>, <<"%">>} \cup {[k \in 1 .. n |-> "b"] : n \in {63, 64}}
=============================================================================
