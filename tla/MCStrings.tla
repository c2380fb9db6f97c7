------------------------------- MODULE MCStrings -------------------------------
(* Four bytes: regions that overlap by one to three bytes, both ways.  200   *)
(* is a negative char; the fills are one too large and one too small.        *)
EXTENDS Strings

MCValues == {0, 1, 200}
MCFills  == {456, -255}
=============================================================================
