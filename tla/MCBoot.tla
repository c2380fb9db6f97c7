-------------------------------- MODULE MCBoot --------------------------------
(***************************************************************************)
(* The code's request, a floppy and a hard disk, and three status codes.   *)
(***************************************************************************)
EXTENDS Boot

FloppyOrDisk == {0, 128}
SomeCodes    == {0, 4, 32}
=============================================================================
