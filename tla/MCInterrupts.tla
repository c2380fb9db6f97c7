---------------------------- MODULE MCInterrupts ----------------------------
(* Two lines on the master, two on the slave (the first of them at the      *)
(* boundary vector 40), one of the four masked; the two vectors the kernel  *)
(* registers for.                                                           *)
EXTENDS Interrupts

MCDevices == {0, 1, 8, 14}
MCMasked  == {14}
MCHooked  == {0, 32}
MCFaults  == {0, 13}
=============================================================================
