------------------------------ MODULE MCKernel ------------------------------
(* The timer on line 0 and one slave line that nobody registers for.  The   *)
(* delays give goals of 2 and 3 ticks under a counter that wraps at 4, so   *)
(* that sleeps start at every distance from the wrap.                       *)
EXTENDS Kernel

MCDevices == {0, 8}
MCMasked  == {}
MCHooked  == {0, 32}
MCFaults  == {0}
=============================================================================
