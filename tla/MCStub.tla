-------------------------------- MODULE MCStub --------------------------------
(* A line of each controller, an exception with and one without an error     *)
(* code, the last stub of ISR_ERRCODE the processor uses.                    *)
EXTENDS Stub

MCIrqs   == {32, 47}
MCFaults == {0, 14, 17}
=============================================================================
