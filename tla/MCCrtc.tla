------------------------------- MODULE MCCrtc -------------------------------
(* A screen of two lines of four cells: one character wraps, a tab always    *)
(* crosses the right edge, two newlines scroll.  Coordinates at both ends    *)
(* of the screen, beyond it, and negative.  Low bytes count to three, so     *)
(* that on the way from 5 to 6 the torn position is 8, behind the screen.    *)
EXTENDS Crtc

MCMessages == {<<Tab, "a", Newline>>}
MCColors   == {<<4, 0>>}
MCCoords   == {-1, 0, 3, 4}
=============================================================================
