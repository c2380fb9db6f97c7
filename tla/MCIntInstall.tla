---------------------------- MODULE MCIntInstall ----------------------------
(* Devices on both chips, and the masks PC firmware typically leaves.       *)
EXTENDS IntInstall

MCDevices == {0, 1, 8, 14}

MaskPair(a, b) == [c \in Chips |-> IF c = "master" THEN a ELSE b]

\* everything open; a usual BIOS pair (timer, keyboard, cascade open, RTC
\* masked); the cascade line masked; the timer masked.
MCBiosMasks == { MaskPair(0, 0), MaskPair(184, 143), MaskPair(4, 0),
                 MaskPair(1, 62) }
=============================================================================
