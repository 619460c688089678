--------------------------- MODULE MC_UartCommand ---------------------------
(* Instances of UartCommand for TLC.                                       *)
EXTENDS UartCommand

CONSTANTS w1, w2, i1, i2

MCWriters == {w1, w2}
MCIds     == {i1, i2}

=============================================================================
