----------------------------- MODULE MC_WifiBoot -----------------------------
(* Instances of WifiBoot for TLC.                                          *)
EXTENDS WifiBoot

=============================================================================
