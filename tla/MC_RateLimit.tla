---------------------------- MODULE MC_RateLimit ----------------------------
(* Instances of RateLimit for TLC.                                         *)
EXTENDS RateLimit, TLC

CONSTANTS a1, a2, a3, s1, s2

MCIps   == {a1, a2, a3}
MCHandshakes == {s1, s2}
IpSlotSymmetry == Permutations(MCIps) \cup Permutations(MCHandshakes)

=============================================================================
