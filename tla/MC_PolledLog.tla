---------------------------- MODULE MC_PolledLog ----------------------------
(* Instances of PolledLog for TLC, with texts of one and of a dozen bytes  *)
(* in a response of a few dozen.                                           *)
EXTENDS PolledLog, TLC

CONSTANTS q1, q2

MCTwoPolls == {q1, q2}
MCLens     == {1, 12}
PollSymmetry == Permutations(MCTwoPolls)

=============================================================================
