---------------------------- MODULE MC_Telemetry ----------------------------
(* Instances of Telemetry for TLC.                                         *)
EXTENDS Telemetry, TLC

CONSTANTS q1, q2

MCTwoPolls == {q1, q2}
PollSymmetry == Permutations(MCTwoPolls)

=============================================================================
