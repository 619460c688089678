---------------------------- MODULE MC_TcpServer ----------------------------
(* Instances of TcpServer for TLC.                                         *)
EXTENDS TcpServer, TLC

CONSTANTS f1, f2, f3

MCFds      == {f1, f2, f3}   \* one more than the two slots can hold
MCFewFds   == {f1, f2}
FdSymmetry == Permutations(MCFds)

=============================================================================
