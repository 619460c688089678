--------------------------- MODULE MC_ConfigStore ---------------------------
(* An instance of ConfigStore for TLC.                                      *)
EXTENDS ConfigStore

CONSTANTS n1, n2

MCNets    == {n1, n2}
MCSecrets == {"admin_pass", "tcp_token"}
MCEarly   == <<"modes">>
MCLate    == <<"netip">>

=============================================================================
