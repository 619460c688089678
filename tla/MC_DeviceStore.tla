--------------------------- MODULE MC_DeviceStore ---------------------------
(* Instances of DeviceStore for TLC.                                       *)
EXTENDS DeviceStore

CONSTANTS v1, v2, v3

MCVersions == {v1, v2, v3}

=============================================================================
