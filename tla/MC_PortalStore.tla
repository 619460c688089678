--------------------------- MODULE MC_PortalStore ---------------------------
(* Instances of PortalStore for TLC need no definitions beyond its own.    *)
EXTENDS PortalStore

=============================================================================
