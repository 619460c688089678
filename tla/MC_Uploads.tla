----------------------------- MODULE MC_Uploads -----------------------------
(* Instances of Uploads for TLC.                                           *)
EXTENDS Uploads

=============================================================================
