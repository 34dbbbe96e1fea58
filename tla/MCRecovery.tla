----------------------------- MODULE MCRecovery -----------------------------
(***************************************************************************)
(* Small instances of Recovery.                                            *)
(***************************************************************************)
EXTENDS MCCluster, Recovery
=============================================================================
