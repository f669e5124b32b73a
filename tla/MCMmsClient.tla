---------------------------- MODULE MCMmsClient ----------------------------
(***************************************************************************)
(* Instances of MmsClient: the constants are given in the configurations.  *)
(***************************************************************************)
EXTENDS MmsClient

CONSTANTS c1, c2
=============================================================================
