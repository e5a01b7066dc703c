---------------------------- MODULE MCLocalSigner ----------------------------
(***************************************************************************)
(* Instances of LocalSigner for TLC.                                       *)
(***************************************************************************)
EXTENDS LocalSigner

CONSTANTS r1, r2
=============================================================================
