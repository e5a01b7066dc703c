--------------------------- MODULE MCVerification ---------------------------
(***************************************************************************)
(* Instances of Verification, and of the certificates under it, for TLC.   *)
(***************************************************************************)
EXTENDS Verification, TLC

CONSTANTS u1, u2, w1, w2, v1, v2, r1

\* Workers and verifiers are interchangeable in every safety property.
Symmetry == Permutations(Worker) \cup Permutations(Verifier)
=============================================================================
