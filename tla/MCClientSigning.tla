-------------------------- MODULE MCClientSigning --------------------------
(***************************************************************************)
(* Instances of ClientSigning for TLC: one document.                       *)
(***************************************************************************)
EXTENDS ClientSigning, TLC

CONSTANTS w1, w2, r1, r2, d1

\* Requests and workers are interchangeable in every safety property.
Symmetry == Permutations(Request) \cup Permutations(Worker)
=============================================================================
