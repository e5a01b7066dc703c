-------------------------- MODULE MCRemoteSigning --------------------------
(***************************************************************************)
(* Instances of RemoteSigning for TLC: one document of one citizen.        *)
(***************************************************************************)
EXTENDS RemoteSigning, TLC

CONSTANTS c1, o1, o2, d1, w1, w2, r1, r2, r3

OwnerOf == d1 :> c1

\* Requests and workers are interchangeable in every safety property.
Symmetry == Permutations(Request) \cup Permutations(Worker)
=============================================================================
