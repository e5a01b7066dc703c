--------------------------- MODULE MCCertificates ---------------------------
(***************************************************************************)
(* Instances of CertificateLifecycle for TLC: one citizen, one officer.    *)
(***************************************************************************)
EXTENDS CertificateLifecycle, TLC

CONSTANTS u1, u2, w1, w2

\* Workers are interchangeable in every safety property.
Symmetry == Permutations(Worker)
=============================================================================
