----------------------------- MODULE MCWorkflow -----------------------------
(***************************************************************************)
(* Instances of DocumentWorkflow for TLC: one document of one citizen, and *)
(* officers in the order of their keys.                                    *)
(***************************************************************************)
EXTENDS DocumentWorkflow, TLC

CONSTANTS c1, o1, o2, a1, d1

OwnerOf == d1 :> c1
RankOf  == o1 :> 1 @@ o2 :> 2
=============================================================================
