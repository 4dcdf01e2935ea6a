----------------------------- MODULE MCEvidence -----------------------------
(***************************************************************************)
(* Instances of the evidence ledger: a few ids of each kind.               *)
(***************************************************************************)
EXTENDS Evidence, TLC

IdSymmetry == Permutations(Ids) \cup Permutations(Sources) \cup Permutations(Execs)
=============================================================================
