--------------------------- MODULE MCJsonRecords ----------------------------
(***************************************************************************)
(* Writers of a few ids of one directory; those of different ids meet in   *)
(* the directory fsync.                                                    *)
(***************************************************************************)
EXTENDS JsonRecords, TLC

WriterSymmetry == Permutations(Writers) \cup Permutations(Payloads) \cup Permutations(Ids)
=============================================================================
