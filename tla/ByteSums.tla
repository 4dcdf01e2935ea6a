------------------------------- MODULE ByteSums -----------------------------
(***************************************************************************)
(* Sums of sizes: what files or artifacts take together is the number of   *)
(* their bytes, a byte being its file with its position in it.             *)
(***************************************************************************)
EXTENDS Naturals, FiniteSets

(* The bytes of the files in DOMAIN size. *)
ByteSet(size) == UNION {{x} \X (1 .. size[x]) : x \in DOMAIN size}

Bytes(size) == Cardinality(ByteSet(size))
=============================================================================
