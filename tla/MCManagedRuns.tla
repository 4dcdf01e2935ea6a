--------------------------- MODULE MCManagedRuns ---------------------------
(***************************************************************************)
(* Two execute_python calls of one session over two workspace files.       *)
(***************************************************************************)
EXTENDS ManagedRuns, TLC

RunSymmetry == Permutations(Runs)

(* The locals of a call that no step reads any more are left out. *)
LiveState ==
  <<pc, lock, files, clock, code, escaped, arts, execs,
    [e \in Runs |-> <<IF pc[e] \in {"ready", "running", "ran"} THEN before[e] ELSE NoFile,
                      IF pc[e] = "hashed" THEN digest[e] ELSE 0,
                      IF pc[e] \in {"copying", "hashed"} THEN todo[e] ELSE {},
                      IF pc[e] \in {"copying", "hashed", "recording"} THEN returned[e] ELSE {},
                      IF pc[e] \in Inside \cup {"recording"} THEN outcome[e] ELSE "failed">>]>>
=============================================================================
