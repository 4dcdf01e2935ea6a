---------------------------- MODULE MCRecordLock ----------------------------
(***************************************************************************)
(* Two server processes, two threads each, on one lock path.               *)
(***************************************************************************)
EXTENDS RecordLock, TLC

CONSTANTS t1, t2, t3, t4, p1, p2

MCProcessOf == (t1 :> p1) @@ (t2 :> p1) @@ (t3 :> p2) @@ (t4 :> p2)
=============================================================================
