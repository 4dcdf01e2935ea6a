--------------------------- MODULE WorkspaceLease ---------------------------
(***************************************************************************)
(* What sessions promise about workspaces, without locks or processes: a   *)
(* session leases a workspace root for itself.  A lease is granted once,   *)
(* and only over a root that touches neither an open lease nor one on      *)
(* which an operation is still running; operations start on open leases    *)
(* only, and may outlive the lease they started on.                        *)
(***************************************************************************)
CONSTANTS SessionIds, Roots,
          Overlaps(_, _)    \* two roots are equal or nested

VARIABLES granted,  \* every session ever granted a lease
          open,     \* leases now open: records [sid, root]
          busy      \* leases an operation is running on

vars == <<granted, open, busy>>

Lease == [sid : SessionIds, root : Roots]

Init == granted = {} /\ open = {} /\ busy = {}

Admit(l) ==
  /\ l.sid \notin granted
  /\ \A m \in open \cup busy : ~Overlaps(l.root, m.root)
  /\ granted' = granted \cup {l.sid}
  /\ open' = open \cup {l}
  /\ UNCHANGED busy

Release(l) ==
  /\ open' = open \ {l}
  /\ UNCHANGED <<granted, busy>>

Begin(l) ==
  /\ l \in open \ busy
  /\ busy' = busy \cup {l}
  /\ UNCHANGED <<granted, open>>

(* One operation ends, or a process dies with all of its operations. *)
End(S) ==
  /\ busy' = busy \ S
  /\ UNCHANGED <<granted, open>>

Next ==
  \/ \E l \in Lease : Admit(l) \/ Release(l) \/ Begin(l)
  \/ \E S \in SUBSET Lease : End(S)

Spec == Init /\ [][Next]_vars
=============================================================================
