---------------------------- MODULE RecordStore -----------------------------
(***************************************************************************)
(* What a record repository promises: a record appears whole and once, is  *)
(* replaced whole, and a power failure takes the store back to what was    *)
(* safe on disk, never to something that was not written.  Until its       *)
(* directory is itself on disk the store may go as a whole.                *)
(***************************************************************************)
CONSTANTS Ids, Payloads, Absent

VARIABLES shown,  \* what readers find under each id
          safe,   \* what survives a power failure once the store is kept
          kept    \* whether the store itself survives one

vars == <<shown, safe, kept>>

Nothing == [i \in Ids |-> Absent]

Init ==
  /\ shown = Nothing
  /\ safe = Nothing
  /\ kept = FALSE

Add(i, v) ==
  /\ shown[i] = Absent
  /\ shown' = [shown EXCEPT ![i] = v]
  /\ UNCHANGED <<safe, kept>>

Update(i, v) ==
  /\ shown[i] # Absent
  /\ shown' = [shown EXCEPT ![i] = v]
  /\ UNCHANGED <<safe, kept>>

Settle(S) ==
  /\ safe' = [i \in Ids |-> IF i \in S THEN shown[i] ELSE safe[i]]
  /\ UNCHANGED <<shown, kept>>

Keep ==
  /\ kept' = TRUE
  /\ UNCHANGED <<shown, safe>>

PowerFailure ==
  /\ shown' = IF kept THEN safe ELSE Nothing
  /\ safe' = shown'
  /\ UNCHANGED kept

Next ==
  \/ \E i \in Ids, v \in Payloads : Add(i, v) \/ Update(i, v)
  \/ \E S \in SUBSET Ids : Settle(S)
  \/ Keep
  \/ PowerFailure

Spec == Init /\ [][Next]_vars
=============================================================================
