------------------------------- MODULE Mutex --------------------------------
(***************************************************************************)
(* What a lock of the state store promises its users, whatever it is made  *)
(* of: clients ask for it, at most one is inside at a time, and a client   *)
(* stops wanting or holding it when it leaves, gives up or dies.  Clients  *)
(* that live in one process die together, so any set of them may leave in  *)
(* one step.                                                               *)
(***************************************************************************)
CONSTANT Clients

VARIABLE phase          \* phase[c]: "out", "waiting" or "inside"

Init == phase = [c \in Clients |-> "out"]

Want(c) ==
  /\ phase[c] = "out"
  /\ phase' = [phase EXCEPT ![c] = "waiting"]

Enter(c) ==
  /\ phase[c] = "waiting"
  /\ \A d \in Clients : phase[d] # "inside"
  /\ phase' = [phase EXCEPT ![c] = "inside"]

Depart(S) ==
  phase' = [c \in Clients |-> IF c \in S THEN "out" ELSE phase[c]]

Next ==
  \/ \E c \in Clients : Want(c) \/ Enter(c)
  \/ \E S \in SUBSET Clients : Depart(S)

Spec == Init /\ [][Next]_phase

(* At most one client is inside. *)
Exclusive ==
  \A c, d \in Clients : phase[c] = "inside" /\ phase[d] = "inside" => c = d

=============================================================================
