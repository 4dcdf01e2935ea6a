---------------------------- MODULE EvidenceGraph ---------------------------
(***************************************************************************)
(* The dependency graph of evidence items: a function from the ids of the  *)
(* items to the ids each names upstream.  An upstream id need not be that  *)
(* of an item of the graph.                                                *)
(***************************************************************************)
EXTENDS Naturals

(* Each item of C has an upstream item in C: what a cycle amounts to when  *)
(* there are finitely many items.                                          *)
Circular(g, C) == C # {} /\ \A n \in C : g[n] \cap C # {}

Acyclic(g) == ~ \E C \in SUBSET DOMAIN g : Circular(g, C)

(* C has the upstream items of its members. *)
Closed(g, C) == \A n \in C : g[n] \cap DOMAIN g \subseteq C

(* Going upstream from item i, an item of F is met sooner or later.        *)
Rests(g, i, F) == \A C \in SUBSET DOMAIN g : i \in C /\ Closed(g, C) => C \cap F # {}
=============================================================================
