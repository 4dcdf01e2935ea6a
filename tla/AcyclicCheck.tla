---------------------------- MODULE AcyclicCheck ----------------------------
(***************************************************************************)
(* ensure_acyclic_evidence of models/evidence.py: the depth-first search   *)
(* run over a session's evidence items on every registration, one call or  *)
(* return of visit per step.  ItemIds are random, so the roots and the items   *)
(* upstream of an item come in any order.                                  *)
(***************************************************************************)
EXTENDS EvidenceGraph, FiniteSets, Sequences

CONSTANTS
  ItemIds,             \* ids of evidence items
  Depth            \* calls of visit the interpreter allows to nest

ASSUME SearchConstants == IsFiniteSet(ItemIds) /\ Depth \in Nat

VARIABLES
  graph,     \* the items checked: id -> upstream ids
  roots,     \* ids of by_id not yet looped over
  stack,     \* calls of visit, outermost first: [node, todo]
  visiting, visited,
  result     \* "none" while it runs, then "ok", "cycle" or "recursion"

searchVars == <<graph, roots, stack, visiting, visited, result>>

Frame == [node : ItemIds, todo : SUBSET ItemIds]
Results == {"none", "ok", "cycle", "recursion"}

SearchTypes ==
  /\ DOMAIN graph \subseteq ItemIds
  /\ graph \in [DOMAIN graph -> SUBSET ItemIds]
  /\ roots \subseteq DOMAIN graph
  /\ stack \in Seq(Frame)
  /\ visiting \subseteq DOMAIN graph
  /\ visited \subseteq DOMAIN graph
  /\ result \in Results

SearchInit ==
  /\ \E N \in SUBSET ItemIds : graph \in [N -> SUBSET ItemIds] /\ roots = N
  /\ stack = <<>>
  /\ visiting = {}
  /\ visited = {}
  /\ result = "none"

Top == stack[Len(stack)]
Under == SubSeq(stack, 1, Len(stack) - 1)

(* Faulty variants put in place of the definitions below by mutation runs. *)

(* An item on the path is passed over like a finished one. *)
VisitKnown(n, rest) ==
  IF n \in visiting \cup visited
  THEN stack' = rest /\ UNCHANGED <<visiting, result>>
  ELSE /\ stack' = Append(rest, [node |-> n, todo |-> graph[n] \cap DOMAIN graph])
       /\ visiting' = visiting \cup {n}
       /\ UNCHANGED result

(* An item met a second time on another branch counts as a cycle. *)
VisitTwice(n, rest) ==
  IF n \in visiting \/ n \in visited
  THEN stack' = rest /\ result' = "cycle" /\ UNCHANGED visiting
  ELSE /\ stack' = Append(rest, [node |-> n, todo |-> graph[n] \cap DOMAIN graph])
       /\ visiting' = visiting \cup {n}
       /\ UNCHANGED result

-----------------------------------------------------------------------------
(* A call of visit, made with the calls in rest under way.                 *)
Visit(n, rest) ==
  IF n \in visiting
  THEN stack' = rest /\ result' = "cycle" /\ UNCHANGED visiting
  ELSE IF n \in visited
  THEN stack' = rest /\ UNCHANGED <<visiting, result>>
  ELSE /\ stack' = Append(rest, [node |-> n, todo |-> graph[n] \cap DOMAIN graph])
       /\ visiting' = visiting \cup {n}
       /\ UNCHANGED result

(* The outer loop takes the next item. *)
VisitRoot ==
  /\ result = "none" /\ stack = <<>> /\ Depth > 0
  /\ \E n \in roots : roots' = roots \ {n} /\ Visit(n, <<>>)
  /\ UNCHANGED <<graph, visited>>

(* The loop of a call never gets past an item that is finished. *)
DescendRepeats ==
  /\ result = "none" /\ stack # <<>> /\ Len(stack) < Depth
  /\ \E u \in Top.todo : Visit(u, stack)
  /\ UNCHANGED <<graph, roots, visited>>

(* The loop of a call takes the next upstream item of its node. *)
Descend ==
  /\ result = "none" /\ stack # <<>> /\ Len(stack) < Depth
  /\ \E u \in Top.todo : Visit(u, Append(Under, [Top EXCEPT !.todo = @ \ {u}]))
  /\ UNCHANGED <<graph, roots, visited>>

Return ==
  /\ result = "none" /\ stack # <<>> /\ Top.todo = {}
  /\ stack' = Under
  /\ visiting' = visiting \ {Top.node}
  /\ visited' = visited \cup {Top.node}
  /\ UNCHANGED <<graph, roots, result>>

(* One call more than the interpreter allows: RecursionError. *)
TooDeep ==
  /\ result = "none" /\ Len(stack) >= Depth
  /\ IF stack = <<>> THEN roots # {} ELSE Top.todo # {}
  /\ result' = "recursion"
  /\ UNCHANGED <<graph, roots, stack, visiting, visited>>

Accept ==
  /\ result = "none" /\ stack = <<>> /\ roots = {}
  /\ result' = "ok"
  /\ UNCHANGED <<graph, roots, stack, visiting, visited>>

SearchNext == VisitRoot \/ Descend \/ Return \/ TooDeep \/ Accept

SearchSpec == SearchInit /\ [][SearchNext]_searchVars

(* The search is a plain call: it runs on. *)
FairSpec == SearchSpec /\ WF_searchVars(SearchNext)

-----------------------------------------------------------------------------
(* A cycle is reported where there is one, and only there: a graph that    *)
(* shares items between branches, or names items that are not there, is    *)
(* not taken for circular.  Nor does the interpreter refuse evidence       *)
(* without a cycle when calls may nest as deep as there are items.         *)
Exact ==
  /\ result = "ok" => Acyclic(graph)
  /\ result = "cycle" => ~ Acyclic(graph)
  /\ result = "recursion" => ~ Acyclic(graph) \/ Cardinality(DOMAIN graph) > Depth

(* The search comes to an end. *)
Ends == <>(result # "none")
=============================================================================
