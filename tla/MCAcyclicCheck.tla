--------------------------- MODULE MCAcyclicCheck ---------------------------
(***************************************************************************)
(* All evidence graphs over three ids, dangling upstream ids included.     *)
(***************************************************************************)
EXTENDS AcyclicCheck, Relation, TLC

IdSymmetry == Permutations(ItemIds)

(* Circular sets and paths from an item to itself are the same.            *)
ASSUME CircularMeansPath ==
  \A g \in [ItemIds -> SUBSET ItemIds] :
    LET reach == TransitiveClosure([x, y \in ItemIds |-> y \in g[x]], ItemIds)
    IN  Acyclic(g) <=> \A i \in ItemIds : ~ reach[i, i]
=============================================================================
