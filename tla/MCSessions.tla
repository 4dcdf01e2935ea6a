----------------------------- MODULE MCSessions -----------------------------
(***************************************************************************)
(* Session instances.  Root shop holds root q1.  Actors a1 and a2 are      *)
(* threads of server process p1, a3 runs in p2.                            *)
(***************************************************************************)
EXTENDS Sessions, TLC

CONSTANTS a1, a2, a3, p1, p2, shop, q1

MCProcessOf == (a1 :> p1) @@ (a2 :> p1) @@ (a3 :> p2)
MCProcessOfTwo == (a1 :> p1) @@ (a3 :> p2)
MCParents == (shop :> {}) @@ (q1 :> {shop})
MCParentsOne == (shop :> {})

SessionSymmetry == Permutations(SessionIds) \cup Permutations({a1, a2})
=============================================================================
