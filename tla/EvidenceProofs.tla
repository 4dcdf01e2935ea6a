--------------------------- MODULE EvidenceProofs ---------------------------
(***************************************************************************)
(* Proofs about the evidence ledger, for any number of records, and about  *)
(* the search for cycles it makes, for every finite graph, every order of  *)
(* its items and every nesting depth.                                      *)
(*                                                                         *)
(* Grounded is not a matter of one registration: it follows from what all  *)
(* of them leave behind.  Were there a set of items, closed upstream and   *)
(* without a fact, then each of them would cite items, all of them in the  *)
(* set again, and the set would be circular.                               *)
(***************************************************************************)
EXTENDS Evidence, AcyclicCheck, FiniteSetTheorems, TLAPS

(* Items cite items that are there, and conclusions cite some. *)
Upstream ==
  \A i \in DOMAIN items :
    /\ items[i].evidence \subseteq DOMAIN items
    /\ items[i].class \notin Fact => items[i].evidence # {}

(* The executions an item cites are recorded. *)
Recorded == \A i \in DOMAIN items : \A e \in items[i].execs : execs[e] # NoRecord

(* The ledger holds no cycle: what the search has checked. *)
LedgerAcyclic == Acyclic(Graph)

IInv ==
  /\ TypeOK
  /\ Upstream
  /\ Recorded
  /\ LedgerAcyclic
  /\ ChainReal

-----------------------------------------------------------------------------
(* What is there after a registration: the item, and every other as it was.*)
LEMMA Registered ==
  ASSUME NEW i, NEW item, i \notin DOMAIN items, items' = With(i, item)
  PROVE  /\ DOMAIN items' = DOMAIN items \cup {i}
         /\ items'[i] = item
         /\ \A j \in DOMAIN items : items'[j] = items[j]
BY DEF With

LEMMA InitInv == Init => IInv
<1> SUFFICES ASSUME Init PROVE IInv
  OBVIOUS
<1>1. DOMAIN items = {}
  BY DEF Init
<1>2. TypeOK
  BY <1>1 DEF Init, TypeOK
<1>3. LedgerAcyclic
  BY <1>1 DEF LedgerAcyclic, Acyclic, Circular, Graph
<1> QED
  BY <1>1, <1>2, <1>3 DEF IInv, Upstream, Recorded, ChainReal, Facts

(* Records that are added while no item is disturb none.                   *)
LEMMA AddInv ==
  ASSUME IInv, UNCHANGED items, TypeOK',
         \A e \in Execs : execs[e] # NoRecord => execs'[e] = execs[e],
         \A a \in Arts : made[a] # NoExec => made'[a] = made[a]
  PROVE  IInv'
<1>1. Upstream'
  BY DEF IInv, Upstream
<1>2. Recorded'
  BY DEF IInv, Recorded, TypeOK, Item
<1>3. LedgerAcyclic'
  BY DEF IInv, LedgerAcyclic, Graph
<1>4. ChainReal'
  <2> SUFFICES ASSUME NEW i \in Facts, items[i].class = "derived_fact"
               PROVE  /\ items[i].sources # {}
                      /\ \A s \in items[i].sources :
                           \E e \in items[i].execs :
                             execs'[e] # NoRecord /\ execs'[e].ok /\ s \in execs'[e].sources
                      /\ \A a \in items[i].arts :
                           \E e \in items[i].execs :
                             made'[a] = e /\ execs'[e].ok /\ a \in execs'[e].arts
    BY DEF ChainReal, Facts
  <2>1. i \in DOMAIN items /\ items[i] \in Item
    BY DEF IInv, TypeOK, Facts
  <2>2. \A e \in items[i].execs : e \in Execs /\ e # NoExec /\ execs'[e] = execs[e]
    BY <2>1, EvidenceConstants DEF IInv, Recorded, Item
  <2>3. \A a \in items[i].arts : a \in Arts
    BY <2>1 DEF Item
  <2> QED
    BY <2>2, <2>3 DEF IInv, ChainReal
<1> QED
  BY <1>1, <1>2, <1>3, <1>4 DEF IInv

LEMMA RegisterInv ==
  ASSUME IInv, NEW i \in Ids, NEW item \in Item, Register(i, item)
  PROVE  IInv'
<1> USE DEF Register
<1>1. i \notin DOMAIN items /\ items' = With(i, item) /\ UNCHANGED <<sources, made, execs>>
  OBVIOUS
<1>2. /\ DOMAIN items' = DOMAIN items \cup {i}
      /\ items'[i] = item
      /\ \A j \in DOMAIN items : items'[j] = items[j]
  BY <1>1, Registered
<1>3. TypeOK'
  <2>1. items' = [j \in DOMAIN items' |-> items'[j]]
    BY <1>1 DEF With
  <2>2. \A j \in DOMAIN items' : items'[j] \in Item
    BY <1>2 DEF IInv, TypeOK
  <2> QED
    BY <1>1, <1>2, <2>1, <2>2 DEF IInv, TypeOK
<1>4. Upstream'
  BY <1>2 DEF IInv, Upstream, WellFormed, Found
<1>5. Recorded'
  BY <1>1, <1>2 DEF IInv, Recorded, Found
<1>6. LedgerAcyclic'
  BY <1>1 DEF LedgerAcyclic, Graph
<1>7. ChainReal'
  <2> SUFFICES ASSUME NEW j \in Facts', items'[j].class = "derived_fact"
               PROVE  /\ items'[j].sources # {}
                      /\ \A s \in items'[j].sources :
                           \E e \in items'[j].execs :
                             execs[e] # NoRecord /\ execs[e].ok /\ s \in execs[e].sources
                      /\ \A a \in items'[j].arts :
                           \E e \in items'[j].execs :
                             made[a] = e /\ execs[e].ok /\ a \in execs[e].arts
    BY <1>1 DEF ChainReal
  <2>1. CASE j \in DOMAIN items
    <3>1. items'[j] = items[j] /\ j \in Facts
      BY <1>2, <2>1 DEF Facts
    <3> QED
      BY <3>1 DEF IInv, ChainReal
  <2>2. CASE j = i
    <3>1. WellFormed(i, item) /\ Found(item) /\ Chained(item) /\ item.class = "derived_fact"
      BY <1>2, <2>2
    <3> QED
      BY <1>2, <2>2, <3>1 DEF WellFormed, Found, Chained
  <2> QED
    BY <1>2, <2>1, <2>2 DEF Facts
<1> QED
  BY <1>3, <1>4, <1>5, <1>6, <1>7 DEF IInv

LEMMA StepInv == IInv /\ [Next]_vars => IInv'
<1> SUFFICES ASSUME IInv, [Next]_vars PROVE IInv'
  OBVIOUS
<1>1. ASSUME NEW s \in Sources, RegisterSource(s) PROVE IInv'
  <2>1. TypeOK'
    BY <1>1 DEF IInv, TypeOK, RegisterSource
  <2> QED
    BY <1>1, <2>1, AddInv DEF RegisterSource
<1>2. ASSUME NEW a \in Arts, NEW e \in Execs, AddArtifact(a, e) PROVE IInv'
  <2>1. TypeOK'
    BY <1>2 DEF IInv, TypeOK, AddArtifact
  <2>2. \A b \in Arts : made[b] # NoExec => made'[b] = made[b]
    BY <1>2 DEF IInv, TypeOK, AddArtifact
  <2> QED
    BY <1>2, <2>1, <2>2, AddInv DEF AddArtifact
<1>3. ASSUME NEW e \in Execs, AddExecution(e) PROVE IInv'
  <2>1. TypeOK'
    BY <1>3 DEF IInv, TypeOK, AddExecution, Record
  <2>2. \A f \in Execs : execs[f] # NoRecord => execs'[f] = execs[f]
    BY <1>3 DEF IInv, TypeOK, AddExecution
  <2> QED
    BY <1>3, <2>1, <2>2, AddInv DEF AddExecution
<1>4. ASSUME NEW i \in Ids, NEW item \in Item, Register(i, item) PROVE IInv'
  BY <1>4, RegisterInv
<1>5. CASE UNCHANGED vars
  <2>1. TypeOK'
    BY <1>5 DEF IInv, TypeOK, vars
  <2> QED
    BY <1>5, <2>1, AddInv DEF vars
<1> QED
  BY <1>1, <1>2, <1>3, <1>4, <1>5 DEF Next

(* The types of the variables. *)
THEOREM Typing == Spec => []TypeOK
<1>1. IInv => TypeOK
  BY DEF IInv
<1> QED
  BY <1>1, InitInv, StepInv, PTL DEF Spec

(* The source, execution and artifact chain of each derived fact stays     *)
(* real, whatever records are added later.                                 *)
THEOREM ChainsStayReal == Spec => []ChainReal
<1>1. IInv => ChainReal
  BY DEF IInv
<1> QED
  BY <1>1, InitInv, StepInv, PTL DEF Spec

(* A set of items closed upstream without a fact would be a circular one. *)
LEMMA AcyclicGrounds ==
  ASSUME Upstream, LedgerAcyclic
  PROVE  Grounded
<1> SUFFICES ASSUME NEW i \in DOMAIN items, NEW C \in SUBSET DOMAIN items,
                    i \in C, Closed(Graph, C), C \cap Facts = {}
             PROVE  FALSE
  BY DEF Grounded, Rests, Graph
<1>1. ASSUME NEW n \in C PROVE Graph[n] \cap C # {}
  <2>1. n \in DOMAIN items /\ items[n].class \notin Fact
    BY DEF Facts
  <2>2. Graph[n] # {} /\ Graph[n] \subseteq DOMAIN Graph
    BY <2>1 DEF Upstream, Graph
  <2>3. Graph[n] \cap DOMAIN Graph \subseteq C
    BY DEF Closed
  <2> QED
    BY <2>2, <2>3
<1> QED
  BY <1>1 DEF LedgerAcyclic, Acyclic, Circular, Graph

(* All evidence, followed upstream, ends at facts. *)
THEOREM AllGrounded == Spec => []Grounded
<1>1. IInv => Grounded
  BY AcyclicGrounds DEF IInv
<1> QED
  BY <1>1, InitInv, StepInv, PTL DEF Spec

-----------------------------------------------------------------------------
(* The search for cycles in register guards against records that the       *)
(* ledger did not write itself: of those it did, none can be circular.     *)
THEOREM SearchIdle == Spec => []CycleCheckIdle
<1>1. ASSUME IInv, NEW i \in Ids \ DOMAIN items, NEW item \in Item,
             WellFormed(i, item), Found(item)
      PROVE  Acyclic([j \in DOMAIN With(i, item) |-> With(i, item)[j].evidence])
  <2> DEFINE W == With(i, item)
             G == [j \in DOMAIN W |-> W[j].evidence]
  <2>1. /\ DOMAIN G = DOMAIN items \cup {i}
        /\ G[i] = item.evidence
        /\ \A j \in DOMAIN items : G[j] = items[j].evidence
    BY <1>1 DEF With
  <2> HIDE DEF G
  <2> SUFFICES ASSUME NEW C \in SUBSET DOMAIN G, Circular(G, C) PROVE FALSE
    BY DEF Acyclic, G
  <2> DEFINE D == C \ {i}
  <2>2. \A n \in D : Graph[n] \cap D # {}
    BY <1>1, <2>1 DEF Circular, IInv, Upstream, Graph
  <2>3. D # {}
    BY <1>1, <2>1 DEF Circular, WellFormed
  <2>4. D \in SUBSET DOMAIN Graph
    BY <2>1 DEF Graph
  <2> QED
    BY <1>1, <2>2, <2>3, <2>4 DEF IInv, LedgerAcyclic, Acyclic, Circular
<1>2. IInv => CycleCheckIdle
  BY <1>1 DEF CycleCheckIdle
<1> QED
  BY <1>2, InitInv, StepInv, PTL DEF Spec
-----------------------------------------------------------------------------
(* The depth-first search for cycles.  Known are the items it is given.    *)
Known == DOMAIN graph

(* The calls of st follow upstream links. *)
Path(st) ==
  /\ \A k \in 1 .. Len(st) :
       st[k].node \in Known /\ st[k].todo \subseteq graph[st[k].node] \cap Known
  /\ \A k \in 1 .. Len(st) - 1 : st[k + 1].node \in graph[st[k].node]

Distinct(st) ==
  \A k, l \in 1 .. Len(st) : st[k].node = st[l].node => k = l

Nodes(st) == {st[k].node : k \in 1 .. Len(st)}

(* What a call has taken from its loop is finished, or is what the next    *)
(* call is about; next is what the innermost call has just taken.          *)
Taken(st, next) ==
  \A k \in 1 .. Len(st) :
    graph[st[k].node] \cap Known \subseteq
      visited \cup st[k].todo \cup (IF k < Len(st) THEN {st[k + 1].node} ELSE next)

RootsTaken(st, rs, next) ==
  Known \subseteq visited \cup rs \cup (IF st = <<>> THEN next ELSE {st[1].node})

(* No finished item is part of anything circular. *)
Clear ==
  \A C \in SUBSET Known : Circular(graph, C) => C \cap visited = {}

Search ==
  /\ Path(stack) /\ Distinct(stack)
  /\ visiting = Nodes(stack)
  /\ Cardinality(visiting) = Len(stack)
  /\ Taken(stack, {})
  /\ RootsTaken(stack, roots, {})
  /\ Clear

SearchInv ==
  /\ SearchTypes
  /\ result = "none" => Search
  /\ Exact

-----------------------------------------------------------------------------
LEMMA GraphFinite == SearchTypes => IsFiniteSet(Known) /\ IsFiniteSet(visiting)
BY SearchConstants, FS_Subset DEF SearchTypes, Known

(* An upstream item that is on the path closes a circle with the calls     *)
(* inside its own.                                                         *)
LEMMA PathCloses ==
  ASSUME NEW st \in Seq(Frame), st # <<>>, Path(st),
         NEW n \in Nodes(st), n \in graph[st[Len(st)].node]
  PROVE  ~ Acyclic(graph)
<1>1. PICK m \in 1 .. Len(st) : st[m].node = n
  BY DEF Nodes
<1> DEFINE C == {st[k].node : k \in m .. Len(st)}
<1>2. C \in SUBSET DOMAIN graph
  BY <1>1 DEF Path, Known
<1>3. n \in C
  BY <1>1
<1>4. ASSUME NEW c \in C PROVE graph[c] \cap C # {}
  <2>1. PICK k \in m .. Len(st) : st[k].node = c
    BY <1>4
  <2>2. CASE k = Len(st)
    BY <1>3, <2>1, <2>2
  <2>3. CASE k # Len(st)
    <3>1. k \in 1 .. Len(st) - 1 /\ k + 1 \in m .. Len(st)
      BY <1>1, <2>1, <2>3
    <3>2. st[k + 1].node \in graph[st[k].node] /\ st[k + 1].node \in C
      BY <3>1 DEF Path
    <3> QED
      BY <2>1, <3>2
  <2> QED
    BY <2>2, <2>3
<1> QED
  BY <1>2, <1>3, <1>4 DEF Acyclic, Circular

(* The calls under the innermost one. *)
LEMMA UnderTop ==
  ASSUME stack \in Seq(Frame), stack # <<>>
  PROVE  /\ Top \in Frame
         /\ Len(stack) \in Nat \ {0}
         /\ Under \in Seq(Frame)
         /\ Len(Under) = Len(stack) - 1
         /\ \A k \in 1 .. Len(stack) - 1 : Under[k] = stack[k]
<1>1. Len(stack) \in Nat \ {0}
  OBVIOUS
<1>2. Top \in Frame
  BY <1>1 DEF Top
<1>3. Len(Under) = Len(stack) - 1
  <2> DEFINE n == Len(stack) - 1
  <2>1. n \in Nat
    BY <1>1
  <2> HIDE DEF n
  <2>2. Len(SubSeq(stack, 1, n)) = n
    BY <2>1
  <2> QED
    BY <2>2 DEF Under, n
<1>4. Under \in Seq(Frame)
  BY DEF Under
<1>5. \A k \in 1 .. Len(stack) - 1 : Under[k] = stack[k]
  BY DEF Under
<1> QED
  BY <1>1, <1>2, <1>3, <1>4, <1>5

(* The path grows by an item that is not on it. *)
LEMMA PathGrows ==
  ASSUME NEW st \in Seq(Frame), NEW n \in Known \cap ItemIds, n \notin Nodes(st),
         Path(st), Distinct(st), Taken(st, {n}),
         st # <<>> => n \in graph[st[Len(st)].node],
         graph \in [Known -> SUBSET ItemIds],
         NEW f, f = [node |-> n, todo |-> graph[n] \cap Known]
  PROVE  LET new == Append(st, f) IN
         /\ new \in Seq(Frame)
         /\ Path(new) /\ Distinct(new)
         /\ Nodes(new) = Nodes(st) \cup {n}
         /\ Taken(new, {})
<1> DEFINE new == Append(st, f)
<1>1. f \in Frame
  BY DEF Frame
<1>2. new \in Seq(Frame) /\ Len(new) = Len(st) + 1 /\ new[Len(new)] = f
  BY <1>1
<1>3. \A k \in 1 .. Len(st) : new[k] = st[k]
  BY <1>1
<1>4. Len(st) \in Nat /\ Len(new) \in Nat
  BY <1>2
<1>5. f.node = n /\ f.todo = graph[n] \cap Known
  OBVIOUS
<1> HIDE DEF new
<1>6. \A k \in 1 .. Len(new) : k \in 1 .. Len(st) \/ k = Len(new)
  BY <1>2, <1>4
<1>7. Path(new)
  <2>1. ASSUME NEW k \in 1 .. Len(new)
        PROVE  new[k].node \in Known /\ new[k].todo \subseteq graph[new[k].node] \cap Known
    BY <1>2, <1>3, <1>5, <1>6 DEF Path
  <2>2. ASSUME NEW k \in 1 .. Len(new) - 1
        PROVE  new[k + 1].node \in graph[new[k].node]
    <3>1. k \in 1 .. Len(st) /\ new[k] = st[k]
      BY <1>2, <1>3, <1>4
    <3>2. CASE k = Len(st)
      BY <1>2, <1>4, <1>5, <3>1, <3>2
    <3>3. CASE k # Len(st)
      <4>1. k \in 1 .. Len(st) - 1 /\ k + 1 \in 1 .. Len(st)
        BY <1>4, <3>1, <3>3
      <4> QED
        BY <1>3, <3>1, <4>1 DEF Path
    <3> QED
      BY <3>2, <3>3
  <2> QED
    BY <2>1, <2>2 DEF Path
<1>8. Distinct(new)
  <2>1. \A k \in 1 .. Len(st) : st[k].node # n
    BY DEF Nodes
  <2> QED
    BY <1>2, <1>3, <1>5, <1>6, <2>1 DEF Distinct
<1>9. Nodes(new) = Nodes(st) \cup {n}
  <2>1. ASSUME NEW x \in Nodes(new) PROVE x \in Nodes(st) \cup {n}
    <3>1. PICK k \in 1 .. Len(new) : x = new[k].node
      BY <2>1 DEF Nodes
    <3> QED
      BY <1>2, <1>3, <1>5, <1>6, <3>1 DEF Nodes
  <2>2. ASSUME NEW x \in Nodes(st) PROVE x \in Nodes(new)
    <3>1. PICK k \in 1 .. Len(st) : x = st[k].node
      BY <2>2 DEF Nodes
    <3>2. k \in 1 .. Len(new) /\ x = new[k].node
      BY <1>2, <1>3, <1>4, <3>1
    <3> QED
      BY <3>2 DEF Nodes
  <2>3. n \in Nodes(new)
    <3>1. Len(new) \in 1 .. Len(new)
      BY <1>2, <1>4
    <3> QED
      BY <1>2, <1>5, <3>1 DEF Nodes
  <2> QED
    BY <2>1, <2>2, <2>3
<1>10. Taken(new, {})
  <2> SUFFICES ASSUME NEW k \in 1 .. Len(new)
               PROVE  graph[new[k].node] \cap Known \subseteq
                        visited \cup new[k].todo \cup
                          (IF k < Len(new) THEN {new[k + 1].node} ELSE {})
    BY DEF Taken
  <2>1. CASE k = Len(new)
    BY <1>2, <1>5, <2>1
  <2>2. CASE k = Len(st)
    <3>1. graph[st[k].node] \cap Known \subseteq visited \cup st[k].todo \cup {n}
      BY <1>2, <1>4, <2>2 DEF Taken
    <3>2. k < Len(new) /\ new[k + 1].node = n /\ new[k] = st[k]
      BY <1>2, <1>3, <1>4, <1>5, <2>2
    <3> QED
      BY <3>1, <3>2
  <2>3. CASE k \in 1 .. Len(st) - 1
    <3>1. k \in 1 .. Len(st) /\ k < Len(st) /\ k + 1 \in 1 .. Len(st) /\ k < Len(new)
      BY <1>2, <1>4, <2>3
    <3>2. graph[st[k].node] \cap Known \subseteq visited \cup st[k].todo \cup {st[k + 1].node}
      BY <3>1 DEF Taken
    <3> QED
      BY <1>3, <3>1, <3>2
  <2> QED
    BY <1>2, <1>4, <2>1, <2>2, <2>3
<1> QED
  BY <1>2, <1>7, <1>8, <1>9, <1>10 DEF new

(* A call of visit keeps the search in order.                              *)
LEMMA VisitInv ==
  ASSUME SearchTypes, NEW n \in Known, NEW rest \in Seq(Frame),
         Path(rest), Distinct(rest), visiting = Nodes(rest),
         Cardinality(visiting) = Len(rest),
         Taken(rest, {n}), RootsTaken(rest, roots', {n}), Clear,
         rest # <<>> => n \in graph[rest[Len(rest)].node],
         result = "none", roots' \subseteq roots,
         Visit(n, rest), UNCHANGED <<graph, visited>>
  PROVE  SearchInv'
<1>1. CASE n \in visiting
  <2>1. stack' = rest /\ result' = "cycle" /\ UNCHANGED visiting
    BY <1>1 DEF Visit
  <2>2. rest # <<>>
    <3>1. PICK k \in 1 .. Len(rest) : rest[k].node = n
      BY <1>1 DEF Nodes
    <3> QED
      BY SMTT(40), <3>1
  <2>3. ~ Acyclic(graph)
    BY <1>1, <2>2, PathCloses
  <2> QED
    BY <2>1, <2>3 DEF SearchInv, SearchTypes, Exact, Results
<1>2. CASE n \notin visiting /\ n \in visited
  <2>1. stack' = rest /\ UNCHANGED <<visiting, result>>
    BY <1>2 DEF Visit
  <2>2. Taken(rest, {}) /\ RootsTaken(rest, roots', {})
    BY SMTT(40), <1>2 DEF Taken, RootsTaken
  <2>3. Search'
    BY <2>1, <2>2 DEF Search, Path, Distinct, Nodes, Taken, RootsTaken, Clear, Known
  <2> QED
    BY <2>1, <2>3 DEF SearchInv, SearchTypes, Exact
<1>3. CASE n \notin visiting /\ n \notin visited
  <2> DEFINE f == [node |-> n, todo |-> graph[n] \cap Known]
  <2>1. stack' = Append(rest, f) /\ visiting' = visiting \cup {n} /\ UNCHANGED result
    BY <1>3 DEF Visit, Known
  <2>2. n \in Known \cap ItemIds /\ graph \in [Known -> SUBSET ItemIds]
    BY DEF SearchTypes, Known
  <2>3. /\ stack' \in Seq(Frame)
        /\ Path(stack') /\ Distinct(stack')
        /\ Nodes(stack') = Nodes(rest) \cup {n}
        /\ Taken(stack', {})
    BY <1>3, <2>1, <2>2, PathGrows
  <2>4. f \in Frame
    BY <2>2 DEF Frame
  <2>5. Len(stack') = Len(rest) + 1 /\ stack' # <<>>
    BY <2>1, <2>4
  <2>6. stack'[1].node = IF rest = <<>> THEN n ELSE rest[1].node
    BY <2>1, <2>4
  <2>7. Cardinality(visiting') = Len(stack')
    <3>1. IsFiniteSet(visiting)
      BY GraphFinite
    <3>2. Cardinality(visiting \cup {n}) = Cardinality(visiting) + 1
      BY <1>3, <3>1, FS_AddElement
    <3> QED
      BY <2>1, <2>5, <3>2
  <2>8. RootsTaken(stack', roots', {})
    BY <2>5, <2>6 DEF RootsTaken
  <2>9. Search'
    BY <2>1, <2>3, <2>7, <2>8 DEF Search, Path, Distinct, Nodes, Taken, RootsTaken, Clear, Known
  <2>10. SearchTypes'
    BY <2>1, <2>3 DEF SearchTypes, Known
  <2> QED
    BY <2>1, <2>9, <2>10 DEF SearchInv, Exact
<1> QED
  BY <1>1, <1>2, <1>3

-----------------------------------------------------------------------------
LEMMA SearchInitInv == SearchInit => SearchInv
<1> SUFFICES ASSUME SearchInit PROVE SearchInv
  OBVIOUS
<1>1. SearchTypes
  BY DEF SearchInit, SearchTypes, Results
<1>2. stack = <<>> /\ Len(stack) = 0 /\ visiting = {} /\ visited = {} /\ roots = Known
  BY DEF SearchInit, Known
<1>3. Search
  BY <1>2, FS_EmptySet DEF Search, Path, Distinct, Nodes, Taken, RootsTaken, Clear
<1> QED
  BY <1>1, <1>3 DEF SearchInv, Exact, SearchInit

LEMMA RootInv ==
  ASSUME SearchInv, VisitRoot PROVE SearchInv'
<1>1. PICK n \in roots : roots' = roots \ {n} /\ Visit(n, <<>>)
  BY DEF VisitRoot
<1>2. result = "none" /\ stack = <<>> /\ UNCHANGED <<graph, visited>> /\ Search
  BY DEF VisitRoot, SearchInv
<1>3. n \in Known /\ <<>> \in Seq(Frame) /\ Len(<<>>) = 0
  BY DEF SearchInv, SearchTypes, Known
<1>4. RootsTaken(<<>>, roots', {n})
  BY <1>1, <1>2 DEF Search, RootsTaken
<1>5. Path(<<>>) /\ Distinct(<<>>) /\ Taken(<<>>, {n})
  BY <1>3 DEF Path, Distinct, Taken
<1> QED
  BY <1>1, <1>2, <1>3, <1>4, <1>5, VisitInv DEF SearchInv, Search

LEMMA DescendInv ==
  ASSUME SearchInv, Descend PROVE SearchInv'
<1>1. PICK u \in Top.todo : Visit(u, Append(Under, [Top EXCEPT !.todo = @ \ {u}]))
  BY DEF Descend
<1>2. result = "none" /\ stack # <<>> /\ UNCHANGED <<graph, roots, visited>> /\ Search
  BY DEF Descend, SearchInv
<1> DEFINE f == [Top EXCEPT !.todo = @ \ {u}]
           rest == Append(Under, f)
<1>3. stack \in Seq(Frame) /\ Len(stack) \in Nat \ {0} /\ Top \in Frame /\ SearchTypes
  BY <1>2, UnderTop DEF SearchInv, SearchTypes
<1>4. f \in Frame /\ f.node = Top.node /\ f.todo = Top.todo \ {u}
  BY <1>3 DEF Frame
<1> HIDE DEF f
<1>5. /\ rest \in Seq(Frame) /\ Len(rest) = Len(stack) /\ rest # <<>>
      /\ rest[Len(rest)] = f
      /\ \A k \in 1 .. Len(stack) - 1 : rest[k] = stack[k]
  BY <1>2, <1>3, <1>4, UnderTop
<1> HIDE DEF rest
<1>6. \A k \in 1 .. Len(stack) :
        /\ rest[k].node = stack[k].node
        /\ rest[k].todo = IF k = Len(stack) THEN stack[k].todo \ {u} ELSE stack[k].todo
  <2> TAKE k \in 1 .. Len(stack)
  <2>1. CASE k = Len(stack)
    BY <1>3, <1>4, <1>5, <2>1 DEF Top
  <2>2. CASE k # Len(stack)
    BY <1>3, <1>5, <2>2
  <2> QED
    BY <2>1, <2>2
<1>7. Path(rest) /\ Distinct(rest) /\ Nodes(rest) = Nodes(stack)
  <2>1. Path(rest)
    <3>1. Path(stack)
      BY <1>2 DEF Search
    <3>2. \A k \in 1 .. Len(stack) - 1 : k \in 1 .. Len(stack) /\ k + 1 \in 1 .. Len(stack)
      BY <1>3
    <3> QED
      BY <1>5, <1>6, <3>1, <3>2 DEF Path
  <2>2. Distinct(rest)
    BY <1>2, <1>5, <1>6 DEF Search, Distinct
  <2>3. Nodes(rest) = Nodes(stack)
    BY <1>5, <1>6 DEF Nodes
  <2> QED
    BY <2>1, <2>2, <2>3
<1>8. Taken(rest, {u})
  <2> SUFFICES ASSUME NEW k \in 1 .. Len(stack)
               PROVE  graph[rest[k].node] \cap Known \subseteq
                        visited \cup rest[k].todo \cup
                          (IF k < Len(rest) THEN {rest[k + 1].node} ELSE {u})
    BY <1>5 DEF Taken
  <2>1. graph[stack[k].node] \cap Known \subseteq
          visited \cup stack[k].todo \cup (IF k < Len(stack) THEN {stack[k + 1].node} ELSE {})
    BY <1>2 DEF Search, Taken
  <2>2. CASE k = Len(stack)
    <3>1. ~ (k < Len(rest)) /\ rest[k].node = stack[k].node /\ rest[k].todo = stack[k].todo \ {u}
      <4>1. ~ (k < Len(rest))
        BY <1>3, <1>5, <2>2
      <4> QED
        BY <1>6, <2>2, <4>1
    <3>2. graph[stack[k].node] \cap Known \subseteq visited \cup stack[k].todo
      BY <1>3, <2>1, <2>2
    <3> QED
      BY <3>1, <3>2
  <2>3. CASE k # Len(stack)
    <3>1. k < Len(stack) /\ k + 1 \in 1 .. Len(stack)
      BY <1>3, <2>3
    <3> QED
      BY <1>5, <1>6, <2>1, <2>3, <3>1
  <2> QED
    BY <2>2, <2>3
<1>9. RootsTaken(rest, roots', {u})
  <2>1. rest[1].node = stack[1].node
    <3>1. 1 \in 1 .. Len(stack)
      BY <1>3
    <3> QED
      BY <1>6, <3>1
  <2> QED
    BY <1>2, <1>5, <2>1 DEF Search, RootsTaken
<1>10. u \in Known /\ u \in graph[rest[Len(rest)].node]
  <2>1. Top.todo \subseteq graph[Top.node] \cap Known
    BY <1>2, <1>3 DEF Search, Path, Top
  <2> QED
    BY <1>1, <1>4, <1>5, <2>1
<1> QED
  BY <1>1, <1>2, <1>3, <1>5, <1>7, <1>8, <1>9, <1>10, VisitInv DEF Search, f, rest

LEMMA ReturnInv ==
  ASSUME SearchInv, Return PROVE SearchInv'
<1>1. /\ result = "none" /\ stack # <<>> /\ Top.todo = {} /\ stack' = Under
      /\ visiting' = visiting \ {Top.node} /\ visited' = visited \cup {Top.node}
      /\ UNCHANGED <<graph, roots, result>>
  BY DEF Return
<1>2. Search /\ SearchTypes
  BY <1>1 DEF SearchInv
<1>3. stack \in Seq(Frame) /\ Len(stack) \in Nat \ {0} /\ Top \in Frame
  BY <1>1, <1>2, UnderTop DEF SearchTypes
<1>4. /\ stack' \in Seq(Frame) /\ Len(stack') = Len(stack) - 1
      /\ \A k \in 1 .. Len(stack') : stack'[k] = stack[k]
  BY <1>1, <1>3, UnderTop
<1>5. Top.node \in Known /\ graph[Top.node] \cap Known \subseteq visited
  BY <1>1, <1>2, <1>3 DEF Search, Path, Taken, Top
<1>6. Path(stack') /\ Distinct(stack')
  BY <1>2, <1>3, <1>4 DEF Search, Path, Distinct
<1>7. Nodes(stack') = Nodes(stack) \ {Top.node}
  <2>1. Distinct(stack) /\ Top = stack[Len(stack)]
    BY <1>2 DEF Search, Top
  <2>2. ASSUME NEW x \in Nodes(stack') PROVE x \in Nodes(stack) \ {Top.node}
    <3>1. PICK k \in 1 .. Len(stack') : x = stack'[k].node
      BY <2>2 DEF Nodes
    <3>2. k \in 1 .. Len(stack) /\ k # Len(stack) /\ x = stack[k].node
      BY <1>3, <1>4, <3>1
    <3>3. Len(stack) \in 1 .. Len(stack)
      BY <1>3
    <3> QED
      BY <2>1, <3>2, <3>3 DEF Distinct, Nodes
  <2>3. ASSUME NEW x \in Nodes(stack) \ {Top.node} PROVE x \in Nodes(stack')
    <3>1. PICK k \in 1 .. Len(stack) : x = stack[k].node
      BY <2>3 DEF Nodes
    <3>2. k \in 1 .. Len(stack') /\ x = stack'[k].node
      BY <1>3, <1>4, <2>1, <2>3, <3>1
    <3> QED
      BY <3>2 DEF Nodes
  <2> QED
    BY <2>2, <2>3
<1>8. Cardinality(visiting') = Len(stack')
  <2>1. Top.node \in visiting
    <3>1. Len(stack) \in 1 .. Len(stack)
      BY <1>3
    <3> QED
      BY <1>2, <3>1 DEF Search, Nodes, Top
  <2>2. IsFiniteSet(visiting)
    BY <1>2, GraphFinite
  <2>3. Cardinality(visiting \ {Top.node}) = Cardinality(visiting) - 1
    BY <2>1, <2>2, FS_RemoveElement
  <2> QED
    BY SMTT(40), <1>1, <1>2, <1>4, <2>3 DEF Search
<1>9. Taken(stack', {Top.node})
  BY SMTT(40), <1>2, <1>3, <1>4 DEF Search, Taken, Top
<1>10. RootsTaken(stack', roots, {Top.node})
  <2>1. CASE Len(stack) = 1
    BY <1>2, <1>3, <1>4, <2>1 DEF Search, RootsTaken, Top
  <2>2. CASE Len(stack) # 1
    BY <1>2, <1>3, <1>4, <2>2 DEF Search, RootsTaken
  <2> QED
    BY <2>1, <2>2
<1>11. Clear'
  <2> SUFFICES ASSUME NEW C \in SUBSET Known, Circular(graph, C), Top.node \in C PROVE FALSE
    BY <1>1, <1>2 DEF Search, Clear, Known
  <2> QED
    BY <1>2, <1>5 DEF Search, Clear, Circular
<1>12. (Taken(stack, {}))'
  BY <1>1, <1>9 DEF Taken, Known
<1>13. (RootsTaken(stack, roots, {}))'
  BY SMTT(40), <1>1, <1>10 DEF RootsTaken, Known
<1>14. Search'
  BY <1>1, <1>2, <1>6, <1>7, <1>8, <1>9, <1>10, <1>11
     DEF Search, Path, Distinct, Nodes, Taken, RootsTaken, Known
<1>15. SearchTypes'
  BY <1>1, <1>2, <1>4, <1>5 DEF SearchTypes, Known
<1> QED
  BY <1>1, <1>14, <1>15 DEF SearchInv, Exact

(* The calls that nest are about as many items. *)
LEMMA TooDeepInv ==
  ASSUME SearchInv, TooDeep PROVE SearchInv'
<1>1. /\ result = "none" /\ result' = "recursion" /\ Len(stack) >= Depth
      /\ IF stack = <<>> THEN roots # {} ELSE Top.todo # {}
      /\ UNCHANGED <<graph, roots, stack, visiting, visited>>
  BY DEF TooDeep
<1>2. Search /\ SearchTypes /\ IsFiniteSet(Known) /\ IsFiniteSet(visiting)
  BY <1>1, GraphFinite DEF SearchInv
<1>3. ~ Acyclic(graph) \/ Cardinality(Known) > Depth
  <2>1. ASSUME NEW u \in Known \ visiting PROVE Cardinality(Known) > Depth
    <3>1. IsFiniteSet(visiting \cup {u}) /\ Cardinality(visiting \cup {u}) = Len(stack) + 1
      BY <1>2, <2>1, FS_AddElement DEF Search
    <3>2. visiting \cup {u} \subseteq Known
      BY <1>2 DEF SearchTypes, Known
    <3>3. Cardinality(visiting \cup {u}) <= Cardinality(Known)
      BY <1>2, <3>2, FS_Subset
    <3>4. Cardinality(Known) \in Nat /\ Len(stack) \in Nat /\ Depth \in Nat
      BY <1>2, FS_CardinalityType, SearchConstants DEF SearchTypes
    <3> QED
      BY <1>1, <3>1, <3>3, <3>4
  <2>2. CASE stack = <<>>
    <3>1. visiting = {}
      BY <1>2, <2>2 DEF Search, Nodes
    <3> QED
      BY <1>1, <1>2, <2>1, <2>2, <3>1 DEF SearchTypes, Known
  <2>3. CASE stack # <<>>
    <3>1. PICK u \in Top.todo : TRUE
      BY <1>1, <2>3
    <3>2. stack \in Seq(Frame) /\ Len(stack) \in Nat \ {0}
      BY <1>2, <2>3 DEF SearchTypes
    <3>3. u \in Known /\ u \in graph[stack[Len(stack)].node]
      BY <1>2, <3>1, <3>2 DEF Search, Path, Top
    <3>4. CASE u \in visiting
      BY <1>2, <2>3, <3>2, <3>3, <3>4, PathCloses DEF Search
    <3> QED
      BY <2>1, <3>3, <3>4
  <2> QED
    BY <2>2, <2>3
<1> QED
  BY <1>1, <1>2, <1>3 DEF SearchInv, SearchTypes, Exact, Results, Known

LEMMA AcceptInv ==
  ASSUME SearchInv, Accept PROVE SearchInv'
<1>1. /\ result = "none" /\ result' = "ok" /\ stack = <<>> /\ roots = {}
      /\ UNCHANGED <<graph, roots, stack, visiting, visited>>
  BY DEF Accept
<1>2. Search /\ SearchTypes
  BY <1>1 DEF SearchInv
<1>3. Known \subseteq visited
  BY <1>1, <1>2 DEF Search, RootsTaken
<1>4. Acyclic(graph)
  BY <1>2, <1>3 DEF Search, Clear, Acyclic, Circular, Known
<1> QED
  BY <1>1, <1>2, <1>4 DEF SearchInv, SearchTypes, Exact, Results

LEMMA SearchStepInv == SearchInv /\ [SearchNext]_searchVars => SearchInv'
<1>1. ASSUME SearchInv, UNCHANGED searchVars PROVE SearchInv'
  BY <1>1 DEF SearchInv, searchVars, SearchTypes, Search, Path, Distinct, Nodes, Taken, RootsTaken, Clear,
              Known, Exact
<1> QED
  BY <1>1, RootInv, DescendInv, ReturnInv, TooDeepInv, AcceptInv DEF SearchNext

(* The types of the variables. *)
THEOREM SearchTyping == SearchSpec => []SearchTypes
<1>1. SearchInv => SearchTypes
  BY DEF SearchInv
<1> QED
  BY <1>1, SearchInitInv, SearchStepInv, PTL DEF SearchSpec

(* The search reports a cycle exactly where there is one, and runs out of  *)
(* calls only when there is one or the items outnumber the calls allowed.  *)
THEOREM SearchExact == SearchSpec => []Exact
<1>1. SearchInv => Exact
  BY DEF SearchInv
<1> QED
  BY <1>1, SearchInitInv, SearchStepInv, PTL DEF SearchSpec
=============================================================================
