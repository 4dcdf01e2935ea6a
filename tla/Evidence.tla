------------------------------ MODULE Evidence ------------------------------
(***************************************************************************)
(* The evidence ledger of a session, services/evidence_ledger.py, together *)
(* with the records an item may cite: sources, executions and the          *)
(* artifacts of executions, which other tools add meanwhile.  Records are  *)
(* immutable, and operations of a session do not overlap (Sessions), so a  *)
(* registration is one step.                                               *)
(***************************************************************************)
EXTENDS EvidenceGraph

CONSTANTS
  Sources, Execs, Arts, Ids,   \* ids of each kind of record
  NoExec, NoRecord

ASSUME EvidenceConstants == NoExec \notin Execs

VARIABLES
  sources,   \* sources registered
  made,      \* the execution that registered each artifact, or NoExec
  execs,     \* record of each execution, or NoRecord
  items      \* the evidence items by id

vars == <<sources, made, execs, items>>

Fact == {"source_fact", "derived_fact"}
Classes == Fact \cup {"interpretation", "recommendation"}
Item == [class : Classes, sources : SUBSET Sources, execs : SUBSET Execs,
         arts : SUBSET Arts, evidence : SUBSET Ids]
Record == [ok : BOOLEAN, sources : SUBSET Sources, arts : SUBSET Arts]

TypeOK ==
  /\ sources \subseteq Sources
  /\ made \in [Arts -> Execs \cup {NoExec}]
  /\ execs \in [Execs -> Record \cup {NoRecord}]
  /\ DOMAIN items \subseteq Ids
  /\ items \in [DOMAIN items -> Item]

Init ==
  /\ sources = {}
  /\ made = [a \in Arts |-> NoExec]
  /\ execs = [e \in Execs |-> NoRecord]
  /\ items = <<>>

RegisterSource(s) ==
  /\ sources' = sources \cup {s}
  /\ UNCHANGED <<made, execs, items>>

(* An artifact is there before the record of its execution, or without one *)
(* when the server dies in between.                                        *)
AddArtifact(a, e) ==
  /\ made[a] = NoExec /\ execs[e] = NoRecord
  /\ made' = [made EXCEPT ![a] = e]
  /\ UNCHANGED <<sources, execs, items>>

(* A failed execution records its artifacts as well. *)
AddExecution(e) ==
  /\ execs[e] = NoRecord
  /\ \E ok \in BOOLEAN, S \in SUBSET sources :
       execs' = [execs EXCEPT ![e] =
                   [ok |-> ok, sources |-> S, arts |-> {a \in Arts : made[a] = e}]]
  /\ UNCHANGED <<sources, made, items>>

Graph == [i \in DOMAIN items |-> items[i].evidence]

With(i, item) == [j \in DOMAIN items \cup {i} |-> IF j = i THEN item ELSE items[j]]

-----------------------------------------------------------------------------
(* Faulty variants put in place of the definitions below by mutation runs. *)

(* Only the classification is looked at, not what it requires. *)
WellFormedLoosely(i, item) == item.class \in Classes /\ i \notin item.evidence

(* Sources are only looked up. *)
ChainedOutputs(item) ==
  /\ \A e \in item.execs : execs[e].ok
  /\ \A a \in item.arts : made[a] \in item.execs

(* Upstream items are looked up only where their classes matter. *)
FoundLate(item) ==
  /\ item.sources \subseteq sources
  /\ \A e \in item.execs : execs[e] # NoRecord
  /\ \A a \in item.arts : made[a] # NoExec
  /\ item.class = "interpretation" => item.evidence \subseteq DOMAIN items

(* An execution need not have succeeded. *)
ChainedFailed(item) ==
  /\ \A a \in item.arts : made[a] \in item.execs /\ a \in execs[made[a]].arts
  /\ item.sources \subseteq UNION {execs[e].sources : e \in item.execs}

-----------------------------------------------------------------------------
(* What the classification requires by itself. *)
WellFormed(i, item) ==
  /\ item.class = "source_fact" => item.sources # {}
  /\ item.class = "derived_fact" => item.sources # {} /\ item.execs # {}
  /\ item.class \notin Fact => item.evidence # {}
  /\ i \notin item.evidence

(* Every id cited is that of a record of the session. *)
Found(item) ==
  /\ item.sources \subseteq sources
  /\ \A e \in item.execs : execs[e] # NoRecord
  /\ \A a \in item.arts : made[a] # NoExec
  /\ item.evidence \subseteq DOMAIN items

(* The source -> execution -> artifact chain of a derived fact. *)
Chained(item) ==
  /\ \A e \in item.execs : execs[e].ok
  /\ \A a \in item.arts : made[a] \in item.execs /\ a \in execs[made[a]].arts
  /\ item.sources \subseteq UNION {execs[e].sources : e \in item.execs}

Register(i, item) ==
  /\ i \notin DOMAIN items
  /\ WellFormed(i, item)
  /\ Found(item)
  /\ item.class = "derived_fact" => Chained(item)
  /\ item.class = "interpretation" =>
       \A u \in item.evidence : items[u].class # "recommendation"
  /\ Acyclic([j \in DOMAIN With(i, item) |-> With(i, item)[j].evidence])
  /\ items' = With(i, item)
  /\ UNCHANGED <<sources, made, execs>>

Next ==
  \/ \E s \in Sources : RegisterSource(s)
  \/ \E a \in Arts, e \in Execs : AddArtifact(a, e)
  \/ \E e \in Execs : AddExecution(e)
  \/ \E i \in Ids, item \in Item : Register(i, item)

Spec == Init /\ [][Next]_vars

-----------------------------------------------------------------------------
Facts == {i \in DOMAIN items : items[i].class \in Fact}

(* FR-022 and the evidence graph of data-model.md: whatever is concluded,  *)
(* going upstream ends at a fact: no item is left to rest on itself, on an *)
(* item that is missing, or on conclusions alone.                          *)
Grounded == \A i \in DOMAIN items : Rests(Graph, i, Facts)

(* The ledger never refuses a registration for a cycle: an item under a    *)
(* new id, citing only items that are there, closes none, in whatever      *)
(* order the others came.  The search in register guards against records   *)
(* the ledger did not write.                                               *)
CycleCheckIdle ==
  \A i \in Ids \ DOMAIN items, item \in Item :
    WellFormed(i, item) /\ Found(item) =>
      Acyclic([j \in DOMAIN With(i, item) |-> With(i, item)[j].evidence])

(* The chain of a derived fact stays real: it cites sources, and each was  *)
(* used by an execution it cites that succeeded; each artifact is listed   *)
(* by the execution that made it, also while more records are added.       *)
ChainReal ==
  \A i \in Facts : items[i].class = "derived_fact" =>
    /\ items[i].sources # {}
    /\ \A s \in items[i].sources :
         \E e \in items[i].execs :
           execs[e] # NoRecord /\ execs[e].ok /\ s \in execs[e].sources
    /\ \A a \in items[i].arts :
         \E e \in items[i].execs : made[a] = e /\ execs[e].ok /\ a \in execs[e].arts
=============================================================================
