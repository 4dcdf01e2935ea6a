----------------------------- MODULE Validation -----------------------------
(***************************************************************************)
(* validate_analysis of one session: ValidationService.validate runs its   *)
(* validators one after the other over source files that change under it,  *)
(* and gives a verdict.  Also what it judges: sources registered by        *)
(* inspect_source, and evidence derived from them by queries and by        *)
(* managed Python.                                                         *)
(*                                                                         *)
(* A version of a file stands for its fingerprint (sha256, size and        *)
(* modification time), and has a content; a file that is touched gets a    *)
(* new version of the same content.  Operations of a session do not        *)
(* overlap (Sessions); edits of files overlap with them.                   *)
(***************************************************************************)
EXTENDS Integers, Sequences

CONSTANTS
  Paths,           \* source files
  Versions,        \* versions a file can have, taken in increasing order
  Content,         \* content of each version
  Rows, Distinct, Gaps,  \* of each content: rows, different rows, and missing
                         \* values of the column that misses most
  Times,           \* readings of the clock that dates a record
  Claims,          \* claims, each that of at most one evidence item
  Causal,          \* claims in causal language
  Selections,      \* selections of checks a client makes
  Forms,           \* [figure, material] the item of each claim may come with
  MaxSources, MaxRuns,   \* bounds: sources registered, validation runs
  Missing, NoItem, NoRun

Checks == <<"evidence_coverage", "stale_sources", "duplicates", "missingness",
            "denominator_consistency", "causal_language">>
CheckNames == {Checks[n] : n \in DOMAIN Checks}

Contents == {Content[v] : v \in Versions}
Form == [figure : {"none", "good", "mismatch", "bad"},   \* the denominator in its value
         material : BOOLEAN]

ASSUME ValidationConstants ==
  /\ Versions \subseteq Nat /\ Missing \notin Versions
  /\ \A x \in Contents : /\ Rows[x] \in Nat
                        /\ Distinct[x] \in 0 .. Rows[x] /\ Gaps[x] \in 0 .. Rows[x]
  /\ Times \subseteq Nat
  /\ Selections \subseteq SUBSET CheckNames
  /\ Forms \in [Claims -> SUBSET Form]
  /\ MaxSources \in Nat /\ MaxRuns \in Nat

VARIABLES
  files,     \* the version of each file, or Missing
  newest,    \* the newest version written so far
  restored,  \* files put back to an earlier version at some time
  inspected, \* the version of each path when it was last inspected
  sources,   \* the source records, in the order they were made
  items,     \* the evidence item with each claim, or NoItem
  run,       \* the validation under way, or NoRun
  verdict,   \* the last validation run, or NoRun
  runs       \* number of validations started

vars == <<files, newest, restored, inspected, sources, items, run, verdict, runs>>

Ids == 1 .. MaxSources
Known == DOMAIN sources
Outcomes == {"blocking", "warning", "inconclusive"}
Statuses == {"blocked", "warnings", "validated"}

Source == [path : Paths, version : Versions, at : Times]   \* at: registered_at
Item == [sources : SUBSET Ids,      \* source_ids
         used : UNION {[S -> Contents] : S \in SUBSET Ids},   \* what its execution read
         form : Form]
Verdict == [status : Statuses, checks : SUBSET CheckNames, texts : SUBSET Claims,
            claims : SUBSET Claims, active : SUBSET Ids, steady : BOOLEAN]
Run == [step : 1 .. Len(Checks) + 1, todo : SUBSET Ids, read : BOOLEAN,
        active : SUBSET Ids, claims : SUBSET Claims, texts : SUBSET Claims,
        checks : SUBSET CheckNames, found : SUBSET Outcomes,
        counted : [Ids -> Contents \cup {Missing}],   \* content whose rows were counted
        steady : BOOLEAN]                  \* no file changed since the run started

TypeOK ==
  /\ files \in [Paths -> Versions \cup {Missing}]
  /\ newest \in Nat
  /\ restored \subseteq Paths
  /\ inspected \in [Paths -> Versions \cup {Missing}]
  /\ sources \in Seq(Source) /\ Len(sources) <= MaxSources
  /\ items \in [Claims -> Item \cup {NoItem}]
  /\ run \in Run \cup {NoRun}
  /\ verdict \in Verdict \cup {NoRun}
  /\ runs \in 0 .. MaxRuns

Init ==
  /\ files = [p \in Paths |-> Missing]
  /\ newest = 0
  /\ restored = {}
  /\ inspected = [p \in Paths |-> Missing]
  /\ sources = <<>>
  /\ items = [c \in Claims |-> NoItem]
  /\ run = NoRun
  /\ verdict = NoRun
  /\ runs = 0

Registered == {c \in Claims : items[c] # NoItem}

Current(s) == files[sources[s].path]

(* No record of the same location has a later time; there may be several.  *)
Latest(s) == \A t \in Known : sources[t].path = sources[s].path => sources[t].at <= sources[s].at

(* The claims among these whose item is material. *)
Material(claims) == {c \in claims : items[c].form.material}

Referenced ==
  UNION {items[c].sources \cup DOMAIN items[c].used : c \in Registered}

-----------------------------------------------------------------------------
(* Faulty variants put in place of the definitions below by mutation runs. *)

(* Re-inspection supersedes every older record. *)
ActiveLatest == {s \in Known : Latest(s)}

(* Every record stays active. *)
ActiveAll == Known

(* A check that reached no verdict is forgotten. *)
StatusCertain(found) ==
  IF "blocking" \in found THEN "blocked"
  ELSE IF "warning" \in found THEN "warnings"
  ELSE "validated"

-----------------------------------------------------------------------------
(* Sources validated: the latest record of each file and all that evidence *)
(* refers to.                                                              *)
Active == {s \in Known : s \in Referenced \/ Latest(s)}

Status(found) ==
  IF "blocking" \in found THEN "blocked"
  ELSE IF found # {} THEN "warnings"
  ELSE "validated"

-----------------------------------------------------------------------------
(* Files change at any time. *)
Disturb == run' = IF run = NoRun THEN NoRun ELSE [run EXCEPT !.steady = FALSE]

Edit(p) ==
  /\ newest + 1 \in Versions
  /\ newest' = newest + 1
  /\ files' = [files EXCEPT ![p] = newest']
  /\ Disturb
  /\ UNCHANGED <<restored, inspected, sources, items, verdict, runs>>

Delete(p) ==
  /\ files' = [files EXCEPT ![p] = Missing]
  /\ Disturb
  /\ UNCHANGED <<newest, restored, inspected, sources, items, verdict, runs>>

(* A registered version comes back, modification time and all. *)
Restore(s) ==
  /\ files' = [files EXCEPT ![sources[s].path] = sources[s].version]
  /\ restored' = restored \cup {sources[s].path}
  /\ Disturb
  /\ UNCHANGED <<newest, inspected, sources, items, verdict, runs>>

(* inspect_source: a record with this path and fingerprint is reused; a    *)
(* new one gets the time of a clock that may stand still or be set back.   *)
Inspect(p) ==
  /\ run = NoRun /\ files[p] # Missing
  /\ inspected' = [inspected EXCEPT ![p] = files[p]]
  /\ IF \E s \in Known : sources[s].path = p /\ sources[s].version = files[p]
     THEN UNCHANGED sources
     ELSE /\ Len(sources) < MaxSources
          /\ \E t \in Times :
               sources' = Append(sources, [path |-> p, version |-> files[p], at |-> t])
  /\ UNCHANGED <<files, newest, restored, items, run, verdict, runs>>

(* An execution that reads the sources in U, and a derived fact about some *)
(* of them.  Managed Python compares nothing; a query rejects a source     *)
(* whose sha256 changed, but reads it later: either may read any version.  *)
Derive(c, U, S) ==
  /\ run = NoRun /\ items[c] = NoItem
  /\ S # {} /\ S \subseteq U
  /\ \A s \in U : Current(s) # Missing
  /\ \E f \in Forms[c] :
       items' = [items EXCEPT ![c] =
         [sources |-> S, used |-> [s \in U |-> Content[Current(s)]], form |-> f]]
  /\ UNCHANGED <<files, newest, restored, inspected, sources, run, verdict, runs>>

Uncounted == [s \in Ids |-> Missing]

(* Evidence and sources are listed once, before the first validator. *)
Start(texts, checks) ==
  /\ run = NoRun /\ checks # {}
  /\ runs < MaxRuns /\ runs' = runs + 1
  /\ run' = [step |-> 1, todo |-> Active, read |-> FALSE, active |-> Active,
             claims |-> Registered, texts |-> texts, checks |-> checks, found |-> {},
             counted |-> Uncounted, steady |-> TRUE]
  /\ UNCHANGED <<files, newest, restored, inspected, sources, items, verdict>>

At(check) ==
  /\ run # NoRun /\ run.step <= Len(Checks)
  /\ Checks[run.step] = check /\ check \in run.checks

(* The validator ends with these outcomes; the next one starts. *)
Conclude(outcomes) ==
  /\ run' = [run EXCEPT !.found = @ \cup outcomes, !.step = @ + 1,
                        !.todo = run.active, !.read = FALSE]
  /\ UNCHANGED <<files, newest, restored, inspected, sources, items, verdict, runs>>

Skip ==
  /\ run # NoRun /\ run.step <= Len(Checks) /\ Checks[run.step] \notin run.checks
  /\ Conclude({})

Coverage ==
  /\ At("evidence_coverage")
  /\ Conclude(IF run.texts = {} THEN {"inconclusive"}
              ELSE IF run.texts \subseteq Material(run.claims) THEN {} ELSE {"blocking"})

(* One source at a time: the file is resolved and hashed. *)
Compare(s) ==
  /\ At("stale_sources") /\ s \in run.todo
  /\ run' = [run EXCEPT !.todo = @ \ {s}, !.read = TRUE,
       !.found = @ \cup IF Current(s) = sources[s].version THEN {} ELSE {"blocking"}]
  /\ UNCHANGED <<files, newest, restored, inspected, sources, items, verdict, runs>>

(* The file cannot be read, or is gone since it was resolved. *)
CompareFails(s) ==
  /\ At("stale_sources") /\ s \in run.todo
  /\ run' = [run EXCEPT !.todo = @ \ {s}, !.read = TRUE, !.found = @ \cup {"inconclusive"}]
  /\ UNCHANGED <<files, newest, restored, inspected, sources, items, verdict, runs>>

(* Duplicates and missing values: a file that is gone is passed over; the  *)
(* rows of another are counted.                                            *)
Count(s) ==
  /\ At("duplicates") \/ At("missingness")
  /\ s \in run.todo /\ run.counted = Uncounted
  /\ run' = IF Current(s) = Missing THEN [run EXCEPT !.todo = @ \ {s}]
            ELSE [run EXCEPT !.read = TRUE, !.counted[s] = Content[Current(s)]]
  /\ UNCHANGED <<files, newest, restored, inspected, sources, items, verdict, runs>>

(* A duplicate, or a column without a value in 10% of the rows, is a       *)
(* warning.                                                                *)
Stained(check, counted, now) ==
  IF check = "duplicates" THEN Rows[counted] > Distinct[now]
  ELSE Rows[counted] > 0 /\ 10 * Gaps[now] >= Rows[counted]

(* The file is read again, in the version it has by now. *)
Examine(s) ==
  /\ run # NoRun /\ run.counted[s] # Missing /\ Current(s) # Missing
  /\ run' = [run EXCEPT !.todo = @ \ {s}, !.counted = Uncounted,
       !.found = @ \cup IF Stained(Checks[run.step], run.counted[s], Content[Current(s)])
                        THEN {"warning"} ELSE {}]
  /\ UNCHANGED <<files, newest, restored, inspected, sources, items, verdict, runs>>

(* A faulty variant of ReadFails: the source is passed over. *)
ReadFailsUntold(s) ==
  /\ run # NoRun /\ run.counted[s] # Missing
  /\ run' = [run EXCEPT !.todo = @ \ {s}, !.counted = Uncounted]
  /\ UNCHANGED <<files, newest, restored, inspected, sources, items, verdict, runs>>

(* The reader rejects the file, or it is gone by now; the others are read. *)
ReadFails(s) ==
  /\ run # NoRun /\ run.counted[s] # Missing
  /\ run' = [run EXCEPT !.todo = @ \ {s}, !.counted = Uncounted,
                        !.found = @ \cup {"inconclusive"}]
  /\ UNCHANGED <<files, newest, restored, inspected, sources, items, verdict, runs>>

SourcesDone ==
  /\ At("stale_sources") \/ At("duplicates") \/ At("missingness")
  /\ run.todo = {}
  /\ Conclude(IF run.read THEN {} ELSE {"inconclusive"})

Denominators ==
  LET figures == {items[c].form.figure : c \in run.claims} \ {"none"} IN
  /\ At("denominator_consistency")
  /\ Conclude(IF figures = {} THEN {"inconclusive"}
              ELSE (IF "bad" \in figures THEN {"blocking"} ELSE {})
                     \cup (IF "mismatch" \in figures THEN {"warning"} ELSE {}))

(* Without claims given, those of material evidence are looked at. *)
CausalLanguage ==
  LET candidates == IF run.texts # {} THEN run.texts ELSE Material(run.claims) IN
  /\ At("causal_language")
  /\ Conclude(IF candidates \cap Causal = {} THEN {} ELSE {"blocking"})

Finish ==
  /\ run # NoRun /\ run.step = Len(Checks) + 1
  /\ verdict' = [status |-> Status(run.found), checks |-> run.checks, texts |-> run.texts,
                 claims |-> run.claims, active |-> run.active, steady |-> run.steady]
  /\ run' = NoRun
  /\ UNCHANGED <<files, newest, restored, inspected, sources, items, runs>>

(* A validator raises, or the server dies: there is no run. *)
Abandon ==
  /\ run # NoRun /\ run' = NoRun
  /\ UNCHANGED <<files, newest, restored, inspected, sources, items, verdict, runs>>

Validate ==
  \/ Skip \/ Coverage \/ SourcesDone \/ Denominators \/ CausalLanguage \/ Finish
  \/ \E s \in Known : Compare(s) \/ CompareFails(s) \/ Count(s) \/ Examine(s) \/ ReadFails(s)

Next ==
  \/ \E p \in Paths : Edit(p) \/ Delete(p) \/ Inspect(p)
  \/ \E s \in Known : Restore(s)
  \/ \E c \in Claims, U \in SUBSET Known :
       \E S \in SUBSET U : Derive(c, U, S)
  \/ \E texts \in SUBSET Claims, checks \in Selections : Start(texts, checks)
  \/ Validate
  \/ Abandon

Spec == Init /\ [][Next]_vars

-----------------------------------------------------------------------------
Validated == verdict # NoRun /\ verdict.status = "validated"
Complete == verdict # NoRun /\ verdict.checks = CheckNames

(* A validated run of all checks is no coverage gap: claims were given,    *)
(* each is that of a material evidence item, none is causal, and the       *)
(* figures of the evidence, material or not, are there and all good.       *)
ValidatedMeans ==
  Validated /\ Complete =>
    /\ verdict.texts # {}
    /\ \A c \in verdict.texts : items[c] # NoItem /\ items[c].form.material /\ c \notin Causal
    /\ \E c \in verdict.claims : items[c].form.figure = "good"
    /\ \A c \in verdict.claims : items[c].form.figure \in {"none", "good"}

(* The stale-source check is enough to trust the chain of evidence: when   *)
(* a run of all checks validates, every execution behind the evidence read *)
(* its sources as they were registered, although managed Python compares   *)
(* nothing and files are edited at any time, before the run and during it. *)
(* A file put back after the execution hides what it read.                 *)
ValidatedOnRegisteredData ==
  Validated /\ Complete =>
    \A c \in verdict.claims : \A s \in DOMAIN items[c].used :
      sources[s].path \in restored \/ items[c].used[s] = Content[sources[s].version]

(* What a validated run of all checks says of the data, when no file       *)
(* changed while it ran: no source it took in, in the version it is        *)
(* registered in, has a duplicate row or a column that misses its value in *)
(* a tenth of the rows, although each is read several times, other sources *)
(* in between, and any of these reads can fail.                            *)
ValidatedClean ==
  Validated /\ Complete /\ verdict.steady =>
    \A s \in verdict.active : LET data == Content[sources[s].version] IN
      /\ Rows[data] = Distinct[data]
      /\ Rows[data] = 0 \/ 10 * Gaps[data] < Rows[data]

(* Inspected as it is now, and not back at an earlier registered version;  *)
(* and the clock went on from each of its records to the next.             *)
Forward(p) ==
  /\ files[p] # Missing /\ inspected[p] = files[p]
  /\ \A s \in Known : sources[s].path = p => sources[s].version <= files[p]
  /\ \A s, t \in Known : s < t /\ sources[s].path = p /\ sources[t].path = p
                           => sources[s].at < sources[t].at

(* STALE_SOURCE's remediation, "Re-inspect the changed source": a source   *)
(* that no evidence refers to is stale only until its file is inspected in *)
(* the version it has, as long as its versions and the clock go forward.   *)
ReinspectClears ==
  \A s \in Active \ Referenced :
    Forward(sources[s].path) => sources[s].version = Current(s)
=============================================================================
