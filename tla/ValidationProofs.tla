--------------------------- MODULE ValidationProofs --------------------------
(***************************************************************************)
(* What a validated run means, proved for every number of files, versions, *)
(* claims and sources.  During a run neither evidence nor sources change,  *)
(* only files do; RunInv says at each validator what those before it have  *)
(* established, as long as none of them reported anything.                 *)
(***************************************************************************)
EXTENDS Validation, TLAPS

(* The validators and their places. *)
LEMMA CheckPlaces ==
  /\ Len(Checks) = 6
  /\ \A n \in 1 .. 6 : Checks[n] \in CheckNames
  /\ \A n \in 1 .. 6 :
       /\ Checks[n] = "evidence_coverage" <=> n = 1
       /\ Checks[n] = "stale_sources" <=> n = 2
       /\ Checks[n] = "duplicates" <=> n = 3
       /\ Checks[n] = "missingness" <=> n = 4
       /\ Checks[n] = "denominator_consistency" <=> n = 5
       /\ Checks[n] = "causal_language" <=> n = 6
<1>1. Len(Checks) = 6 /\ DOMAIN Checks = 1 .. 6 BY DEF Checks
<1>2. \A n \in 1 .. 6 : Checks[n] \in CheckNames BY <1>1 DEF CheckNames
<1>3. \A n \in 1 .. 6 : n = 1 \/ n = 2 \/ n = 3 \/ n = 4 \/ n = 5 \/ n = 6 OBVIOUS
<1>4. /\ Checks[1] = "evidence_coverage" /\ Checks[2] = "stale_sources"
      /\ Checks[3] = "duplicates" /\ Checks[4] = "missingness"
      /\ Checks[5] = "denominator_consistency" /\ Checks[6] = "causal_language"
  BY SMTT(40) DEF Checks
<1>. QED BY <1>1, <1>2, <1>3, <1>4

(* Steps that only move the run on. *)
RunOnly ==
  /\ run # NoRun
  /\ UNCHANGED <<files, newest, restored, inspected, sources, items, verdict, runs>>

Working ==
  \/ Skip \/ Coverage \/ SourcesDone \/ Denominators \/ CausalLanguage
  \/ \E s \in Known : Compare(s) \/ CompareFails(s) \/ Count(s) \/ Examine(s) \/ ReadFails(s)

LEMMA WorkingRunOnly == Working => RunOnly
  BY DEF Working, RunOnly, Skip, Coverage, SourcesDone, Denominators, CausalLanguage, Compare,
         CompareFails, Count, Examine, ReadFails, Conclude, At

LEMMA TypeInit == Init => TypeOK
  BY ValidationConstants DEF Init, TypeOK, Ids, Source

LEMMA KnownSource ==
  ASSUME TypeOK
  PROVE  /\ Known = 1 .. Len(sources) /\ Len(sources) \in Nat /\ Known \subseteq Ids
         /\ \A s \in Known : /\ s \in Nat /\ sources[s] \in Source
                             /\ sources[s].path \in Paths /\ sources[s].version \in Versions
                             /\ Current(s) \in Versions \cup {Missing}
<1>1. sources \in Seq(Source) /\ Len(sources) <= MaxSources BY DEF TypeOK
<1>2. Known = 1 .. Len(sources) /\ Len(sources) \in Nat BY <1>1 DEF Known
<1>3. Known \subseteq Ids BY <1>1, <1>2, ValidationConstants DEF Ids
<1>4. \A s \in Known : s \in Nat /\ sources[s] \in Source BY <1>1, <1>2
<1>. QED BY <1>2, <1>3, <1>4 DEF Source, Current, TypeOK

(* A run stays one whatever a validator does. *)
LEMMA WorkingType ==
  ASSUME TypeOK, Working
  PROVE  run' \in Run
<1>1. run \in Run BY WorkingRunOnly DEF RunOnly, TypeOK
<1>2. /\ run.step \in 1 .. 7 /\ run.todo \subseteq Ids /\ run.read \in BOOLEAN
      /\ run.active \subseteq Ids /\ run.claims \subseteq Claims /\ run.texts \subseteq Claims
      /\ run.checks \subseteq CheckNames /\ run.found \subseteq Outcomes
      /\ run.counted \in [Ids -> Contents \cup {Missing}] /\ run.steady \in BOOLEAN
  BY <1>1, CheckPlaces DEF Run
<1>3. ASSUME NEW outcomes \in SUBSET Outcomes, run.step \in 1 .. 6, Conclude(outcomes)
      PROVE  run' \in Run
  <2>1. run.found \cup outcomes \subseteq Outcomes BY <1>2, <1>3
  <2>2. run.step + 1 \in 1 .. Len(Checks) + 1 BY <1>3, CheckPlaces
  <2>3. run' = [run EXCEPT !.found = run.found \cup outcomes, !.step = run.step + 1,
                           !.todo = run.active, !.read = FALSE]
    BY <1>3 DEF Conclude
  <2>. QED BY <1>1, <1>2, <2>1, <2>2, <2>3 DEF Run
<1>4. ASSUME run.step <= Len(Checks) PROVE run.step \in 1 .. 6 BY <1>2, <1>4, CheckPlaces
<1>5. CASE Skip \/ Coverage \/ SourcesDone \/ Denominators \/ CausalLanguage
  <2>1. run.step \in 1 .. 6
    BY <1>4, <1>5 DEF Skip, Coverage, SourcesDone, Denominators, CausalLanguage, At
  <2>2. PICK outcomes : outcomes \subseteq Outcomes /\ Conclude(outcomes)
    BY <1>5 DEF Skip, Coverage, SourcesDone, Denominators, CausalLanguage, Outcomes
  <2>. QED BY <1>3, <2>1, <2>2
<1>6. ASSUME NEW s \in Known, Compare(s) \/ CompareFails(s) \/ Count(s) \/ Examine(s) \/ ReadFails(s) PROVE run' \in Run
  <2>. s \in Ids /\ Current(s) \in Versions \cup {Missing} BY KnownSource
  <2>. Current(s) # Missing => Content[Current(s)] \in Contents BY DEF Contents
  <2>1. CASE Compare(s) BY <1>1, <1>2, <2>1 DEF Run, Compare, Outcomes
  <2>5. CASE CompareFails(s) BY <1>1, <1>2, <2>5 DEF Run, CompareFails, Outcomes
  <2>2. CASE Count(s) BY <1>1, <1>2, <2>2 DEF Run, Count
  <2>3. CASE Examine(s)
    BY <1>1, <1>2, <2>3 DEF Run, Examine, Outcomes, Uncounted
  <2>4. CASE ReadFails(s) BY <1>1, <1>2, <2>4 DEF Run, ReadFails, Outcomes, Uncounted
  <2>. QED BY <1>6, <2>1, <2>2, <2>3, <2>4, <2>5
<1>. QED BY <1>5, <1>6 DEF Working

LEMMA ValidateSteps == Validate <=> Working \/ Finish
  BY DEF Validate, Working

LEMMA DisturbType ==
  ASSUME TypeOK, Disturb
  PROVE  run' \in Run \cup {NoRun}
<1>1. CASE run = NoRun BY <1>1 DEF Disturb
<1>2. CASE run # NoRun
  <2>1. run \in Run BY <1>2 DEF TypeOK
  <2>2. run' = [run EXCEPT !.steady = FALSE] BY <1>2 DEF Disturb
  <2>. QED BY <2>1, <2>2 DEF Run
<1>. QED BY <1>1, <1>2

LEMMA TypeStep ==
  ASSUME TypeOK, [Next]_vars
  PROVE  TypeOK'
<1>. USE DEF TypeOK
<1>1. CASE UNCHANGED vars BY <1>1 DEF vars
<1>2. ASSUME NEW p \in Paths, Edit(p) \/ Delete(p) PROVE TypeOK'
  BY <1>2, DisturbType DEF Edit, Delete
<1>3. ASSUME NEW s \in Known, Restore(s) PROVE TypeOK'
  BY <1>3, KnownSource, DisturbType DEF Restore
<1>4. ASSUME NEW p \in Paths, Inspect(p) PROVE TypeOK'
  <2>1. files[p] \in Versions BY <1>4 DEF Inspect
  <2>2. CASE sources' = sources BY <1>4, <2>1, <2>2 DEF Inspect
  <2>3. ASSUME NEW t \in Times, Len(sources) < MaxSources,
               sources' = Append(sources, [path |-> p, version |-> files[p], at |-> t])
        PROVE  TypeOK'
    <3>1. [path |-> p, version |-> files[p], at |-> t] \in Source BY <2>1 DEF Source
    <3>2. sources' \in Seq(Source) /\ Len(sources') = Len(sources) + 1 BY <2>3, <3>1
    <3>3. Len(sources') <= MaxSources BY <2>3, <3>2, KnownSource, ValidationConstants
    <3>. QED BY <1>4, <2>1, <3>2, <3>3 DEF Inspect
  <2>. QED BY <1>4, <2>2, <2>3 DEF Inspect
<1>5. ASSUME NEW c \in Claims, NEW U \in SUBSET Known, NEW S \in SUBSET U, Derive(c, U, S)
      PROVE  TypeOK'
  <2>1. PICK f \in Forms[c] :
          items' = [items EXCEPT ![c] =
            [sources |-> S, used |-> [s \in U |-> Content[Current(s)]], form |-> f]]
    BY <1>5 DEF Derive
  <2>2. f \in Form BY ValidationConstants
  <2>3. U \subseteq Ids /\ S \subseteq Ids BY KnownSource
  <2>4. \A s \in U : Content[Current(s)] \in Contents BY <1>5, KnownSource DEF Derive, Contents
  <2>5. [s \in U |-> Content[Current(s)]] \in [U -> Contents] BY <2>4
  <2>6. [s \in U |-> Content[Current(s)]] \in UNION {[T -> Contents] : T \in SUBSET Ids}
    BY <2>3, <2>5
  <2>7. [sources |-> S, used |-> [s \in U |-> Content[Current(s)]], form |-> f] \in Item
    BY <2>2, <2>3, <2>6 DEF Item
  <2>. QED BY <1>5, <2>1, <2>7 DEF Derive
<1>6. ASSUME NEW texts \in SUBSET Claims, NEW checks \in Selections, Start(texts, checks),
             checks \subseteq CheckNames
      PROVE  TypeOK'
  <2>1. Active \subseteq Ids BY KnownSource DEF Active
  <2>2. Uncounted \in [Ids -> Contents \cup {Missing}] BY DEF Uncounted
  <2>3. run' \in Run
    BY <1>6, <2>1, <2>2, CheckPlaces DEF Start, Run, Registered, Outcomes
  <2>4. runs' \in 0 .. MaxRuns BY <1>6, ValidationConstants DEF Start
  <2>. QED BY <1>6, <2>3, <2>4 DEF Start
<1>7. CASE Working BY <1>7, WorkingType, WorkingRunOnly DEF RunOnly
<1>8. CASE Finish
  <2>1. run \in Run BY <1>8 DEF Finish
  <2>2. Status(run.found) \in Statuses BY DEF Status, Statuses
  <2>3. verdict' \in Verdict BY <1>8, <2>1, <2>2 DEF Finish, Run, Verdict
  <2>. QED BY <1>8, <2>3 DEF Finish
<1>9. CASE Abandon BY <1>9 DEF Abandon
<1>. QED
  BY <1>1, <1>2, <1>3, <1>4, <1>5, <1>6, <1>7, <1>8, <1>9, ValidateSteps, ValidationConstants DEF Next

-----------------------------------------------------------------------------
(* The record of a version of a file. *)
Recorded(p, v) == \E s \in Known : sources[s].path = p /\ sources[s].version = v

(* Versions of a file are recorded in increasing order, and a file not yet *)
(* recorded as it is now is newer than its records.                        *)
OrderInv ==
  /\ \A s \in Known : sources[s].version <= newest
  /\ \A s, t \in Known :
       s < t /\ sources[s].path = sources[t].path => sources[s].version < sources[t].version
  /\ \A p \in Paths : files[p] # Missing =>
       /\ files[p] <= newest
       /\ \/ Recorded(p, files[p])
          \/ \A s \in Known : sources[s].path = p => sources[s].version < files[p]
  /\ \A p \in Paths : inspected[p] # Missing => Recorded(p, inspected[p])

(* An execution used only sources there were; and as long as the file is   *)
(* as it was registered, and was never put back, it has read just that.    *)
UsedInv ==
  \A c \in Claims : items[c] # NoItem =>
    /\ DOMAIN items[c].used \subseteq Known
    /\ \A s \in DOMAIN items[c].used :
         sources[s].path \notin restored /\ Current(s) = sources[s].version
           => items[c].used[s] = Content[sources[s].version]

(* What the stale-source check settles for good. *)
Settled(s, claims) ==
  \A c \in claims : s \in DOMAIN items[c].used =>
    sources[s].path \in restored \/ items[c].used[s] = Content[sources[s].version]

(* What a run was given: claims with their items, and all their sources.   *)
Given(r) ==
  /\ r.claims \subseteq Registered /\ r.active \subseteq Known
  /\ \A c \in r.claims : DOMAIN items[c].used \subseteq r.active

(* Nothing is reported so far, and every check is made. *)
Silent == run.found = {} /\ run.checks = CheckNames

(* The validator in this place is done with a source. *)
Past(n, s) == run.step > n \/ (run.step = n /\ s \notin run.todo)

Clean(s, check) ==
  ~ Stained(check, Content[sources[s].version], Content[sources[s].version])

CoverageDone ==
  run.step > 1 => run.texts # {} /\ run.texts \subseteq Material(run.claims)

FiguresDone ==
  run.step > 5 =>
    /\ \E c \in run.claims : items[c].form.figure = "good"
    /\ \A c \in run.claims : items[c].form.figure \in {"none", "good"}

CausalDone == run.step > 6 => run.texts \cap Causal = {}

SourcesSettled == \A s \in run.active : Past(2, s) => Settled(s, run.claims)

(* Rows are counted of a source a validator over data is not done with.    *)
CountedDone == \A s \in Ids : run.counted[s] # Missing => s \in run.todo /\ run.step \in {3, 4}

(* What holds of the data while no file has changed. *)
DataDone ==
  /\ \A s \in run.active :
       /\ Past(2, s) => Current(s) = sources[s].version
       /\ Past(3, s) => Clean(s, "duplicates")
       /\ Past(4, s) => Clean(s, "missingness")
  /\ \A s \in run.active : run.counted[s] # Missing => run.counted[s] = Content[sources[s].version]

RunInv ==
  run # NoRun =>
    /\ Given(run) /\ run.todo \subseteq run.active
    /\ Silent => /\ CoverageDone /\ SourcesSettled /\ FiguresDone /\ CausalDone /\ CountedDone
                 /\ run.steady => DataDone

(* What is said of a verdict. *)
VerdictInv ==
  verdict # NoRun =>
    /\ Given(verdict)
    /\ Validated /\ Complete =>
         /\ verdict.texts # {} /\ verdict.texts \subseteq Material(verdict.claims)
         /\ verdict.texts \cap Causal = {}
         /\ \E c \in verdict.claims : items[c].form.figure = "good"
         /\ \A c \in verdict.claims : items[c].form.figure \in {"none", "good"}
         /\ \A s \in verdict.active : Settled(s, verdict.claims)
         /\ verdict.steady => \A s \in verdict.active :
              Clean(s, "duplicates") /\ Clean(s, "missingness")

IInv == TypeOK /\ OrderInv /\ UsedInv /\ RunInv /\ VerdictInv

LEMMA InitInv == Init => IInv
<1>1. Init => Known = {} /\ run = NoRun /\ verdict = NoRun BY DEF Init, Known
<1>2. Init => OrderInv /\ UsedInv BY <1>1 DEF Init, OrderInv, UsedInv
<1>. QED BY <1>1, <1>2, TypeInit DEF IInv, RunInv, VerdictInv

-----------------------------------------------------------------------------
(* Sources are added at the end, items where there were none, and a file   *)
(* that was put back stays known as one.                                   *)
Grows ==
  /\ Known \subseteq Known' /\ \A s \in Known : sources'[s] = sources[s]
  /\ \A c \in Claims : items[c] # NoItem => items'[c] = items[c]
  /\ restored \subseteq restored'

LEMMA StepGrows ==
  ASSUME TypeOK, [Next]_vars
  PROVE  Grows
<1>. USE DEF Grows
<1>1. CASE UNCHANGED vars BY <1>1 DEF vars, Known
<1>2. ASSUME NEW p \in Paths, Edit(p) \/ Delete(p) PROVE Grows
  BY <1>2 DEF Edit, Delete, Known
<1>3. ASSUME NEW s \in Known, Restore(s) PROVE Grows
  BY <1>3 DEF Restore, Known
<1>4. ASSUME NEW p \in Paths, Inspect(p) PROVE Grows
  <2>1. CASE sources' = sources BY <1>4, <2>1 DEF Inspect, Known
  <2>2. ASSUME NEW t \in Times,
               sources' = Append(sources, [path |-> p, version |-> files[p], at |-> t])
        PROVE  Grows
    <3>1. [path |-> p, version |-> files[p], at |-> t] \in Source
      BY <1>4 DEF Inspect, Source, TypeOK
    <3>2. sources \in Seq(Source) BY DEF TypeOK
    <3>3. Len(sources') = Len(sources) + 1 /\ sources' \in Seq(Source)
          /\ \A s \in 1 .. Len(sources) : sources'[s] = sources[s]
      BY <2>2, <3>1, <3>2
    <3>. QED BY <1>4, <3>2, <3>3 DEF Inspect, Known
  <2>. QED BY <1>4, <2>1, <2>2 DEF Inspect
<1>5. ASSUME NEW c \in Claims, NEW U \in SUBSET Known, NEW S \in SUBSET U, Derive(c, U, S)
      PROVE  Grows
  BY <1>5 DEF Derive, Known, TypeOK
<1>6. ASSUME NEW texts \in SUBSET Claims, NEW checks \in Selections, Start(texts, checks)
      PROVE  Grows
  BY <1>6 DEF Start, Known
<1>7. CASE Working BY <1>7, WorkingRunOnly DEF RunOnly, Known
<1>8. CASE Finish \/ Abandon BY <1>8 DEF Finish, Abandon, Known
<1>. QED BY <1>1, <1>2, <1>3, <1>4, <1>5, <1>6, <1>7, <1>8, ValidateSteps DEF Next

(* Records and files. *)
LEMMA OrderStep ==
  ASSUME TypeOK, OrderInv, [Next]_vars
  PROVE  OrderInv'
<1>. Missing \notin Versions /\ Versions \subseteq Nat BY ValidationConstants
<1>1. CASE UNCHANGED <<files, newest, inspected, sources>>
  BY <1>1 DEF OrderInv, Recorded, Known
<1>2. ASSUME NEW p \in Paths, Edit(p) PROVE OrderInv'
  <2>1. /\ newest' = newest + 1 /\ newest' \in Versions /\ newest \in Nat
        /\ files' = [files EXCEPT ![p] = newest']
        /\ sources' = sources /\ inspected' = inspected
    BY <1>2 DEF Edit, TypeOK
  <2>2. \A s \in Known : sources[s].version \in Nat /\ sources[s].version < newest'
    <3>1. \A s \in Known : sources[s].version \in Nat BY KnownSource
    <3>2. \A s \in Known : sources[s].version <= newest BY DEF OrderInv
    <3>. QED BY <2>1, <3>1, <3>2
  <2>3. \A r \in Paths : files'[r] = IF r = p THEN newest' ELSE files[r] BY <2>1 DEF TypeOK
  <2>4. \A r \in Paths : files[r] # Missing => files[r] \in Nat BY DEF TypeOK
  <2>5. \A r \in Paths : files'[r] # Missing =>
          /\ files'[r] <= newest'
          /\ \/ Recorded(r, files'[r])
             \/ \A s \in Known : sources[s].path = r => sources[s].version < files'[r]
    BY <2>1, <2>2, <2>3, <2>4 DEF OrderInv
  <2>. QED BY <2>1, <2>2, <2>5 DEF OrderInv, Recorded, Known
<1>3. ASSUME NEW p \in Paths, Delete(p) PROVE OrderInv'
  <2>1. \A r \in Paths : files'[r] = IF r = p THEN Missing ELSE files[r]
    BY <1>3 DEF Delete, TypeOK
  <2>. QED BY <1>3, <2>1 DEF Delete, OrderInv, Recorded, Known
<1>4. ASSUME NEW s \in Known, Restore(s) PROVE OrderInv'
  <2>1. \A r \in Paths : files'[r] =
          IF r = sources[s].path THEN sources[s].version ELSE files[r]
    BY <1>4, KnownSource DEF Restore, TypeOK
  <2>3. Recorded(sources[s].path, sources[s].version) BY DEF Recorded
  <2>4. sources[s].version <= newest BY DEF OrderInv
  <2>5. UNCHANGED <<newest, inspected, sources>> BY <1>4 DEF Restore
  <2>6. \A r, v : Recorded(r, v)' <=> Recorded(r, v) BY <2>5 DEF Recorded, Known
  <2>7. \A r \in Paths : files'[r] # Missing =>
          /\ files'[r] <= newest
          /\ Recorded(r, files'[r]) \/ \A t \in Known : sources[t].path = r => sources[t].version < files'[r]
    BY <2>1, <2>3, <2>4 DEF OrderInv
  <2>. QED BY <2>5, <2>7 DEF OrderInv, Recorded, Known
<1>5. ASSUME NEW p \in Paths, Inspect(p) PROVE OrderInv'
  <2>1. /\ files' = files /\ newest' = newest /\ files[p] # Missing
        /\ inspected' = [inspected EXCEPT ![p] = files[p]]
    BY <1>5 DEF Inspect
  <2>2. \A r \in Paths : inspected'[r] = IF r = p THEN files[p] ELSE inspected[r]
    BY <2>1 DEF TypeOK
  <2>3. CASE Recorded(p, files[p])
    <3>1. sources' = sources BY <1>5, <2>3 DEF Inspect, Recorded
    <3>. QED BY <2>1, <2>2, <2>3, <3>1 DEF OrderInv, Recorded, Known
  <2>4. CASE ~ Recorded(p, files[p])
    <3>0. PICK d \in Times : sources' = Append(sources, [path |-> p, version |-> files[p], at |-> d])
      BY <1>5, <2>4 DEF Inspect, Recorded
    <3>. DEFINE new == [path |-> p, version |-> files[p], at |-> d]  n == Len(sources) + 1
    <3>1. sources' = Append(sources, new) BY <3>0
    <3>2. new \in Source /\ files[p] \in Nat BY <2>1 DEF Source, TypeOK
    <3>3. sources \in Seq(Source) /\ Len(sources) \in Nat BY DEF TypeOK
    <3>4. /\ Known = 1 .. Len(sources) /\ Known' = 1 .. n /\ sources'[n] = new
          /\ \A s \in Known : sources'[s] = sources[s]
      <4>1. Len(sources') = n /\ sources' \in Seq(Source) BY <3>1, <3>2, <3>3
      <4>. QED BY <3>1, <3>2, <3>3, <4>1 DEF Known
    <3>5. \A s \in Known' : s \in Known \/ s = n BY <3>3, <3>4
    <3>6. \A s \in Known : s < n BY <3>3, <3>4
    <3>7. new.path = p /\ new.version = files[p] OBVIOUS
    <3>8. files[p] <= newest /\ \A s \in Known : sources[s].path = p => sources[s].version < files[p]
      BY <2>1, <2>4 DEF OrderInv
    <3>. HIDE DEF new, n
    <3>9. \A s \in Known' : sources'[s].version <= newest'
      BY <2>1, <3>4, <3>5, <3>7, <3>8 DEF OrderInv
    <3>10. \A s, t \in Known' :
             s < t /\ sources'[s].path = sources'[t].path => sources'[s].version < sources'[t].version
      <4>1. SUFFICES ASSUME NEW s \in Known', NEW t \in Known', s < t,
                            sources'[s].path = sources'[t].path
                     PROVE  sources'[s].version < sources'[t].version
        OBVIOUS
      <4>2. s \in Known BY <3>3, <3>4, <3>5, <3>6, <4>1 DEF n
      <4>3. CASE t = n BY <3>4, <3>7, <3>8, <4>1, <4>2, <4>3
      <4>4. CASE t \in Known BY <3>4, <4>1, <4>2, <4>4 DEF OrderInv
      <4>. QED BY <3>5, <4>3, <4>4
    <3>11. \A r, v : Recorded(r, v) => Recorded(r, v)' BY <3>3, <3>4 DEF Recorded, n
    <3>12. n \in Known' BY <3>3, <3>4 DEF n
    <3>13. Recorded(p, files[p])' BY <2>1, <3>4, <3>12 DEF Recorded, new
    <3>14. \A r \in Paths : files'[r] # Missing =>
             /\ files'[r] <= newest'
             /\ \/ Recorded(r, files[r])'
                \/ \A s \in Known' : sources'[s].path = r => sources'[s].version < files'[r]
      BY <2>1, <3>4, <3>5, <3>7, <3>11, <3>13 DEF OrderInv
    <3>15. \A r \in Paths : inspected'[r] # Missing => \E s \in Known' :
             sources'[s].path = r /\ sources'[s].version = inspected'[r]
      <4>1. SUFFICES ASSUME NEW r \in Paths, inspected'[r] # Missing
                     PROVE  \E s \in Known' :
                              sources'[s].path = r /\ sources'[s].version = inspected'[r]
        OBVIOUS
      <4>2. CASE r = p BY <2>2, <3>4, <3>7, <3>12, <4>1, <4>2
      <4>3. CASE r # p
        <5>1. inspected'[r] = inspected[r] BY <2>2, <4>3
        <5>2. PICK s \in Known : sources[s].path = r /\ sources[s].version = inspected[r]
          BY <4>1, <5>1 DEF OrderInv, Recorded
        <5>3. s \in Known' /\ sources'[s] = sources[s] BY <3>3, <3>4, <5>2 DEF n
        <5>. QED BY <5>1, <5>2, <5>3
      <4>. QED BY <4>2, <4>3
    <3>. QED BY <2>1, <3>9, <3>10, <3>14, <3>15 DEF OrderInv, Recorded
  <2>. QED BY <2>3, <2>4
<1>6. CASE Working \/ Finish \/ Abandon
  BY <1>1, <1>6, WorkingRunOnly DEF RunOnly, Finish, Abandon
<1>. QED
  BY <1>1, <1>2, <1>3, <1>4, <1>5, <1>6, ValidateSteps DEF Next, vars, Derive, Start

(* What executions read. *)
LEMMA UsedStep ==
  ASSUME TypeOK, OrderInv, UsedInv, [Next]_vars
  PROVE  UsedInv'
<1>. Missing \notin Versions /\ Versions \subseteq Nat BY ValidationConstants
<1>1. CASE UNCHANGED <<files, sources, items, restored>>
  BY <1>1 DEF UsedInv, Known, Current
<1>2. ASSUME NEW p \in Paths, Edit(p) \/ Delete(p) PROVE UsedInv'
  <2>1. UNCHANGED <<sources, items, restored>> BY <1>2 DEF Edit, Delete
  <2>2. \A s \in Known : sources[s].path # p => Current(s)' = Current(s)
    <3>1. \A r \in Paths : r # p => files'[r] = files[r] BY <1>2 DEF Edit, Delete, TypeOK
    <3>. QED BY <2>1, <3>1, KnownSource DEF Current
  <2>3. \A s \in Known : sources[s].path = p => Current(s)' # sources[s].version
    <3>1. SUFFICES ASSUME NEW s \in Known, sources[s].path = p PROVE Current(s)' # sources[s].version
      OBVIOUS
    <3>2. sources[s].version \in Nat /\ sources[s].version \in Versions /\ newest \in Nat
      BY KnownSource DEF TypeOK
    <3>3. CASE Delete(p) BY <2>1, <3>1, <3>2, <3>3 DEF Delete, Current, TypeOK
    <3>4. CASE Edit(p)
      <4>1. Current(s)' = newest + 1 BY <2>1, <3>1, <3>4 DEF Edit, Current, TypeOK
      <4>2. sources[s].version <= newest BY DEF OrderInv
      <4>. QED BY <3>2, <4>1, <4>2
    <3>. QED BY <1>2, <3>3, <3>4
  <2>. QED BY <2>1, <2>2, <2>3 DEF UsedInv, Known
<1>3. ASSUME NEW r \in Known, Restore(r) PROVE UsedInv'
  <2>1. UNCHANGED <<sources, items>> /\ restored' = restored \cup {sources[r].path}
    BY <1>3 DEF Restore
  <2>2. \A p \in Paths : p # sources[r].path => files'[p] = files[p]
    BY <1>3 DEF Restore, TypeOK
  <2>3. \A s \in Known : sources[s].path # sources[r].path => Current(s)' = Current(s)
    BY <2>1, <2>2, KnownSource DEF Current
  <2>. QED BY <2>1, <2>3 DEF UsedInv, Known
<1>4. ASSUME NEW p \in Paths, Inspect(p) PROVE UsedInv'
  <2>1. UNCHANGED <<files, items, restored>> BY <1>4 DEF Inspect
  <2>2. Grows BY <1>4, StepGrows DEF Next
  <2>3. \A s \in Known : Current(s)' = Current(s) BY <2>1, <2>2 DEF Grows, Current
  <2>. QED BY <2>1, <2>2, <2>3 DEF UsedInv, Grows
<1>5. ASSUME NEW c \in Claims, NEW U \in SUBSET Known, NEW S \in SUBSET U, Derive(c, U, S)
      PROVE  UsedInv'
  <2>1. UNCHANGED <<files, sources, restored>> BY <1>5 DEF Derive
  <2>2. PICK f \in Forms[c] :
          items' = [items EXCEPT ![c] =
            [sources |-> S, used |-> [s \in U |-> Content[Current(s)]], form |-> f]]
    BY <1>5 DEF Derive
  <2>3. items'[c].used = [s \in U |-> Content[Current(s)]] BY <2>2 DEF TypeOK
  <2>4. \A d \in Claims : d # c => items'[d] = items[d] BY <2>2 DEF TypeOK
  <2>5. \A s : Current(s)' = Current(s) BY <2>1 DEF Current
  <2>6. DOMAIN items'[c].used \subseteq Known /\ \A s \in U : items'[c].used[s] = Content[Current(s)]
    BY <2>3
  <2>7. SUFFICES ASSUME NEW d \in Claims, items'[d] # NoItem
                 PROVE  /\ DOMAIN items'[d].used \subseteq Known
                        /\ \A s \in DOMAIN items'[d].used :
                             sources[s].path \notin restored /\ Current(s) = sources[s].version
                               => items'[d].used[s] = Content[sources[s].version]
    BY <2>1, <2>5 DEF UsedInv, Known
  <2>8. CASE d = c BY <2>3, <2>6, <2>8
  <2>9. CASE d # c BY <2>4, <2>7, <2>9 DEF UsedInv
  <2>. QED BY <2>8, <2>9
<1>6. CASE Working \/ Finish \/ Abandon
  BY <1>1, <1>6, WorkingRunOnly DEF RunOnly, Finish, Abandon
<1>. QED
  BY <1>1, <1>2, <1>3, <1>4, <1>5, <1>6, ValidateSteps DEF Next, vars, Start

-----------------------------------------------------------------------------
(* What a run was given, and what is settled, stays so. *)
LEMMA GivenStays ==
  ASSUME TypeOK, Grows, NEW claims \in SUBSET Registered, NEW active \in SUBSET Known,
         \A c \in claims : DOMAIN items[c].used \subseteq active
  PROVE  /\ \A c \in claims : c \in Claims /\ items'[c] = items[c]
         /\ claims \subseteq Registered' /\ active \subseteq Known'
         /\ \A c \in claims : DOMAIN items'[c].used \subseteq active
<1>1. \A c \in claims : c \in Claims /\ items'[c] = items[c] BY DEF Grows, Registered
<1>. QED BY <1>1 DEF Grows, Registered

LEMMA SettledStays ==
  ASSUME TypeOK, Grows, NEW s \in Known, NEW claims \in SUBSET Registered, Settled(s, claims)
  PROVE  \A c \in claims : s \in DOMAIN items'[c].used =>
           sources'[s].path \in restored' \/ items'[c].used[s] = Content[sources'[s].version]
<1>1. \A c \in claims : c \in Claims /\ items'[c] = items[c] BY DEF Grows, Registered
<1>. QED BY <1>1 DEF Grows, Settled

(* What a validator leaves as it is. *)
LEMMA WorkingKeeps ==
  ASSUME TypeOK, Working
  PROVE  /\ run \in Run /\ run.step \in 1 .. 7
         /\ run'.claims = run.claims /\ run'.active = run.active /\ run'.texts = run.texts
         /\ run'.checks = run.checks /\ run'.steady = run.steady
         /\ run.found \subseteq run'.found
         /\ run.todo \subseteq run.active => run'.todo \subseteq run'.active
<1>1. run \in Run BY WorkingRunOnly DEF RunOnly, TypeOK
<1>2. run.step \in 1 .. 7 BY <1>1, CheckPlaces DEF Run
<1>3. ASSUME NEW outcomes, Conclude(outcomes)
      PROVE  /\ run'.claims = run.claims /\ run'.active = run.active /\ run'.texts = run.texts
             /\ run'.checks = run.checks /\ run'.steady = run.steady
             /\ run.found \subseteq run'.found /\ run'.todo = run.active
  BY <1>1, <1>3 DEF Run, Conclude
<1>4. CASE Skip \/ Coverage \/ SourcesDone \/ Denominators \/ CausalLanguage
  <2>1. PICK outcomes : Conclude(outcomes)
    BY <1>4 DEF Skip, Coverage, SourcesDone, Denominators, CausalLanguage
  <2>. QED BY <1>1, <1>2, <1>3, <2>1
<1>5. ASSUME NEW s \in Known, Compare(s) \/ CompareFails(s) \/ Count(s) \/ Examine(s) \/ ReadFails(s)
      PROVE  /\ run'.claims = run.claims /\ run'.active = run.active /\ run'.texts = run.texts
             /\ run'.checks = run.checks /\ run'.steady = run.steady
             /\ run.found \subseteq run'.found
             /\ run'.todo \subseteq run.todo
  <2>1. CASE Compare(s) BY <1>1, <2>1 DEF Run, Compare
  <2>5. CASE CompareFails(s) BY <1>1, <2>5 DEF Run, CompareFails
  <2>2. CASE Count(s) BY <1>1, <2>2 DEF Run, Count
  <2>3. CASE Examine(s) BY <1>1, <2>3 DEF Run, Examine
  <2>4. CASE ReadFails(s) BY <1>1, <2>4 DEF Run, ReadFails
  <2>. QED BY <1>5, <2>1, <2>2, <2>3, <2>4, <2>5
<1>. QED BY <1>1, <1>2, <1>4, <1>5 DEF Working

(* What a run has found out so far. *)
Established ==
  /\ CoverageDone /\ SourcesSettled /\ FiguresDone /\ CausalDone /\ CountedDone
  /\ run.steady => DataDone

(* The next validator starts: what the one before it had to say is known.  *)
LEMMA ConcludeStep ==
  ASSUME TypeOK, RunInv, Silent, RunOnly, NEW outcomes, Conclude(outcomes),
         run.step \in 1 .. 6,
         run.step \in {2, 3, 4} => run.todo = {},
         run.step = 1 => run.texts # {} /\ run.texts \subseteq Material(run.claims),
         run.step = 5 => /\ \E c \in run.claims : items[c].form.figure = "good"
                         /\ \A c \in run.claims : items[c].form.figure \in {"none", "good"},
         run.step = 6 => run.texts \cap Causal = {}
  PROVE  Established'
<1>1. run \in Run /\ Established /\ run.active \subseteq Known /\ run.todo \subseteq run.active
  BY DEF RunOnly, TypeOK, RunInv, Established, Given
<1>2. /\ run'.step = run.step + 1 /\ run'.todo = run.active /\ run'.active = run.active
      /\ run'.claims = run.claims /\ run'.texts = run.texts /\ run'.steady = run.steady
      /\ run'.counted = run.counted
  BY <1>1 DEF Run, Conclude
<1>3. UNCHANGED <<files, restored, sources, items>> BY DEF RunOnly
<1>4. \A s \in run.active, n \in {2, 3, 4} : Past(n, s)' => Past(n, s)
  <2>1. SUFFICES ASSUME NEW s \in run.active, NEW n \in {2, 3, 4},
                        run.step + 1 > n \/ (run.step + 1 = n /\ s \notin run.active)
                 PROVE  Past(n, s)
    BY <1>2 DEF Past
  <2>2. run.step >= n BY <2>1
  <2>3. CASE run.step = n BY <2>3 DEF Past
  <2>4. CASE run.step > n BY <2>4 DEF Past
  <2>. QED BY <2>2, <2>3, <2>4
<1>5. \A s \in Ids : run.counted[s] = Missing
  <2>1. SUFFICES ASSUME NEW s \in Ids, run.counted[s] # Missing PROVE FALSE OBVIOUS
  <2>2. s \in run.todo /\ run.step \in {3, 4} BY <1>1, <2>1 DEF Established, CountedDone
  <2>. QED BY <2>2
<1>6. CoverageDone' BY <1>1, <1>2, <1>3 DEF Established, CoverageDone, Material
<1>7. SourcesSettled' BY <1>1, <1>2, <1>3, <1>4 DEF Established, SourcesSettled, Settled
<1>8. FiguresDone' BY <1>1, <1>2, <1>3 DEF Established, FiguresDone
<1>9. CausalDone' BY <1>1, <1>2 DEF Established, CausalDone
<1>10. CountedDone' BY <1>2, <1>5 DEF CountedDone
<1>11. run'.steady => DataDone'
  <2>1. SUFFICES ASSUME run.steady PROVE DataDone' BY <1>2
  <2>2. DataDone BY <1>1, <2>1 DEF Established
  <2>3. \A s \in run.active : run'.counted[s] = Missing BY <1>1, <1>2, <1>5, KnownSource
  <2>. QED BY <1>2, <1>3, <1>4, <2>2, <2>3 DEF DataDone, Current, Clean
<1>. QED BY <1>6, <1>7, <1>8, <1>9, <1>10, <1>11 DEF Established

(* A step of a validator over files. *)
LEMMA SourceStep ==
  ASSUME TypeOK, UsedInv, RunInv, Silent, RunOnly, Silent', NEW r \in Known,
         Compare(r) \/ CompareFails(r) \/ Count(r) \/ Examine(r) \/ ReadFails(r)
  PROVE  Established'
<1>1. /\ run \in Run /\ Established /\ run.active \subseteq Known /\ run.todo \subseteq run.active
      /\ run.claims \subseteq Registered /\ run.step \in 1 .. 7
  BY CheckPlaces DEF RunOnly, TypeOK, RunInv, Established, Given, Run
<1>2. UNCHANGED <<files, restored, sources, items>> BY DEF RunOnly
<1>3. \A s \in Ids : run.counted[s] # Missing => s \in run.todo /\ run.step \in {3, 4}
  BY <1>1 DEF Established, CountedDone
<1>4. r \in Ids /\ run.active \subseteq Ids BY <1>1, KnownSource
<1>5. ASSUME run'.step = run.step, run'.active = run.active, run'.claims = run.claims,
             run'.texts = run.texts
      PROVE  CoverageDone' /\ FiguresDone' /\ CausalDone'
  BY <1>1, <1>2, <1>5 DEF Established, CoverageDone, Material, FiguresDone, CausalDone
<1>6. CASE Compare(r)
  <2>1. run.step = 2 BY <1>1, <1>6, CheckPlaces DEF Compare, At
  <2>2. /\ run'.step = run.step /\ run'.active = run.active /\ run'.claims = run.claims
        /\ run'.texts = run.texts /\ run'.steady = run.steady /\ run'.counted = run.counted
        /\ run'.todo = run.todo \ {r}
        /\ run'.found = run.found \cup IF Current(r) = sources[r].version THEN {} ELSE {"blocking"}
    BY <1>1, <1>6 DEF Run, Compare
  <2>3. Current(r) = sources[r].version BY <2>2 DEF Silent
  <2>4. Settled(r, run.claims) BY <1>1, <2>3, TypeOK DEF UsedInv, Settled, Registered
  <2>5. \A s \in run.active : /\ Past(2, s)' => Past(2, s) \/ s = r
                              /\ ~ Past(3, s)' /\ ~ Past(4, s)'
    BY <2>1, <2>2 DEF Past
  <2>6. SourcesSettled' BY <1>1, <1>2, <2>2, <2>4, <2>5 DEF Established, SourcesSettled, Settled
  <2>7. \A s \in Ids : run.counted[s] = Missing BY <1>3, <2>1
  <2>8. CountedDone' BY <2>2, <2>7 DEF CountedDone
  <2>9. run.steady => DataDone'
    BY <1>1, <1>2, <1>4, <2>2, <2>3, <2>5, <2>7 DEF Established, DataDone, Current
  <2>. QED BY <1>5, <2>2, <2>6, <2>8, <2>9 DEF Established
<1>7. CASE Count(r)
  <2>1. run.step \in {3, 4} /\ r \in run.todo BY <1>1, <1>7, CheckPlaces DEF Count, At
  <2>2. /\ run'.step = run.step /\ run'.active = run.active /\ run'.claims = run.claims
        /\ run'.texts = run.texts /\ run'.steady = run.steady
    BY <1>1, <1>7 DEF Run, Count
  <2>3. \A s \in run.active : Past(2, s) /\ Past(2, s)' BY <2>1, <2>2 DEF Past
  <2>4. SourcesSettled' BY <1>1, <1>2, <2>2, <2>3 DEF Established, SourcesSettled, Settled
  <2>5. \A s \in Ids : run.counted[s] = Missing BY <1>7 DEF Count, Uncounted
  <2>6. CASE Current(r) = Missing
    <3>1. run'.todo = run.todo \ {r} /\ run'.counted = run.counted
      BY <1>1, <1>7, <2>6 DEF Run, Count
    <3>2. CountedDone' BY <2>5, <3>1 DEF CountedDone
    <3>3. ~ run.steady
      <4>1. SUFFICES ASSUME run.steady PROVE FALSE OBVIOUS
      <4>2. Current(r) = sources[r].version BY <1>1, <2>1, <2>3, <4>1 DEF Established, DataDone
      <4>3. sources[r].version # Missing BY KnownSource, ValidationConstants
      <4>. QED BY <2>6, <4>2, <4>3
    <3>. QED BY <1>5, <2>2, <2>4, <3>2, <3>3 DEF Established
  <2>7. CASE Current(r) # Missing
    <3>1. /\ run'.todo = run.todo /\ run'.counted = [run.counted EXCEPT ![r] = Content[Current(r)]]
      BY <1>1, <1>7, <2>7 DEF Run, Count
    <3>2. run.counted \in [Ids -> Contents \cup {Missing}] BY <1>1 DEF Run
    <3>3. \A s \in Ids : run'.counted[s] = IF s = r THEN Content[Current(r)] ELSE Missing
      BY <1>4, <2>5, <3>1, <3>2
    <3>4. CountedDone' BY <2>1, <2>2, <3>1, <3>3 DEF CountedDone
    <3>5. \A s, n : Past(n, s)' => Past(n, s) BY <2>2, <3>1 DEF Past
    <3>6. run.steady => DataDone'
      <4>1. SUFFICES ASSUME run.steady PROVE DataDone' OBVIOUS
      <4>2. DataDone BY <1>1, <4>1 DEF Established
      <4>3. \A s \in run.active : Current(s) = sources[s].version BY <2>3, <4>2 DEF DataDone
      <4>4. \A s \in run.active : run'.counted[s] # Missing =>
              run'.counted[s] = Content[sources[s].version]
        BY <1>4, <3>3, <4>3
      <4>. QED BY <1>2, <2>2, <3>5, <4>2, <4>3, <4>4 DEF DataDone, Current, Clean
    <3>. QED BY <1>5, <2>2, <2>4, <3>4, <3>6 DEF Established
  <2>. QED BY <2>6, <2>7
<1>8. CASE Examine(r)
  <2>1. run.step \in {3, 4} /\ r \in run.todo /\ run.counted[r] # Missing
    BY <1>3, <1>4, <1>8 DEF Examine
  <2>2. /\ run'.step = run.step /\ run'.active = run.active /\ run'.claims = run.claims
        /\ run'.texts = run.texts /\ run'.steady = run.steady /\ run'.counted = Uncounted
        /\ run'.todo = run.todo \ {r}
        /\ run'.found = run.found \cup
             IF Stained(Checks[run.step], run.counted[r], Content[Current(r)])
             THEN {"warning"} ELSE {}
    BY <1>1, <1>8 DEF Run, Examine
  <2>3. \A s \in run.active : Past(2, s) /\ Past(2, s)' BY <2>1, <2>2 DEF Past
  <2>4. SourcesSettled' BY <1>1, <1>2, <2>2, <2>3 DEF Established, SourcesSettled, Settled
  <2>5. \A s \in Ids : run'.counted[s] = Missing BY <2>2 DEF Uncounted
  <2>6. CountedDone' BY <2>5 DEF CountedDone
  <2>7. run.steady => DataDone'
    <3>1. SUFFICES ASSUME run.steady PROVE DataDone' OBVIOUS
    <3>2. DataDone BY <1>1, <3>1 DEF Established
    <3>3. \A s \in run.active : Current(s) = sources[s].version BY <2>3, <3>2 DEF DataDone
    <3>4. run.counted[r] = Content[sources[r].version] /\ Current(r) = sources[r].version
      BY <1>1, <2>1, <3>2, <3>3 DEF DataDone
    <3>5. ~ Stained(Checks[run.step], run.counted[r], Content[Current(r)]) BY <2>2 DEF Silent
    <3>6. Clean(r, Checks[run.step]) BY <3>4, <3>5 DEF Clean
    <3>7. \A s \in run.active, n \in {3, 4} : Past(n, s)' => Past(n, s) \/ (s = r /\ n = run.step)
      BY <2>1, <2>2 DEF Past
    <3>8. Checks[3] = "duplicates" /\ Checks[4] = "missingness" BY CheckPlaces
    <3>9. \A s \in run.active : /\ Past(3, s)' => Clean(s, "duplicates")
                                /\ Past(4, s)' => Clean(s, "missingness")
      BY <3>2, <3>6, <3>7, <3>8 DEF DataDone
    <3>. QED BY <1>2, <1>4, <2>2, <2>5, <3>3, <3>9 DEF DataDone, Current, Clean
  <2>. QED BY <1>5, <2>2, <2>4, <2>6, <2>7 DEF Established
<1>9. CASE ReadFails(r) \/ CompareFails(r)
  <2>1. "inconclusive" \in run'.found BY <1>1, <1>9 DEF Run, ReadFails, CompareFails
  <2>. QED BY <2>1 DEF Silent
<1>. QED BY <1>6, <1>7, <1>8, <1>9

LEMMA WorkingStep ==
  ASSUME TypeOK, UsedInv, RunInv, Working
  PROVE  RunInv'
<1>1. RunOnly BY WorkingRunOnly
<1>2. UNCHANGED <<files, restored, sources, items>> /\ run # NoRun BY <1>1 DEF RunOnly
<1>3. Given(run) /\ run.todo \subseteq run.active /\ (Silent => Established)
  BY <1>2 DEF RunInv, Established
<1>4. Given(run)' /\ run'.todo \subseteq run'.active
  BY <1>2, <1>3, WorkingKeeps DEF Given, Registered, Known
<1>5. ASSUME Silent' PROVE Established'
  <2>1. Silent BY <1>5, WorkingKeeps DEF Silent
  <2>2. CASE \E s \in Known : Compare(s) \/ CompareFails(s) \/ Count(s) \/ Examine(s) \/ ReadFails(s)
    BY <1>1, <1>5, <2>1, <2>2, SourceStep
  <2>. run.step \in 1 .. 7 /\ run \in Run BY WorkingKeeps
  <2>3. CASE Skip
    <3>1. run.step \in 1 .. 6 BY <2>3, CheckPlaces DEF Skip
    <3>. QED BY <2>1, <2>3, <3>1, CheckPlaces DEF Skip, Silent
  <2>4. CASE Coverage
    <3>1. run.step = 1 BY <2>4, CheckPlaces DEF Coverage, At
    <3>2. PICK outcomes : Conclude(outcomes) /\ outcomes =
            IF run.texts = {} THEN {"inconclusive"}
            ELSE IF run.texts \subseteq Material(run.claims) THEN {} ELSE {"blocking"}
      BY <2>4 DEF Coverage
    <3>3. run'.found = run.found \cup outcomes BY <3>2 DEF Conclude, Run
    <3>4. outcomes = {} BY <1>5, <3>3 DEF Silent
    <3>. QED BY <1>1, <2>1, <3>1, <3>2, <3>4, ConcludeStep
  <2>5. CASE SourcesDone
    <3>1. run.step \in {2, 3, 4} /\ run.todo = {} BY <2>5, CheckPlaces DEF SourcesDone, At
    <3>2. PICK outcomes : Conclude(outcomes) BY <2>5 DEF SourcesDone
    <3>. QED BY <1>1, <2>1, <3>1, <3>2, ConcludeStep
  <2>6. CASE Denominators
    <3>. DEFINE figures == {items[c].form.figure : c \in run.claims} \ {"none"}
    <3>1. run.step = 5 BY <2>6, CheckPlaces DEF Denominators, At
    <3>2. PICK outcomes : Conclude(outcomes) /\ outcomes =
            IF figures = {} THEN {"inconclusive"}
            ELSE (IF "bad" \in figures THEN {"blocking"} ELSE {})
                   \cup (IF "mismatch" \in figures THEN {"warning"} ELSE {})
      BY <2>6 DEF Denominators
    <3>3. run'.found = run.found \cup outcomes BY <3>2 DEF Conclude, Run
    <3>4. outcomes = {} BY <1>5, <3>3 DEF Silent
    <3>5. figures # {} /\ "bad" \notin figures /\ "mismatch" \notin figures
      <4>. HIDE DEF figures
      <4>. QED BY <3>2, <3>4
    <3>6. \A c \in run.claims : items[c].form.figure \in {"none", "good", "mismatch", "bad"}
      BY <1>3 DEF Given, Registered, TypeOK, Item, Form
    <3>7. /\ \E c \in run.claims : items[c].form.figure = "good"
          /\ \A c \in run.claims : items[c].form.figure \in {"none", "good"}
      BY <3>5, <3>6
    <3>. QED BY <1>1, <2>1, <3>1, <3>2, <3>7, ConcludeStep
  <2>7. CASE CausalLanguage
    <3>1. run.step = 6 BY <2>7, CheckPlaces DEF CausalLanguage, At
    <3>2. run.texts # {} BY <1>3, <2>1, <3>1 DEF Established, CoverageDone
    <3>3. PICK outcomes : Conclude(outcomes) /\ outcomes =
            IF run.texts \cap Causal = {} THEN {} ELSE {"blocking"}
      BY <2>7, <3>2 DEF CausalLanguage
    <3>4. run'.found = run.found \cup outcomes BY <3>3 DEF Conclude, Run
    <3>5. outcomes = {} BY <1>5, <3>4 DEF Silent
    <3>. QED BY <1>1, <2>1, <3>1, <3>3, <3>5, ConcludeStep
  <2>. QED BY <2>2, <2>3, <2>4, <2>5, <2>6, <2>7 DEF Working
<1>. QED BY <1>4, <1>5 DEF RunInv, Established

(* A file changes: the run is no longer steady. *)
LEMMA DisturbStep ==
  ASSUME TypeOK, RunInv, Grows, Disturb, UNCHANGED <<sources, items>>
  PROVE  RunInv'
<1>1. CASE run = NoRun BY <1>1 DEF Disturb, RunInv
<1>2. CASE run # NoRun
  <2>1. /\ run \in Run /\ Given(run) /\ run.todo \subseteq run.active
        /\ Silent => Established
    BY <1>2 DEF TypeOK, RunInv, Established
  <2>2. /\ run'.step = run.step /\ run'.todo = run.todo /\ run'.active = run.active
        /\ run'.claims = run.claims /\ run'.texts = run.texts /\ run'.checks = run.checks
        /\ run'.found = run.found /\ run'.counted = run.counted /\ run'.steady = FALSE
    BY <1>2, <2>1 DEF Disturb, Run
  <2>3. Given(run)' BY <2>1, <2>2 DEF Given, Registered, Known
  <2>4. Silent' => Silent BY <2>2 DEF Silent
  <2>5. Established => CoverageDone' /\ FiguresDone' /\ CausalDone' /\ CountedDone'
    BY <2>1, <2>2 DEF Established, CoverageDone, Material, FiguresDone, CausalDone, CountedDone
  <2>6. Established => SourcesSettled'
    BY <2>1, <2>2 DEF Established, SourcesSettled, Settled, Past, Grows
  <2>. QED BY <2>1, <2>2, <2>3, <2>4, <2>5, <2>6 DEF RunInv
<1>. QED BY <1>1, <1>2

LEMMA StartStep ==
  ASSUME TypeOK, UsedInv, NEW texts \in SUBSET Claims, NEW checks \in Selections,
         Start(texts, checks)
  PROVE  RunInv'
<1>1. /\ run'.step = 1 /\ run'.todo = Active /\ run'.active = Active
      /\ run'.claims = Registered /\ run'.counted = Uncounted
      /\ UNCHANGED <<sources, items>>
  BY DEF Start
<1>2. Active \subseteq Known BY DEF Active
<1>3. \A c \in Registered : DOMAIN items[c].used \subseteq Active
  BY DEF Active, Referenced, UsedInv, Registered
<1>4. Given(run)' BY <1>1, <1>2, <1>3 DEF Given, Registered, Known
<1>5. \A s \in Active, n \in {2, 3, 4} : ~ Past(n, s)' BY <1>1 DEF Past
<1>6. \A s \in Ids : run'.counted[s] = Missing BY <1>1 DEF Uncounted
<1>7. CoverageDone' /\ FiguresDone' /\ CausalDone' /\ CountedDone'
  BY <1>1, <1>6 DEF CoverageDone, FiguresDone, CausalDone, CountedDone
<1>8. SourcesSettled' BY <1>1, <1>5 DEF SourcesSettled
<1>9. DataDone' BY <1>1, <1>2, <1>5, <1>6, KnownSource DEF DataDone
<1>. QED BY <1>1, <1>4, <1>7, <1>8, <1>9 DEF RunInv

LEMMA RunStep ==
  ASSUME TypeOK, UsedInv, RunInv, [Next]_vars
  PROVE  RunInv'
<1>1. CASE UNCHANGED vars
  BY <1>1 DEF vars, RunInv, Given, Registered, Known, Silent, CoverageDone, Material, SourcesSettled, Settled,
       FiguresDone, CausalDone, CountedDone, DataDone, Past, Clean, Current
<1>2. ASSUME NEW p \in Paths, Edit(p) \/ Delete(p) PROVE RunInv'
  BY <1>2, StepGrows, DisturbStep DEF Edit, Delete, Next
<1>3. ASSUME NEW s \in Known, Restore(s) PROVE RunInv'
  BY <1>3, StepGrows, DisturbStep DEF Restore, Next
<1>4. ASSUME run = NoRun, run' = run PROVE RunInv' BY <1>4 DEF RunInv
<1>5. CASE Finish \/ Abandon BY <1>5 DEF Finish, Abandon, RunInv
<1>. QED
  BY <1>1, <1>2, <1>3, <1>4, <1>5, StartStep, WorkingStep, ValidateSteps DEF Next, Inspect, Derive

-----------------------------------------------------------------------------
LEMMA FinishStep ==
  ASSUME TypeOK, RunInv, Finish
  PROVE  VerdictInv'
<1>1. /\ run # NoRun /\ run \in Run /\ run.step = 7 /\ Given(run)
      /\ Silent => Established
  BY CheckPlaces DEF Finish, TypeOK, RunInv, Established
<1>2. /\ verdict'.status = Status(run.found) /\ verdict'.checks = run.checks
      /\ verdict'.texts = run.texts /\ verdict'.claims = run.claims
      /\ verdict'.active = run.active /\ verdict'.steady = run.steady
      /\ UNCHANGED <<files, restored, sources, items>>
  BY DEF Finish
<1>3. Given(verdict)' BY <1>1, <1>2 DEF Given, Registered, Known
<1>4. ASSUME Validated', Complete'
      PROVE  /\ run.texts # {} /\ run.texts \subseteq Material(run.claims) /\ run.texts \cap Causal = {}
             /\ \E c \in run.claims : items[c].form.figure = "good"
             /\ \A c \in run.claims : items[c].form.figure \in {"none", "good"}
             /\ \A s \in run.active : Settled(s, run.claims)
             /\ run.steady => \A s \in run.active :
                  Clean(s, "duplicates") /\ Clean(s, "missingness")
  <2>1. Status(run.found) = "validated" /\ run.checks = CheckNames
    BY <1>2, <1>4 DEF Validated, Complete
  <2>2. run.found = {} BY <2>1 DEF Status
  <2>3. Established BY <1>1, <2>1, <2>2 DEF Silent
  <2>4. \A s \in run.active, n \in {2, 3, 4} : Past(n, s) BY <1>1 DEF Past
  <2>. QED
    BY <1>1, <2>3, <2>4
    DEF Established, CoverageDone, SourcesSettled, FiguresDone, CausalDone, DataDone
<1>. QED BY <1>2, <1>3, <1>4 DEF VerdictInv, Settled, Clean, Material

LEMMA VerdictStays ==
  ASSUME TypeOK, VerdictInv, Grows, verdict' = verdict
  PROVE  VerdictInv'
<1>1. SUFFICES ASSUME verdict # NoRun PROVE VerdictInv' BY DEF VerdictInv
<1>2. /\ verdict.claims \in SUBSET Registered /\ verdict.active \in SUBSET Known
      /\ \A c \in verdict.claims : DOMAIN items[c].used \subseteq verdict.active
  BY <1>1 DEF VerdictInv, Given
<1>3. /\ \A c \in verdict.claims : c \in Claims /\ items'[c] = items[c]
      /\ Given(verdict)'
  <2>. DEFINE claims == verdict.claims  active == verdict.active
  <2>1. /\ \A c \in claims : c \in Claims /\ items'[c] = items[c]
        /\ claims \subseteq Registered' /\ active \subseteq Known'
        /\ \A c \in claims : DOMAIN items'[c].used \subseteq active
    <3>. HIDE DEF claims, active
    <3>1. /\ claims \in SUBSET Registered /\ active \in SUBSET Known
          /\ \A c \in claims : DOMAIN items[c].used \subseteq active
      BY <1>2 DEF claims, active
    <3>. QED BY <3>1, GivenStays
  <2>. QED BY <2>1 DEF Given
<1>6. Material(verdict.claims)' = Material(verdict.claims) BY <1>3 DEF Material
<1>4. \A s \in verdict.active : Settled(s, verdict.claims) => Settled(s, verdict.claims)'
  BY <1>2, SettledStays DEF Settled
<1>5. \A s \in verdict.active, check \in {"duplicates", "missingness"} :
        Clean(s, check) => Clean(s, check)'
  BY <1>2 DEF Clean, Grows
<1>. QED BY <1>1, <1>3, <1>4, <1>5, <1>6 DEF VerdictInv, Validated, Complete

LEMMA Inductive ==
  ASSUME IInv, [Next]_vars
  PROVE  IInv'
<1>. USE DEF IInv
<1>1. TypeOK' BY TypeStep
<1>2. OrderInv' BY OrderStep
<1>3. UsedInv' BY UsedStep
<1>4. RunInv' BY RunStep
<1>5. VerdictInv'
  <2>1. CASE Finish BY <2>1, FinishStep
  <2>2. CASE verdict' = verdict BY <2>2, VerdictStays, StepGrows
  <2>3. Finish \/ verdict' = verdict
    BY ValidateSteps, WorkingRunOnly
    DEF Next, vars, Edit, Delete, Restore, Inspect, Derive, Start, Abandon, RunOnly
  <2>. QED BY <2>1, <2>2, <2>3
<1>. QED BY <1>1, <1>2, <1>3, <1>4, <1>5

THEOREM Invariance == Spec => []IInv
<1>. QED BY InitInv, Inductive, PTL DEF Spec

-----------------------------------------------------------------------------
(* The types of files, sources, evidence, runs and verdicts. *)
THEOREM TypeCorrect == Spec => []TypeOK
<1>1. IInv => TypeOK BY DEF IInv
<1>. QED BY <1>1, Invariance, PTL

(* A validated run of all checks had claims, each with evidence and none   *)
(* causal, and good figures.                                               *)
THEOREM ValidatedRuns == Spec => []ValidatedMeans
<1>1. IInv => ValidatedMeans
  BY DEF IInv, VerdictInv, ValidatedMeans, Given, Registered, Material, Validated
<1>. QED BY <1>1, Invariance, PTL

(* Behind the evidence of a validated run, every execution read sources as *)
(* they were registered, unless a file was put back.                       *)
THEOREM RegisteredData == Spec => []ValidatedOnRegisteredData
<1>1. ASSUME IInv PROVE ValidatedOnRegisteredData
  <2>1. SUFFICES ASSUME Validated, Complete, NEW c \in verdict.claims, NEW s \in DOMAIN items[c].used
                 PROVE  sources[s].path \in restored
                          \/ items[c].used[s] = Content[sources[s].version]
    BY DEF ValidatedOnRegisteredData
  <2>2. s \in verdict.active /\ Settled(s, verdict.claims)
    BY <1>1, <2>1 DEF IInv, VerdictInv, Given, Validated
  <2>. QED BY <2>1, <2>2 DEF Settled
<1>. QED BY <1>1, Invariance, PTL

(* The sources of a validated run during which no file changed have no     *)
(* duplicate row, and no column misses its value in a tenth of the rows.   *)
THEOREM CleanData == Spec => []ValidatedClean
<1>1. ASSUME IInv PROVE ValidatedClean
  <2>1. SUFFICES ASSUME Validated, Complete, verdict.steady, NEW s \in verdict.active
                 PROVE  LET data == Content[sources[s].version] IN
                          /\ Rows[data] = Distinct[data]
                          /\ Rows[data] = 0 \/ 10 * Gaps[data] < Rows[data]
    BY DEF ValidatedClean
  <2>. DEFINE data == Content[sources[s].version]
  <2>2. s \in Known /\ Clean(s, "duplicates") /\ Clean(s, "missingness")
    BY <1>1, <2>1 DEF IInv, VerdictInv, Given, Validated
  <2>3. ~ (Rows[data] > Distinct[data]) /\ ~ (Rows[data] > 0 /\ 10 * Gaps[data] >= Rows[data])
    BY <2>2 DEF Clean, Stained
  <2>4. Rows[data] \in Nat /\ Distinct[data] \in 0 .. Rows[data] /\ Gaps[data] \in 0 .. Rows[data]
    BY <1>1, <2>2, KnownSource, ValidationConstants DEF IInv, Contents
  <2>. HIDE DEF data
  <2>5. Rows[data] = Distinct[data] /\ (Rows[data] = 0 \/ 10 * Gaps[data] < Rows[data])
    BY <2>3, <2>4
  <2>. QED BY <2>5 DEF data
<1>. QED BY <1>1, Invariance, PTL

(* Re-inspection clears staleness as long as a file's versions and the     *)
(* clock go forward: the record made for the version the file has is the   *)
(* last one made for it, and the only one with the last time.              *)
THEOREM Reinspection == Spec => []ReinspectClears
<1>1. ASSUME IInv PROVE ReinspectClears
  <2>1. SUFFICES ASSUME NEW s \in Active \ Referenced, Forward(sources[s].path)
                 PROVE  sources[s].version = Current(s)
    BY DEF ReinspectClears
  <2>2. s \in Known /\ Latest(s) BY DEF Active
  <2>3. /\ files[sources[s].path] # Missing
        /\ inspected[sources[s].path] = files[sources[s].path]
        /\ sources[s].version <= Current(s)
    BY <2>1, <2>2 DEF Forward, Current
  <2>4. PICK t \in Known : sources[t].path = sources[s].path /\ sources[t].version = Current(s)
    BY <1>1, <2>2, <2>3, KnownSource DEF IInv, OrderInv, Recorded, Current
  <2>5. sources[t].at <= sources[s].at BY <2>2, <2>4 DEF Latest
  <2>6. s \in Nat /\ t \in Nat /\ sources[s].at \in Nat /\ sources[t].at \in Nat
    BY <1>1, <2>2, KnownSource, ValidationConstants DEF IInv, Source
  <2>7. ~ (s < t)
    <3>1. s < t => sources[s].at < sources[t].at BY <2>1, <2>2, <2>4 DEF Forward
    <3>. QED BY <2>5, <2>6, <3>1
  <2>8. t = s \/ sources[t].version < sources[s].version
    <3>1. t = s \/ t < s BY <2>6, <2>7
    <3>. QED BY <1>1, <2>2, <2>4, <3>1 DEF IInv, OrderInv
  <2>9. sources[s].version \in Nat /\ sources[t].version \in Nat
    BY <1>1, <2>2, KnownSource, ValidationConstants DEF IInv
  <2>. QED BY <2>3, <2>4, <2>8, <2>9
<1>. QED BY <1>1, Invariance, PTL
=============================================================================
