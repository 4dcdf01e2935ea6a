---------------------------- MODULE QueriesProofs ---------------------------
(***************************************************************************)
(* Proofs about queries, for any number of them, any texts and results,    *)
(* and any caps.                                                           *)
(* Interrupts come at any time and from any timer; what is recorded does   *)
(* not depend on them, because each stage settles what the next relies on. *)
(***************************************************************************)
EXTENDS QueryService, FiniteSetTheorems, SequenceTheorems, WellFoundedInduction, TLAPS

(* Stages before anything is spilled. *)
Unspilled == {"new", "checked", "bound", "materialize", "measure", "preview", "previewed"}
Stages == Unspilled \cup {"spill", "copied", "sized", "reserved", "recording",
                          "failing"} \cup Over

(* The types the records rest on. *)
Types ==
  /\ pc \in [Queries -> Stages]
  /\ source \in 0 .. MaxEdits
  /\ checked \in [Queries -> 0 .. MaxEdits]
  /\ result \in [Queries -> Result]
  /\ file \in [Queries -> 0 .. MaxBytes]
  /\ failure \in [Queries -> {"failed", "timed_out"}]
  /\ arts \subseteq Artifact
  /\ DOMAIN recs = Queries /\ recs = [q \in Queries |-> recs[q]]

(* The spill file and the artifacts of a query at each stage. *)
Spilled(q) ==
  /\ pc[q] \in Unspilled => file[q] = 0
  /\ pc[q] \in {"copied", "sized", "reserved"} => file[q] = result[q].bytes
  /\ pc[q] \notin {"recording", "done", "unrecorded"} => ArtsOf(q) = {}
  /\ \A a \in ArtsOf(q) : file[q] = a.bytes /\ a.rows = Materialized(q)
  /\ pc[q] \in {"recording", "done"} /\ ArtsOf(q) = {} => file[q] = 0
  /\ pc[q] = "raised" => file[q] = 0
  /\ pc[q] = "unrecorded" /\ recs[q] # NoRecord => (file[q] > 0 <=> ArtsOf(q) # {})

(* Its record at each stage. *)
Failed(q) ==
  recs[q] # NoRecord /\ recs[q].status # "succeeded" /\ recs[q].arts = {} /\ ArtsOf(q) = {}

Recorded(q) ==
  /\ pc[q] \notin {"done", "raised", "unrecorded"} => recs[q] = NoRecord
  /\ pc[q] = "done" => recs[q] = Success(q)
  /\ pc[q] = "raised" => Failed(q)
  /\ pc[q] = "unrecorded" => recs[q] = NoRecord \/ recs[q] = Success(q) \/ Failed(q)

IInv == Types /\ \A q \in Queries : Spilled(q) /\ Recorded(q)

-----------------------------------------------------------------------------
LEMMA InitInv == Init => IInv
<1> SUFFICES ASSUME Init PROVE IInv
  OBVIOUS
<1>1. [rows |-> 0, wide |-> FALSE, bytes |-> 1, data |-> 0] \in Result
  BY QueryConstants DEF Result
<1>2. Types
  BY <1>1, QueryConstants DEF Init, Types, Stages, Unspilled
<1>3. \A q \in Queries : Spilled(q) /\ Recorded(q)
  BY DEF Init, Spilled, Recorded, ArtsOf, Unspilled
<1> QED
  BY <1>2, <1>3 DEF IInv

(* What is known of another query is left alone by a step of q. *)
LEMMA OthersKept ==
  ASSUME NEW q \in Queries, NEW r \in Queries \ {q}, Spilled(r), Recorded(r),
         pc'[r] = pc[r], file'[r] = file[r], result'[r] = result[r], checked'[r] = checked[r],
         recs'[r] = recs[r], \A a \in arts \cup arts' : a.query = r => (a \in arts <=> a \in arts')
  PROVE  Spilled(r)' /\ Recorded(r)'
<1>1. ArtsOf(r)' = ArtsOf(r)
  BY DEF ArtsOf
<1>2. /\ Materialized(r)' = Materialized(r) /\ PreviewRows(r)' = PreviewRows(r)
      /\ Truncated(r)' = Truncated(r)
  BY DEF Materialized, PreviewRows, Truncated, Lesser
<1>3. Success(r)' = Success(r)
  BY <1>1, <1>2 DEF Success
<1> QED
  BY <1>1, <1>2, <1>3 DEF Spilled, Recorded, Failed

(* A step of q that leaves artifacts, records and results alone, and does  *)
(* not write the spill file.                                               *)
LEMMA ClockStep ==
  ASSUME IInv, NEW q \in Queries, NEW to \in Stages, pc' = [pc EXCEPT ![q] = to],
         UNCHANGED <<result, file, arts, recs, checked>>,
         pc[q] \notin {"done", "raised", "recording", "unrecorded"},
         to \notin {"done", "raised", "unrecorded"},
         to \in Unspilled => pc[q] \in Unspilled,
         to \in {"copied", "sized", "reserved"} => file[q] = result[q].bytes,
         to = "recording" => file[q] = 0,
         ArtsOf(q) = {} ,
         Types'
  PROVE  IInv'
<1>1. ASSUME NEW r \in Queries \ {q} PROVE Spilled(r)' /\ Recorded(r)'
  <2>1. pc'[r] = pc[r]
    BY DEF IInv, Types
  <2> QED
    BY <2>1, OthersKept DEF IInv
<1>2. pc'[q] = to /\ ArtsOf(q)' = {}
  BY DEF IInv, Types, ArtsOf
<1>3. Spilled(q)'
  BY <1>2 DEF IInv, Spilled
<1>4. Recorded(q)'
  BY <1>2 DEF IInv, Recorded
<1> QED
  BY <1>1, <1>3, <1>4 DEF IInv

(* What register_file registers is an artifact. *)
LEMMA SpillTyped ==
  ASSUME IInv, NEW q \in Queries, pc[q] = "reserved"
  PROVE  Spill(q) \in Artifact
<1>1. Materialized(q) \in 0 .. SpillRows + 1
  BY QueryConstants DEF Materialized, Lesser, Result, IInv, Types
<1>2. file[q] \in 1 .. MaxBytes
  BY DEF IInv, Types, Spilled, Result
<1> QED
  BY <1>1, <1>2 DEF Spill, Artifact

LEMMA TypesStep == IInv /\ [Next]_vars => Types'
<1> SUFFICES ASSUME IInv, [Next]_vars PROVE Types'
  OBVIOUS
<1> USE QueryConstants DEF IInv, Types, Goto, Begin, End, clocks, locals, shared,
                           Stages, Unspilled, Over
<1>1. ASSUME NEW q \in Queries, Check(q) \/ Bind(q) \/ StartMaterialize(q) PROVE Types'
  BY <1>1 DEF Check, Bind, StartMaterialize
<1>2. ASSUME NEW q \in Queries, MaterializeEnds(q) PROVE Types'
  BY <1>2 DEF MaterializeEnds
<1>3. ASSUME NEW q \in Queries, MeasureEnds(q) \/ PreviewEnds(q) \/ StartSpill(q) PROVE Types'
  BY <1>3 DEF MeasureEnds, PreviewEnds, StartSpill
<1>4. ASSUME NEW q \in Queries, SpillGrows(q) PROVE Types'
  BY <1>4 DEF SpillGrows, Result
<1>5. ASSUME NEW q \in Queries, SpillEnds(q) \/ SpillChecked(q) PROVE Types'
  BY <1>5 DEF SpillEnds, SpillChecked
<1>6. ASSUME NEW q \in Queries, StatementFails(q) PROVE Types'
  BY <1>6 DEF StatementFails, Statements
<1>7. ASSUME NEW q \in Queries, Reserve(q) PROVE Types'
  <2>1. pc' = [pc EXCEPT ![q] = "reserved"] \/ pc' = [pc EXCEPT ![q] = "failing"]
    BY <1>7 DEF Reserve
  <2> QED
    BY <1>7, <2>1 DEF Reserve
<1>8. ASSUME NEW q \in Queries, Register(q) \/ AddFails(q) PROVE Types'
  <2>1. arts' \subseteq Artifact
    <3>1. pc[q] = "reserved" => Spill(q) \in Artifact
      BY SpillTyped
    <3>2. arts' = arts \/ (pc[q] = "reserved" /\ arts' = arts \cup {Spill(q)})
      BY <1>8 DEF Register, AddFails
    <3> QED
      BY <3>1, <3>2
  <2>2. /\ pc' = [pc EXCEPT ![q] = "recording"] \/ pc' = [pc EXCEPT ![q] = "unrecorded"]
        /\ file' = file \/ file' = [file EXCEPT ![q] = 0]
        /\ UNCHANGED <<source, checked, result, failure>>
    BY <1>8 DEF Register, AddFails
  <2>3. DOMAIN recs' = Queries /\ recs' = [x \in Queries |-> recs'[x]]
    BY <1>8 DEF Register, AddFails
  <2> QED
    BY <2>1, <2>2, <2>3
<1>11. ASSUME NEW q \in Queries, RecordSuccess(q) \/ RecordFailure(q) PROVE Types'
  BY <1>11 DEF RecordSuccess, RecordFailure
<1>9. ASSUME NEW q \in Queries,
             Timers(q) \/ LateInterrupt(q) \/ WatchSees(q) \/ WatchInterrupts(q)
      PROVE  Types'
  BY <1>9 DEF Timers, TimerFires, TimerInterrupts, LateInterrupt, WatchSees, WatchInterrupts
<1>10. CASE SourceEdited \/ OthersReserve \/ OthersCopy \/ OthersRelease \/ UNCHANGED vars
  BY <1>10 DEF SourceEdited, OthersReserve, OthersCopy, OthersRelease, vars
<1> QED
  BY <1>1, <1>2, <1>3, <1>4, <1>5, <1>6, <1>7, <1>8, <1>9, <1>10, <1>11 DEF Next, Proceed, StatementEnds

(* The records written are records, so they are not NoRecord. *)
LEMMA Written ==
  ASSUME IInv, NEW q \in Queries
  PROVE  /\ Success(q) \in Record
         /\ Failure(q) \in Record
<1>1. PreviewRows(q) \in 0 .. RowLimit
  BY QueryConstants DEF PreviewRows, Materialized, Lesser, IInv, Types, Result
<1>2. Truncated(q) \in BOOLEAN /\ ArtsOf(q) \subseteq Artifact
  BY DEF Truncated, IInv, Types, Result, ArtsOf
<1>3. checked[q] \in 0 .. MaxEdits /\ failure[q] \in {"failed", "timed_out"}
  BY DEF IInv, Types
<1>4. (Truncated(q) /\ Materialized(q) > SpillRows) \in BOOLEAN
  OBVIOUS
<1>5. Success(q) \in Record
  BY <1>1, <1>2, <1>3, <1>4 DEF Success, Record
<1> QED
  BY <1>3, <1>5, QueryConstants DEF Record, Failure

(* Steps of a query's thread that touch neither artifacts nor records. *)
LEMMA QuietSteps ==
  ASSUME IInv, [Next]_vars, NEW q \in Queries,
         \/ Check(q) \/ Bind(q) \/ StartMaterialize(q) \/ MeasureEnds(q) \/ PreviewEnds(q)
         \/ StartSpill(q) \/ SpillEnds(q) \/ StatementFails(q) \/ SpillChecked(q) \/ Reserve(q)
  PROVE  IInv'
<1> DEFINE to == pc'[q]
<1>1. Types'
  BY TypesStep
<1>2. pc \in [Queries -> Stages] /\ Spilled(q)
  BY DEF IInv, Types
<1>3. /\ pc' = [pc EXCEPT ![q] = to]
      /\ UNCHANGED <<result, file, arts, recs>>
      /\ to \in Stages
      /\ pc[q] \notin {"done", "raised", "recording"} /\ to \notin {"done", "raised", "unrecorded"}
      /\ to \in Unspilled => pc[q] \in Unspilled
      /\ to \in {"copied", "sized", "reserved"} => file[q] = result[q].bytes
      /\ to = "recording" => file[q] = 0
      /\ pc[q] # "unrecorded"
  BY <1>2 DEF Check, Bind, StartMaterialize, MeasureEnds, PreviewEnds, StartSpill, SpillEnds,
     StatementFails, SpillChecked, Reserve, Goto, Begin, End, shared, locals, Stages, Unspilled,
     Statements, Over, Spilled
<1>4. ArtsOf(q) = {}
  BY <1>2, <1>3 DEF Spilled
<1>5. checked' = checked \/ Check(q)
  BY DEF Bind, StartMaterialize, MeasureEnds, PreviewEnds, StartSpill, SpillEnds,
     StatementFails, SpillChecked, Reserve, locals
<1>6. CASE checked' = checked
  <2> HIDE DEF to
  <2> QED
    BY <1>1, <1>3, <1>4, <1>6, ClockStep
<1>7. CASE Check(q)
  <2>1. ASSUME NEW r \in Queries \ {q} PROVE Spilled(r)' /\ Recorded(r)'
    <3>1. checked'[r] = checked[r] /\ pc'[r] = pc[r]
      BY <1>2, <1>3, <1>7 DEF Check, IInv, Types
    <3> QED
      BY <1>3, <3>1, OthersKept DEF IInv
  <2>2. ArtsOf(q)' = {}
    BY <1>3, <1>4 DEF ArtsOf
  <2>3. Spilled(q)' /\ Recorded(q)'
    BY <1>2, <1>3, <2>2 DEF Spilled, Recorded, IInv
  <2> QED
    BY <1>1, <2>1, <2>3 DEF IInv
<1> QED
  BY <1>5, <1>6, <1>7

(* Steps of the statements that write the result or the spill file. *)
LEMMA DataSteps ==
  ASSUME IInv, [Next]_vars, NEW q \in Queries, MaterializeEnds(q) \/ SpillGrows(q)
  PROVE  IInv'
<1>1. Types' /\ UNCHANGED <<arts, recs, checked>>
  BY TypesStep DEF MaterializeEnds, SpillGrows
<1>2. ASSUME NEW r \in Queries \ {q} PROVE Spilled(r)' /\ Recorded(r)'
  <2>1. pc'[r] = pc[r] /\ file'[r] = file[r] /\ result'[r] = result[r]
    BY DEF MaterializeEnds, SpillGrows, Begin, Goto, IInv, Types
  <2> QED
    BY <1>1, <2>1, OthersKept DEF IInv
<1>3. CASE MaterializeEnds(q)
  <2>1. pc[q] = "materialize" /\ pc'[q] = "measure" /\ file' = file
    BY <1>3 DEF MaterializeEnds, Begin, Goto, IInv, Types
  <2>2. ArtsOf(q)' = {}
    BY <1>1, <2>1 DEF IInv, Spilled, ArtsOf
  <2>3. Spilled(q)' /\ Recorded(q)'
    BY <1>1, <2>1, <2>2 DEF IInv, Spilled, Recorded, Unspilled
  <2> QED
    BY <1>1, <1>2, <2>3 DEF IInv
<1>4. CASE SpillGrows(q)
  <2>1. pc[q] = "spill" /\ pc' = pc
    BY <1>4 DEF SpillGrows
  <2>2. ArtsOf(q)' = {}
    BY <1>1, <2>1 DEF IInv, Spilled, ArtsOf
  <2>3. Spilled(q)' /\ Recorded(q)'
    BY <1>1, <2>1, <2>2 DEF IInv, Spilled, Recorded, Unspilled
  <2> QED
    BY <1>1, <1>2, <2>3 DEF IInv
<1> QED
  BY <1>3, <1>4

(* A step that leaves a query with its artifact, or none, and no record.   *)
LEMMA RegisterStep ==
  ASSUME IInv, [Next]_vars, NEW q \in Queries,
         Register(q) \/ (AddFails(q) /\ pc[q] = "reserved")
  PROVE  IInv'
<1>1. /\ Types' /\ UNCHANGED <<file, result, recs, checked>>
      /\ pc[q] = "reserved" /\ ArtsOf(q) = {} /\ recs[q] = NoRecord
  BY TypesStep DEF Register, AddFails, locals, IInv, Spilled, Recorded
<1>2. /\ pc' = [pc EXCEPT ![q] = pc'[q]]
      /\ \/ pc'[q] = "recording" /\ arts' = arts \cup {Spill(q)}
         \/ pc'[q] = "unrecorded" /\ arts' \in {arts, arts \cup {Spill(q)}}
  BY DEF Register, AddFails, Goto, IInv, Types
<1>3. Spill(q).query = q /\ Spill(q).bytes = file[q] /\ Spill(q).rows = Materialized(q)
  BY DEF Spill
<1>4. ASSUME NEW r \in Queries \ {q} PROVE Spilled(r)' /\ Recorded(r)'
  <2>1. pc'[r] = pc[r] /\ (\A b \in arts \cup arts' : b.query = r => (b \in arts <=> b \in arts'))
    BY <1>2, <1>3 DEF IInv, Types
  <2> QED
    BY <1>1, <2>1, OthersKept DEF IInv
<1>5. Materialized(q)' = Materialized(q)
  BY <1>1 DEF Materialized, Lesser
<1>6. \/ pc'[q] = "recording" /\ ArtsOf(q)' = {Spill(q)}
      \/ pc'[q] = "unrecorded" /\ ArtsOf(q)' \in {{}, {Spill(q)}}
  BY <1>1, <1>2, <1>3 DEF ArtsOf
<1>7. \A b \in ArtsOf(q)' : file'[q] = b.bytes /\ b.rows = Materialized(q)'
  BY <1>1, <1>3, <1>5, <1>6
<1>8. Spilled(q)' /\ Recorded(q)'
  BY <1>1, <1>6, <1>7 DEF Spilled, Recorded, Unspilled
<1> QED
  BY <1>1, <1>4, <1>8 DEF IInv

(* The last steps write the record or give up on it. *)
LEMMA RecordSteps ==
  ASSUME IInv, [Next]_vars, NEW q \in Queries,
         RecordSuccess(q) \/ RecordFailure(q) \/ (AddFails(q) /\ pc[q] # "reserved")
  PROVE  IInv'
<1>1. Types' /\ UNCHANGED <<arts, result, checked>>
  BY TypesStep DEF RecordSuccess, RecordFailure, AddFails, locals
<1>2. ASSUME NEW r \in Queries \ {q} PROVE Spilled(r)' /\ Recorded(r)'
  <2>1. pc'[r] = pc[r] /\ file'[r] = file[r] /\ recs'[r] = recs[r]
    BY DEF RecordSuccess, RecordFailure, AddFails, Goto, IInv, Types, locals
  <2> QED
    BY <1>1, <2>1, OthersKept DEF IInv
<1>3. ArtsOf(q)' = ArtsOf(q) /\ Success(q)' = Success(q)
  BY <1>1 DEF ArtsOf, Success, PreviewRows, Truncated, Materialized, Lesser
<1>4. Materialized(q)' = Materialized(q)
  BY <1>1 DEF Materialized, Lesser
<1>5. ASSUME pc[q] = "recording", pc'[q] \in {"done", "unrecorded"}, file'[q] = file[q],
             \/ recs'[q] = Success(q)
             \/ recs'[q] = recs[q] /\ pc'[q] = "unrecorded"
      PROVE  IInv'
  <2>1. recs[q] = NoRecord
    BY <1>5 DEF IInv, Recorded
  <2>2. ArtsOf(q) # {} => file[q] > 0
    <3>1. \A a \in ArtsOf(q) : a.bytes \in 1 .. MaxBytes
      BY DEF ArtsOf, IInv, Types, Artifact
    <3> QED
      BY <3>1, QueryConstants DEF IInv, Spilled
  <2>3. Recorded(q)'
    BY <1>3, <1>5, <2>1 DEF Recorded
  <2>4. file[q] > 0 <=> ArtsOf(q) # {}
    BY <1>5, <2>2 DEF IInv, Spilled
  <2>5. Spilled(q)'
    BY <1>3, <1>4, <1>5, <2>4 DEF IInv, Spilled, Unspilled
  <2> QED
    BY <1>1, <1>2, <2>3, <2>5 DEF IInv
<1>6. ASSUME pc[q] = "failing", pc'[q] \in {"raised", "unrecorded"}, file'[q] = 0,
             \/ recs'[q] = Failure(q)
             \/ recs'[q] = recs[q] /\ pc'[q] = "unrecorded"
      PROVE  IInv'
  <2>1. recs[q] = NoRecord /\ ArtsOf(q) = {}
    BY <1>6 DEF IInv, Recorded, Spilled
  <2>2. Failure(q) # NoRecord /\ Failure(q).status # "succeeded" /\ Failure(q).arts = {}
    BY Written, NoValue DEF IInv, Types, Failure
  <2>3. recs'[q] = Failure(q) => Failed(q)'
    BY <1>3, <2>1, <2>2 DEF Failed
  <2>4. Recorded(q)'
    BY <1>6, <2>1, <2>3 DEF Recorded
  <2>5. Spilled(q)'
    BY <1>3, <1>4, <1>6, <2>1 DEF IInv, Spilled, Unspilled
  <2> QED
    BY <1>1, <1>2, <2>4, <2>5 DEF IInv
<1>7. CASE RecordSuccess(q)
  BY <1>5, <1>7 DEF RecordSuccess, Goto, IInv, Types, locals
<1>8. CASE RecordFailure(q)
  BY <1>6, <1>8 DEF RecordFailure, Goto, IInv, Types
<1>9. CASE AddFails(q) /\ pc[q] # "reserved"
  BY <1>5, <1>6, <1>9 DEF AddFails, Goto, IInv, Types
<1> QED
  BY <1>7, <1>8, <1>9

(* The timers, the watchdog and the world touch nothing of it. *)
LEMMA Elsewhere ==
  ASSUME IInv, [Next]_vars, UNCHANGED <<pc, result, file, checked, arts, recs>>
  PROVE  IInv'
<1>1. Types'
  BY TypesStep
<1>2. ASSUME NEW r \in Queries PROVE Spilled(r)' /\ Recorded(r)'
  <2>1. ArtsOf(r)' = ArtsOf(r) /\ Success(r)' = Success(r) /\ Materialized(r)' = Materialized(r)
    BY DEF ArtsOf, Success, PreviewRows, Truncated, Materialized, Lesser
  <2> QED
    BY <2>1 DEF IInv, Spilled, Recorded, Failed
<1> QED
  BY <1>1, <1>2 DEF IInv

LEMMA StepInv == IInv /\ [Next]_vars => IInv'
<1> SUFFICES ASSUME IInv, [Next]_vars PROVE IInv'
  OBVIOUS
<1>1. ASSUME NEW q \in Queries, Proceed(q) PROVE IInv'
  BY <1>1, QuietSteps, RegisterStep, RecordSteps DEF Proceed
<1>2. ASSUME NEW q \in Queries, StatementEnds(q) \/ SpillGrows(q) \/ AddFails(q) PROVE IInv'
  BY <1>2, QuietSteps, DataSteps, RegisterStep, RecordSteps DEF StatementEnds
<1>3. ASSUME NEW q \in Queries,
             Timers(q) \/ LateInterrupt(q) \/ WatchSees(q) \/ WatchInterrupts(q)
      PROVE  IInv'
  BY <1>3, Elsewhere DEF Timers, TimerFires, TimerInterrupts, LateInterrupt, WatchSees,
     WatchInterrupts, locals
<1>4. CASE SourceEdited \/ OthersReserve \/ OthersCopy \/ OthersRelease \/ UNCHANGED vars
  BY <1>4, Elsewhere DEF SourceEdited, OthersReserve, OthersCopy, OthersRelease, vars, locals
<1> QED
  BY <1>1, <1>2, <1>3, <1>4 DEF Next

LEMMA Inductive == Spec => []IInv
<1> QED
  BY InitInv, StepInv, PTL DEF Spec

-----------------------------------------------------------------------------
(* QueryService.execute: a query that returned or raised left a record, and *)
(* a spill file on disk exactly if its artifact is registered, whichever   *)
(* statements the timers and the watchdog interrupted.                     *)
THEOREM Accounted == Spec => []QueriesAccounted
<1>1. ASSUME IInv PROVE QueriesAccounted
  <2>1. ASSUME NEW q \in Queries, pc[q] \in {"done", "raised"} PROVE recs[q] # NoRecord
    BY <1>1, <2>1, Written, NoValue DEF IInv, Recorded, Failed
  <2>2. ASSUME NEW q \in Queries, recs[q] # NoRecord
        PROVE  /\ recs[q].arts = ArtsOf(q)
               /\ file[q] > 0 <=> ArtsOf(q) # {}
               /\ ArtsOf(q) # {} => recs[q].status = "succeeded"
    <3>1. pc[q] \in {"done", "raised", "unrecorded"}
      BY <1>1, <2>2 DEF IInv, Recorded
    <3>2. recs[q] = Success(q) \/ Failed(q)
      BY <1>1, <2>2, <3>1 DEF IInv, Recorded
    <3>3. Success(q).arts = ArtsOf(q) /\ Success(q).status = "succeeded"
      BY DEF Success
    <3>4. ArtsOf(q) # {} => file[q] > 0
      BY <1>1, QueryConstants DEF IInv, Types, Spilled, ArtsOf, Artifact
    <3>5. ArtsOf(q) = {} => ~ (file[q] > 0)
      BY <1>1, <2>2, <3>1 DEF IInv, Spilled
    <3> QED
      BY <3>2, <3>3, <3>4, <3>5 DEF Failed
  <2>3. ASSUME NEW a \in arts PROVE file[a.query] = a.bytes
    <3>1. a.query \in Queries /\ a \in ArtsOf(a.query)
      BY <1>1 DEF IInv, Types, Artifact, ArtsOf
    <3> QED
      BY <1>1, <3>1 DEF IInv, Spilled
  <2> QED
    BY <2>1, <2>2, <2>3 DEF QueriesAccounted
<1> QED
  BY <1>1, Inductive, PTL

(* FR-030: a result is whole, or its record says what it leaves out, when  *)
(* the preview is not longer than what is materialized, as the defaults    *)
(* of settings.py have it.                                                 *)
THEOREM Whole == RowLimit <= SpillRows => (Spec => []ResultWhole)
<1> SUFFICES ASSUME RowLimit <= SpillRows PROVE Spec => []ResultWhole
  OBVIOUS
<1>1. ASSUME IInv PROVE ResultWhole
  <2> SUFFICES ASSUME NEW q \in Queries, recs[q] # NoRecord, recs[q].status = "succeeded"
               PROVE  IF recs[q].truncated
                      THEN \A a \in recs[q].arts : a.rows < result[q].rows => recs[q].spillTruncated
                      ELSE recs[q].rows = result[q].rows /\ ~ result[q].wide
    BY DEF ResultWhole
  <2>1. recs[q] = Success(q)
    BY <1>1 DEF IInv, Recorded, Failed
  <2>2. /\ recs[q].truncated = Truncated(q) /\ recs[q].arts = ArtsOf(q)
        /\ recs[q].rows = PreviewRows(q)
        /\ recs[q].spillTruncated = (Truncated(q) /\ Materialized(q) > SpillRows)
    BY <2>1 DEF Success
  <2>3. \A a \in ArtsOf(q) : a.rows = Materialized(q)
    BY <1>1 DEF IInv, Spilled
  <2>4. result[q].rows \in Nat
    BY <1>1, QueryConstants DEF IInv, Types, Result
  <2>5. CASE Truncated(q)
    <3>1. Materialized(q) < result[q].rows => Materialized(q) > SpillRows
      BY <2>4, QueryConstants DEF Materialized, Lesser
    <3>2. recs[q].truncated /\ recs[q].spillTruncated = (Materialized(q) > SpillRows)
      BY <2>2, <2>5
    <3>3. ASSUME NEW a \in recs[q].arts, a.rows < result[q].rows PROVE recs[q].spillTruncated
      <4>1. a.rows = Materialized(q)
        BY <2>2, <2>3
      <4> QED
        BY <3>1, <3>2, <3>3, <4>1
    <3> QED
      BY <3>2, <3>3
  <2>6. CASE ~ Truncated(q)
    BY <2>2, <2>4, <2>6, QueryConstants DEF Truncated, PreviewRows, Materialized, Lesser
  <2> QED
    BY <2>2, <2>5, <2>6
<1>2. IInv => ResultWhole
  BY <1>1
<1> QED
  BY <1>2, Inductive, PTL

-----------------------------------------------------------------------------
(* Each statement but the counting arms one timer; a timer whose interrupt *)
(* is still to come was armed by a statement that is over.                 *)
Armed(stage) ==
  IF stage \in {"new", "checked", "bound", "materialize"} THEN 0
  ELSE IF stage \in {"measure", "preview"} THEN 1
  ELSE IF stage \in {"previewed", "spill"} THEN 2 ELSE 3

ClockInv ==
  /\ stmt \in [Queries -> {"idle", "running", "hit"}]
  /\ timer \in [Queries -> {"off", "armed", "firing", "fired"}]
  /\ late \in [Queries -> Nat]
  /\ watch \in [Queries -> {"off", "on", "firing"}]
  /\ over \in [Queries -> BOOLEAN]
  /\ \A q \in Queries :
       /\ late[q] <= Armed(pc[q])
       /\ pc[q] \notin Statements \ {"measure"} => timer[q] = "off"

LEMMA ClocksStep == IInv /\ ClockInv /\ [Next]_vars => ClockInv'
<1> SUFFICES ASSUME IInv, ClockInv, [Next]_vars PROVE ClockInv'
  OBVIOUS
<1>0. pc \in [Queries -> Stages]
  BY DEF IInv, Types
<1> USE DEF ClockInv, Goto, clocks, Statements, Stages, Unspilled, Over, Armed
<1>1. ASSUME NEW q \in Queries, Check(q) \/ Bind(q) \/ SpillChecked(q) PROVE ClockInv'
  BY <1>0, <1>1 DEF Check, Bind, SpillChecked
<1>2. ASSUME NEW q \in Queries, StartMaterialize(q) PROVE ClockInv'
  BY <1>0, <1>2 DEF StartMaterialize, Begin
<1>3. ASSUME NEW q \in Queries, MaterializeEnds(q) PROVE ClockInv'
  BY <1>0, <1>3 DEF MaterializeEnds, Begin
<1>4. ASSUME NEW q \in Queries, MeasureEnds(q) PROVE ClockInv'
  BY <1>0, <1>4 DEF MeasureEnds, Begin
<1>5. ASSUME NEW q \in Queries, PreviewEnds(q) PROVE ClockInv'
  BY <1>0, <1>5 DEF PreviewEnds, End
<1>6. ASSUME NEW q \in Queries, StartSpill(q) PROVE ClockInv'
  BY <1>0, <1>6 DEF StartSpill, Begin
<1>7. ASSUME NEW q \in Queries, SpillEnds(q) PROVE ClockInv'
  BY <1>0, <1>7 DEF SpillEnds, End
<1>8. ASSUME NEW q \in Queries, StatementFails(q) PROVE ClockInv'
  BY <1>0, <1>8 DEF StatementFails, End
<1>9. ASSUME NEW q \in Queries,
             SpillGrows(q) \/ Reserve(q) \/ Register(q) \/ RecordSuccess(q) \/ RecordFailure(q)
             \/ AddFails(q)
      PROVE  ClockInv'
  BY <1>0, <1>9 DEF SpillGrows, Reserve, Register, RecordSuccess, RecordFailure, AddFails
<1>10. ASSUME NEW q \in Queries, LateInterrupt(q) PROVE ClockInv'
  BY <1>0, <1>10 DEF LateInterrupt, Interrupt
<1>11. ASSUME NEW q \in Queries, TimerFires(q) PROVE ClockInv'
  BY <1>0, <1>11 DEF TimerFires
<1>12. ASSUME NEW q \in Queries, TimerInterrupts(q) PROVE ClockInv'
  BY <1>0, <1>12 DEF TimerInterrupts, Interrupt
<1>13. ASSUME NEW q \in Queries, WatchSees(q) \/ WatchInterrupts(q) PROVE ClockInv'
  BY <1>0, <1>13 DEF WatchSees, WatchInterrupts, Interrupt
<1>14. CASE SourceEdited \/ OthersReserve \/ OthersCopy \/ OthersRelease \/ UNCHANGED vars
  BY <1>14 DEF SourceEdited, OthersReserve, OthersCopy, OthersRelease, vars
<1> QED
  BY <1>1, <1>2, <1>3, <1>4, <1>5, <1>6, <1>7, <1>8, <1>9, <1>10, <1>11,
     <1>12, <1>13, <1>14 DEF Next, Proceed, StatementEnds, Timers

-----------------------------------------------------------------------------
(* One artifact more takes its bytes more.                                 *)
LEMMA BytesSplit ==
  ASSUME NEW f, NEW g, NEW x, IsFiniteSet(ByteSet(g)), f[x] \in Nat,
         DOMAIN f = DOMAIN g \cup {x}, x \notin DOMAIN g, \A y \in DOMAIN g : f[y] = g[y]
  PROVE  /\ IsFiniteSet(ByteSet(f)) /\ Bytes(g) \in Nat
         /\ Bytes(f) = Bytes(g) + f[x]
<1> DEFINE One == {x} \X (1 .. f[x])
<1>1. IsFiniteSet(One) /\ Cardinality(One) = f[x]
  <2>1. IsFiniteSet(1 .. f[x]) /\ Cardinality(1 .. f[x]) = IF 1 > f[x] THEN 0 ELSE f[x] - 1 + 1
    BY FS_Interval
  <2>2. IsFiniteSet({x}) /\ Cardinality({x}) = 1
    BY FS_Singleton
  <2>3. IsFiniteSet(One) /\ Cardinality(One) = Cardinality({x}) * Cardinality(1 .. f[x])
    BY <2>1, <2>2, FS_Product
  <2> QED
    BY <2>1, <2>2, <2>3
<1>2. ByteSet(f) = ByteSet(g) \cup One /\ ByteSet(g) \cap One = {}
  BY DEF ByteSet
<1> HIDE DEF One
<1>3. Cardinality(ByteSet(g) \cap One) = 0 /\ Cardinality(ByteSet(g)) \in Nat
  BY <1>2, FS_EmptySet, FS_CardinalityType
<1>4. /\ IsFiniteSet(ByteSet(g) \cup One)
      /\ Cardinality(ByteSet(g) \cup One) =
           Cardinality(ByteSet(g)) + Cardinality(One) - Cardinality(ByteSet(g) \cap One)
  BY <1>1, FS_Union
<1> QED
  BY <1>1, <1>2, <1>3, <1>4 DEF Bytes

Spills == [a \in arts |-> a.bytes]

(* Who holds the lock may register what it compared: nobody else registers *)
(* anything meanwhile.                                                     *)
QuotaInv ==
  /\ IsFiniteSet(ByteSet(Spills))
  /\ {others, admitted, grown} \subseteq Nat
  /\ lock # "others" => admitted = 0
  /\ SessionBytes + admitted <= MaxTotalBytes + grown
  /\ \A q \in Queries : pc[q] = "reserved" =>
       /\ lock = "query" /\ SessionBytes + file[q] <= MaxTotalBytes + grown
       /\ \A r \in Queries : pc[r] = "reserved" => r = q

LEMMA BytesTyped ==
  ASSUME QuotaInv
  PROVE  /\ SessionBytes = others + Bytes(Spills) /\ Bytes(Spills) \in Nat
         /\ SessionBytes \in Nat
<1>1. SessionBytes = others + Bytes(Spills)
  BY DEF SessionBytes, Spills
<1>2. Bytes(Spills) \in Nat
  BY FS_CardinalityType DEF QuotaInv, Bytes
<1> QED
  BY <1>1, <1>2 DEF QuotaInv

(* An artifact more takes at most its bytes more.                          *)
LEMMA BytesAdded ==
  ASSUME IInv, QuotaInv, NEW q \in Queries, arts' \in {arts, arts \cup {Spill(q)}}, others' = others
  PROVE  /\ IsFiniteSet(ByteSet(Spills')) /\ SessionBytes' \in Nat
         /\ SessionBytes' <= SessionBytes + file[q]
<1>1. Spill(q).bytes = file[q] /\ file[q] \in Nat
  BY QueryConstants DEF IInv, Types, Spill
<1>2. SessionBytes' = others + Bytes(Spills')
  BY DEF SessionBytes, Spills
<1>3. CASE arts' = arts
  <2>1. Spills' = Spills
    BY <1>3 DEF Spills
  <2> QED
    BY <1>1, <1>2, <2>1, BytesTyped DEF QuotaInv
<1>4. CASE arts' = arts \cup {Spill(q)} /\ Spill(q) \notin arts
  <2>1. /\ DOMAIN Spills' = arts \cup {Spill(q)} /\ DOMAIN Spills = arts
        /\ Spills'[Spill(q)] = file[q] /\ \A b \in arts : Spills'[b] = Spills[b]
    BY <1>1, <1>4 DEF Spills
  <2>2. Spills'[Spill(q)] \in Nat
    BY <1>1, <2>1
  <2>3. IsFiniteSet(ByteSet(Spills')) /\ Bytes(Spills') = Bytes(Spills) + Spills'[Spill(q)]
    BY <1>4, <2>1, <2>2, BytesSplit DEF QuotaInv
  <2> QED
    BY <1>1, <1>2, <2>1, <2>3, BytesTyped DEF QuotaInv
<1> QED
  BY <1>3, <1>4

(* Steps of a query that neither hold nor take the lock.                   *)
LEMMA QuotaApart ==
  ASSUME IInv, QuotaInv, NEW q \in Queries, UNCHANGED <<arts, lock, traffic>>,
         pc[q] # "reserved", pc' = pc \/ (\E to \in Stages : to # "reserved" /\ Goto(q, to)),
         \A r \in Queries \ {q} : file'[r] = file[r]
  PROVE  QuotaInv'
<1>1. Spills' = Spills /\ SessionBytes' = SessionBytes
  BY DEF Spills, SessionBytes, traffic
<1>2. \A r \in Queries : pc'[r] = "reserved" => pc[r] = "reserved" /\ r # q
  BY DEF Goto, IInv, Types
<1>3. \A r \in Queries : pc'[r] = "reserved" => file'[r] = file[r]
  BY <1>2
<1> QED
  BY <1>1, <1>2, <1>3 DEF QuotaInv, traffic

LEMMA QuotaStep == IInv /\ QuotaInv /\ [Next]_vars => QuotaInv'
<1> SUFFICES ASSUME IInv, QuotaInv, [Next]_vars PROVE QuotaInv'
  OBVIOUS
<1>0. pc \in [Queries -> Stages] /\ file \in [Queries -> 0 .. MaxBytes]
  BY DEF IInv, Types
<1>1. ASSUME UNCHANGED <<arts, lock, traffic, pc, file>> PROVE QuotaInv'
  BY <1>1 DEF QuotaInv, SessionBytes, Spills, traffic
<1>2. ASSUME NEW q \in Queries,
             \/ Check(q) \/ Bind(q) \/ StartMaterialize(q) \/ MaterializeEnds(q)
             \/ MeasureEnds(q) \/ PreviewEnds(q) \/ StartSpill(q)
      PROVE  QuotaInv'
  <2>1. /\ UNCHANGED <<arts, lock, traffic, file>> /\ pc[q] # "reserved"
        /\ \E to \in Stages : to # "reserved" /\ Goto(q, to)
    BY <1>2 DEF Check, Bind, StartMaterialize, MaterializeEnds, MeasureEnds, PreviewEnds,
       StartSpill, Begin, End, shared, locals, Stages, Unspilled, Over
  <2> QED
    BY <2>1, QuotaApart
<1>3. ASSUME NEW q \in Queries,
             SpillGrows(q) \/ SpillEnds(q) \/ StatementFails(q) \/ SpillChecked(q)
      PROVE  QuotaInv'
  <2>1. /\ UNCHANGED <<arts, lock, traffic>> /\ pc[q] # "reserved"
        /\ pc' = pc \/ \E to \in Stages : to # "reserved" /\ Goto(q, to)
    BY <1>3 DEF SpillGrows, SpillEnds, StatementFails, SpillChecked, End, shared, locals,
       Stages, Statements
  <2>2. \A r \in Queries \ {q} : file'[r] = file[r]
    BY <1>0, <1>3 DEF SpillGrows, SpillEnds, StatementFails, SpillChecked, locals
  <2> QED
    BY <2>1, <2>2, QuotaApart
<1>4. ASSUME NEW q \in Queries,
             RecordSuccess(q) \/ RecordFailure(q) \/ (AddFails(q) /\ pc[q] # "reserved")
      PROVE  QuotaInv'
  <2>1. /\ UNCHANGED <<arts, lock, traffic>> /\ pc[q] # "reserved"
        /\ \E to \in Stages : to # "reserved" /\ Goto(q, to)
    BY <1>4 DEF RecordSuccess, RecordFailure, AddFails, shared, Stages, Over
  <2>2. \A r \in Queries \ {q} : file'[r] = file[r]
    BY <1>0, <1>4 DEF RecordSuccess, RecordFailure, AddFails, locals
  <2> QED
    BY <2>1, <2>2, QuotaApart
<1>5. ASSUME NEW q \in Queries,
             Timers(q) \/ LateInterrupt(q) \/ WatchSees(q) \/ WatchInterrupts(q)
      PROVE  QuotaInv'
  BY <1>1, <1>5 DEF Timers, TimerFires, TimerInterrupts, LateInterrupt, WatchSees,
     WatchInterrupts, shared, locals
<1>6. ASSUME NEW q \in Queries, Reserve(q) PROVE QuotaInv'
  <2>1. UNCHANGED <<arts, traffic, file>> /\ lock = "free" /\ pc[q] = "sized"
    BY <1>6 DEF Reserve, locals
  <2>2. Spills' = Spills /\ SessionBytes' = SessionBytes /\ file' = file
    BY <2>1 DEF Spills, SessionBytes, traffic
  <2>3. \A r \in Queries : pc[r] # "reserved"
    BY <2>1 DEF QuotaInv
  <2>4. \/ /\ pc' = [pc EXCEPT ![q] = "reserved"] /\ lock' = "query"
           /\ SessionBytes + file[q] <= MaxTotalBytes
        \/ pc' = [pc EXCEPT ![q] = "failing"] /\ lock' = lock
    BY <1>6 DEF Reserve, Goto
  <2>5. \A r \in Queries : pc'[r] = "reserved" =>
          r = q /\ lock' = "query" /\ SessionBytes + file[q] <= MaxTotalBytes
    BY <1>0, <2>3, <2>4
  <2>6. /\ {others, admitted, grown} \subseteq Nat /\ SessionBytes \in Nat /\ admitted = 0
        /\ UNCHANGED <<others, admitted, grown>> /\ lock' # "others"
    BY <2>1, <2>4, BytesTyped DEF QuotaInv, traffic
  <2>7. \A r \in Queries : pc'[r] = "reserved" => SessionBytes + file[r] <= MaxTotalBytes + grown
    BY <1>0, <2>5, <2>6, QueryConstants
  <2> QED
    BY <2>2, <2>5, <2>6, <2>7 DEF QuotaInv
<1>7. ASSUME NEW q \in Queries, Register(q) \/ (AddFails(q) /\ pc[q] = "reserved")
      PROVE  QuotaInv'
  <2>1. /\ pc[q] = "reserved" /\ arts' \in {arts, arts \cup {Spill(q)}} /\ lock' = "free"
        /\ UNCHANGED <<others, admitted, grown, file>>
        /\ \E to \in {"recording", "unrecorded"} : Goto(q, to)
    BY <1>7 DEF Register, AddFails, traffic, locals
  <2>2. /\ SessionBytes + file[q] <= MaxTotalBytes + grown /\ admitted = 0
        /\ \A r \in Queries : pc[r] = "reserved" => r = q
    BY <2>1 DEF QuotaInv
  <2>3. \A r \in Queries : pc'[r] # "reserved"
    BY <1>0, <2>1, <2>2 DEF Goto
  <2>4. /\ IsFiniteSet(ByteSet(Spills')) /\ SessionBytes' \in Nat
        /\ SessionBytes' <= SessionBytes + file[q]
    BY <2>1, BytesAdded
  <2>5. SessionBytes' <= MaxTotalBytes + grown
    BY <1>0, <2>2, <2>4, BytesTyped, QueryConstants DEF QuotaInv
  <2> QED
    BY <2>1, <2>2, <2>3, <2>4, <2>5, QueryConstants DEF QuotaInv
<1>8. ASSUME OthersReserve \/ OthersCopy \/ OthersRelease PROVE QuotaInv'
  <2>1. UNCHANGED <<arts, pc>> /\ Spills' = Spills /\ SessionBytes' = others' + Bytes(Spills)
    BY <1>8 DEF OthersReserve, OthersCopy, OthersRelease, Spills, SessionBytes
  <2>2. \A r \in Queries : pc'[r] # "reserved"
    BY <1>8, <2>1 DEF OthersReserve, OthersCopy, OthersRelease, QuotaInv
  <2>3. /\ {others, admitted, grown} \subseteq Nat /\ Bytes(Spills) \in Nat
        /\ SessionBytes = others + Bytes(Spills)
        /\ SessionBytes + admitted <= MaxTotalBytes + grown
    BY BytesTyped DEF QuotaInv
  <2>4. CASE OthersReserve
    <3>1. /\ admitted' \in 1 .. MaxTotalBytes /\ SessionBytes + admitted' <= MaxTotalBytes
          /\ UNCHANGED <<others, grown>> /\ lock' = "others"
      BY <2>4 DEF OthersReserve
    <3>2. SessionBytes' + admitted' <= MaxTotalBytes + grown'
      BY <2>1, <2>3, <3>1, QueryConstants
    <3> QED
      BY <2>1, <2>2, <2>3, <3>1, <3>2 DEF QuotaInv
  <2>5. CASE OthersCopy
    <3>1. PICK b \in 0 .. admitted, g \in 0 .. 1 :
            others' = others + b + g /\ admitted' = admitted - b /\ grown' = grown + g
      BY <2>5 DEF OthersCopy
    <3>2. {others', admitted', grown'} \subseteq Nat
      BY <2>3, <3>1
    <3>3. SessionBytes' + admitted' <= MaxTotalBytes + grown'
      BY <2>1, <2>3, <3>1, QueryConstants
    <3>4. lock' = "others"
      BY <2>5 DEF OthersCopy
    <3> QED
      BY <2>1, <2>2, <3>2, <3>3, <3>4 DEF QuotaInv
  <2>6. CASE OthersRelease
    <3>1. UNCHANGED <<others, grown>> /\ admitted' = 0
      BY <2>6 DEF OthersRelease
    <3>2. SessionBytes' + admitted' <= MaxTotalBytes + grown'
      BY <2>1, <2>3, <3>1, QueryConstants
    <3> QED
      BY <2>1, <2>2, <2>3, <3>1, <3>2 DEF QuotaInv
  <2> QED
    BY <1>8, <2>4, <2>5, <2>6
<1>9. CASE SourceEdited \/ UNCHANGED vars
  BY <1>1, <1>9 DEF SourceEdited, vars, shared, locals
<1> QED
  BY <1>2, <1>3, <1>4, <1>5, <1>6, <1>7, <1>8, <1>9 DEF Next, Proceed, StatementEnds

LEMMA Budgeted == Spec => []QuotaInv
<1>1. Init => QuotaInv
  <2> SUFFICES ASSUME Init PROVE QuotaInv
    OBVIOUS
  <2>1. arts = {} /\ others = 0 /\ admitted = 0 /\ grown = 0 /\ \A q \in Queries : pc[q] = "new"
    BY DEF Init
  <2>2. ByteSet(Spills) = {}
    BY <2>1 DEF ByteSet, Spills
  <2>3. IsFiniteSet(ByteSet(Spills)) /\ Bytes(Spills) = 0
    BY <2>2, FS_EmptySet DEF Bytes
  <2>4. SessionBytes = 0
    BY <2>1, <2>3 DEF SessionBytes, Spills
  <2> QED
    BY <2>1, <2>3, <2>4, QueryConstants DEF QuotaInv
<1> QED
  BY <1>1, QuotaStep, Inductive, PTL DEF Spec

(* However many spills and registrations of other calls run at the same    *)
(* time, the session's artifacts exceed its budget by no more than what    *)
(* files grew while they were copied.                                      *)
THEOREM SpillQuota == Spec => []QuotaHeld
<1>1. QuotaInv => QuotaHeld
  BY BytesTyped, QueryConstants DEF QuotaInv, QuotaHeld
<1> QED
  BY <1>1, Budgeted, PTL

(* Only records are written to the execution repository.                   *)
LEMMA RecordsStep ==
  IInv /\ recs \in [Queries -> Record \cup {NoRecord}] /\ [Next]_vars
    => recs' \in [Queries -> Record \cup {NoRecord}]
<1> SUFFICES ASSUME IInv, recs \in [Queries -> Record \cup {NoRecord}], [Next]_vars
             PROVE  recs' \in [Queries -> Record \cup {NoRecord}]
  OBVIOUS
<1>1. ASSUME NEW q \in Queries, RecordSuccess(q) \/ RecordFailure(q) \/ AddFails(q)
      PROVE  recs' \in [Queries -> Record \cup {NoRecord}]
  <2>1. \/ recs' = recs
        \/ recs' = [recs EXCEPT ![q] = Success(q)]
        \/ recs' = [recs EXCEPT ![q] = Failure(q)]
    BY <1>1 DEF RecordSuccess, RecordFailure, AddFails
  <2> QED
    BY <2>1, Written
<1>3. ASSUME NEW q \in Queries,
             Check(q) \/ Bind(q) \/ StartMaterialize(q) \/ StartSpill(q) \/ SpillChecked(q)
             \/ Reserve(q) \/ Register(q) \/ StatementEnds(q) \/ SpillGrows(q)
      PROVE  UNCHANGED recs
  BY <1>3 DEF Check, Bind, StartMaterialize, StartSpill, SpillChecked, Reserve, Register,
     StatementEnds, MaterializeEnds, MeasureEnds, PreviewEnds, SpillEnds, StatementFails,
     SpillGrows
<1>4. ASSUME NEW q \in Queries,
             Timers(q) \/ LateInterrupt(q) \/ WatchSees(q) \/ WatchInterrupts(q)
      PROVE  UNCHANGED recs
  BY <1>4 DEF Timers, TimerFires, TimerInterrupts, LateInterrupt, WatchSees, WatchInterrupts
<1>5. CASE SourceEdited \/ OthersReserve \/ OthersCopy \/ OthersRelease \/ UNCHANGED vars
  BY <1>5 DEF SourceEdited, OthersReserve, OthersCopy, OthersRelease, vars
<1> QED
  BY <1>1, <1>3, <1>4, <1>5 DEF Next, Proceed

(* The registry's lock, what other calls do with it, and the ceiling.      *)
RegistryTypes ==
  /\ lock \in {"free", "query", "others"}
  /\ admitted \in 0 .. MaxTotalBytes
  /\ grown \in 0 .. MaxEdits
  /\ calls \in 0 .. MaxCalls
  /\ ceiling \in [Queries -> 0 .. MaxFileBytes]

LEMMA RegistryStep == IInv /\ QuotaInv /\ RegistryTypes /\ [Next]_vars => RegistryTypes'
<1> SUFFICES ASSUME IInv, QuotaInv, RegistryTypes, [Next]_vars PROVE RegistryTypes'
  OBVIOUS
<1> USE DEF RegistryTypes, traffic, shared, locals
<1>1. ASSUME NEW q \in Queries,
             \/ Check(q) \/ Bind(q) \/ StartMaterialize(q) \/ SpillChecked(q) \/ Reserve(q)
             \/ Register(q) \/ RecordSuccess(q) \/ RecordFailure(q) \/ AddFails(q)
      PROVE  RegistryTypes'
  BY <1>1 DEF Check, Bind, StartMaterialize, SpillChecked, Reserve, Register, RecordSuccess,
     RecordFailure, AddFails
<1>2. ASSUME NEW q \in Queries, StatementEnds(q) \/ SpillGrows(q) PROVE RegistryTypes'
  BY <1>2 DEF StatementEnds, MaterializeEnds, MeasureEnds, PreviewEnds, SpillEnds,
     StatementFails, SpillGrows
<1>3. ASSUME NEW q \in Queries,
             Timers(q) \/ LateInterrupt(q) \/ WatchSees(q) \/ WatchInterrupts(q)
      PROVE  RegistryTypes'
  BY <1>3 DEF Timers, TimerFires, TimerInterrupts, LateInterrupt, WatchSees, WatchInterrupts
<1>4. ASSUME NEW q \in Queries, StartSpill(q) PROVE RegistryTypes'
  <2>1. Lesser(MaxFileBytes, Remaining) \in 0 .. MaxFileBytes
    BY BytesTyped, QueryConstants DEF Lesser, Remaining, Greater
  <2>2. /\ UNCHANGED <<lock, admitted, grown, calls>>
        /\ ceiling' = [ceiling EXCEPT ![q] = Lesser(MaxFileBytes, Remaining)]
    BY <1>4 DEF StartSpill
  <2> QED
    BY <2>1, <2>2
<1>5. CASE SourceEdited \/ OthersReserve \/ OthersCopy \/ OthersRelease \/ UNCHANGED vars
  BY <1>5, QueryConstants DEF SourceEdited, OthersReserve, OthersCopy, OthersRelease, vars
<1> QED
  BY <1>1, <1>2, <1>3, <1>4, <1>5 DEF Next, Proceed

(* The types of the variables; at most three timers of a query are late.   *)
THEOREM Typing == Spec => []TypeOK
<1> DEFINE RecsTyped == recs \in [Queries -> Record \cup {NoRecord}]
<1>1. Init => ClockInv /\ RecsTyped /\ RegistryTypes
  BY QueryConstants DEF Init, ClockInv, Armed, RegistryTypes
<1>2. IInv /\ ClockInv /\ RecsTyped /\ QuotaInv /\ RegistryTypes => TypeOK
  <2> SUFFICES ASSUME IInv, ClockInv, RecsTyped, QuotaInv, RegistryTypes PROVE TypeOK
    OBVIOUS
  <2>1. late \in [Queries -> 0 .. 3]
    BY DEF ClockInv, Armed
  <2>2. others \in 0 .. MaxTotalBytes + MaxEdits
    BY BytesTyped, QueryConstants DEF QuotaInv, RegistryTypes
  <2>3. /\ stmt \in [Queries -> {"idle", "running", "hit"}]
        /\ timer \in [Queries -> {"off", "armed", "firing", "fired"}]
        /\ watch \in [Queries -> {"off", "on", "firing"}]
        /\ over \in [Queries -> BOOLEAN]
    BY DEF ClockInv
  <2> QED
    BY <2>1, <2>2, <2>3 DEF IInv, Types, TypeOK, Stages, Unspilled, Statements, Over, RegistryTypes
<1>3. IInv /\ RecsTyped /\ [Next]_vars => RecsTyped'
  BY RecordsStep
<1> HIDE DEF RecsTyped
<1> QED
  BY <1>1, <1>2, <1>3, ClocksStep, RegistryStep, Budgeted, Inductive, PTL DEF Spec
-----------------------------------------------------------------------------
(* A set of numbers that is not empty has a least number: what an          *)
(* induction over numbers comes to, without an operator as parameter.      *)
LEMMA Least ==
  ASSUME NEW S \in SUBSET Nat, S # {}
  PROVE  \E m \in S : \A k \in S : m <= k
<1> DEFINE R == {p \in Nat \X Nat : p[1] < p[2]}
<1>1. IsWellFoundedOn(R, Nat)
  BY NatLessThanWellFounded DEF OpToRel
<1>2. \A k, m \in Nat : <<k, m>> \in R <=> k < m
  OBVIOUS
<1> HIDE DEF R
<1>3. PICK m \in S : \A k \in S : ~ (<<k, m>> \in R)
  BY <1>1, WFMin
<1>4. ASSUME NEW k \in S PROVE m <= k
  <2>1. ~ (k < m) /\ k \in Nat /\ m \in Nat
    BY <1>2, <1>3
  <2> QED
    BY <2>1
<1> QED
  BY <1>4

(* Induction, over the numbers of a set. *)
LEMMA Induct ==
  ASSUME NEW S, 0 \in S, \A n \in Nat : n \in S => n + 1 \in S
  PROVE  Nat \subseteq S
<1> SUFFICES ASSUME Nat \ S # {} PROVE FALSE
  OBVIOUS
<1>1. PICK m \in Nat \ S : \A k \in Nat \ S : m <= k
  BY Least
<1>2. m - 1 \in Nat
  OBVIOUS
<1> QED
  BY <1>1, <1>2

(* The values of a loop of N turns that starts from base.                  *)
Loop(g, V, base, N, next) ==
  /\ g \in [0 .. N -> V] /\ g[0] = base
  /\ \A n \in 1 .. N : g[n] = next[n][g[n - 1]]

(* A loop has such values, so that a function defined by recursion is      *)
(* what its equation says.                                                 *)
LEMMA Recursion ==
  ASSUME NEW V, NEW base, base \in V, NEW N, N \in Nat,
         NEW next, next \in [1 .. N -> [V -> V]]
  PROVE  \E g : Loop(g, V, base, N, next)
<1> DEFINE Upon(n) == \E g \in [0 .. n -> V] :
                        g[0] = base /\ \A i \in 1 .. n : g[i] = next[i][g[i - 1]]
           S == {n \in Nat : n <= N => Upon(n)}
<1>1. 0 \in S
  <2> DEFINE g == [i \in 0 .. 0 |-> base]
  <2>1. g \in [0 .. 0 -> V] /\ g[0] = base
    OBVIOUS
  <2>2. 1 .. 0 = {}
    OBVIOUS
  <2> HIDE DEF g
  <2>3. Upon(0)
    BY <2>1, <2>2
  <2> QED
    BY <2>3
<1>2. ASSUME NEW n \in Nat, n \in S PROVE n + 1 \in S
  <2> SUFFICES ASSUME n + 1 <= N PROVE Upon(n + 1)
    OBVIOUS
  <2>1. PICK g \in [0 .. n -> V] : g[0] = base /\ \A i \in 1 .. n : g[i] = next[i][g[i - 1]]
    BY <1>2
  <2> DEFINE h == [i \in 0 .. n + 1 |-> IF i <= n THEN g[i] ELSE next[i][g[n]]]
  <2>2. next[n + 1] \in [V -> V] /\ g[n] \in V
    OBVIOUS
  <2>3. h \in [0 .. n + 1 -> V] /\ h[0] = base
    BY <2>1, <2>2
  <2>4. ASSUME NEW i \in 1 .. n + 1 PROVE h[i] = next[i][h[i - 1]]
    <3>1. CASE i <= n
      BY <2>1, <3>1
    <3>2. CASE i = n + 1
      BY <3>2
    <3> QED
      BY <3>1, <3>2
  <2> HIDE DEF h
  <2> QED
    BY <2>3, <2>4
<1>3. Nat \subseteq S
  <2> HIDE DEF S
  <2> QED
    BY <1>1, <1>2, Induct
<1> QED
  BY <1>3 DEF Loop

(* Min and Max of FiniteSetsExt. *)
LEMMA MinIs == ASSUME NEW S \in SUBSET Nat, S # {} PROVE Min(S) \in S /\ \A k \in S : Min(S) <= k
  BY Least DEF Min

LEMMA MaxIs == ASSUME NEW a \in Nat, NEW b \in Nat PROVE Max({a, b}) = IF a <= b THEN b ELSE a
<1>1. PICK m \in {a, b} : \A k \in {a, b} : m >= k
  OBVIOUS
<1>2. Max({a, b}) \in {a, b} /\ \A k \in {a, b} : Max({a, b}) >= k
  BY <1>1 DEF Max
<1> QED BY <1>2

(* Files of so many bytes have a number of bytes. *)
LEMMA BytesFinite ==
  ASSUME NEW D, IsFiniteSet(D), NEW f \in [D -> Nat]
  PROVE  IsFiniteSet(ByteSet(f)) /\ Bytes(f) \in Nat
<1> DEFINE of == [x \in D |-> {x} \X (1 .. f[x])]
           T == {of[x] : x \in D}
<1>1. of \in Surjection(D, T)
  BY DEF Surjection
<1>2. ASSUME NEW x \in D PROVE IsFiniteSet(of[x])
  <2>1. IsFiniteSet({x})
    BY FS_Singleton
  <2>2. f[x] \in Int /\ 1 \in Int
    OBVIOUS
  <2>3. IsFiniteSet(1 .. f[x])
    BY <2>2, FS_Interval
  <2> QED
    BY <2>1, <2>3, FS_Product
<1>3. \A t \in T : IsFiniteSet(t)
  BY <1>2
<1>4. ByteSet(f) = UNION T
  BY DEF ByteSet
<1> HIDE DEF T, of
<1>5. IsFiniteSet(ByteSet(f))
  BY <1>1, <1>3, <1>4, FS_Surjection, FS_UNION
<1> QED
  BY <1>5, FS_CardinalityType DEF Bytes

(* A file more or less long changes their bytes as much. *)
LEMMA BytesChanged ==
  ASSUME NEW D, IsFiniteSet(D), NEW f \in [D -> Nat], NEW g \in [D -> Nat], NEW x \in D,
         \A y \in D \ {x} : f[y] = g[y]
  PROVE  Bytes(f) + g[x] = Bytes(g) + f[x]
<1> DEFINE h == [y \in D \ {x} |-> g[y]]
<1>1. h \in [D \ {x} -> Nat] /\ IsFiniteSet(D \ {x})
  BY FS_Subset
<1>2. \A y \in D \ {x} : f[y] = h[y] /\ g[y] = h[y]
  OBVIOUS
<1>3. f[x] \in Nat /\ g[x] \in Nat
  OBVIOUS
<1> HIDE DEF h
<1>4. IsFiniteSet(ByteSet(h)) /\ Bytes(h) \in Nat
  BY <1>1, BytesFinite
<1>5. DOMAIN f = DOMAIN h \cup {x} /\ DOMAIN g = DOMAIN h \cup {x} /\ DOMAIN h = D \ {x}
  BY <1>1
<1>6. Bytes(f) = Bytes(h) + f[x]
  BY <1>2, <1>3, <1>4, <1>5, BytesSplit
<1>7. Bytes(g) = Bytes(h) + g[x]
  BY <1>2, <1>3, <1>4, <1>5, BytesSplit
<1> QED
  BY <1>3, <1>4, <1>6, <1>7

(* Files of no more than c bytes. *)
LEMMA BytesBounded ==
  ASSUME NEW n \in Nat, NEW c \in Nat, NEW f \in [1 .. n -> Nat], \A i \in 1 .. n : f[i] <= c
  PROVE  Bytes(f) <= n * c
<1>1. ASSUME NEW m \in Nat PROVE IsFiniteSet(1 .. m) /\ Cardinality(1 .. m) = m
  <2>1. IsFiniteSet(1 .. m) /\ Cardinality(1 .. m) = IF 1 > m THEN 0 ELSE m - 1 + 1
    BY FS_Interval
  <2> QED
    BY <2>1
<1>2. IsFiniteSet((1 .. n) \X (1 .. c)) /\ Cardinality((1 .. n) \X (1 .. c)) = n * c
  <2>1. /\ IsFiniteSet(1 .. n) /\ Cardinality(1 .. n) = n
        /\ IsFiniteSet(1 .. c) /\ Cardinality(1 .. c) = c
    BY <1>1
  <2>2. /\ IsFiniteSet((1 .. n) \X (1 .. c))
        /\ Cardinality((1 .. n) \X (1 .. c)) = Cardinality(1 .. n) * Cardinality(1 .. c)
    BY <2>1, FS_Product
  <2> QED
    BY <2>1, <2>2
<1>3. ByteSet(f) \subseteq (1 .. n) \X (1 .. c)
  <2> SUFFICES ASSUME NEW b \in ByteSet(f) PROVE b \in (1 .. n) \X (1 .. c)
    OBVIOUS
  <2>1. PICK i \in 1 .. n : b \in {i} \X (1 .. f[i])
    BY DEF ByteSet
  <2>2. f[i] \in Nat /\ f[i] <= c
    OBVIOUS
  <2>3. 1 .. f[i] \subseteq 1 .. c
    BY <2>2
  <2> QED
    BY <2>1, <2>3
<1>4. Cardinality(ByteSet(f)) <= Cardinality((1 .. n) \X (1 .. c))
  BY <1>2, <1>3, FS_Subset
<1> QED
  BY <1>2, <1>4 DEF Bytes

(* Files that are no longer than others take no more. *)
LEMMA BytesOrdered ==
  ASSUME NEW D, IsFiniteSet(D), NEW f \in [D -> Nat], NEW g \in [D -> Nat],
         \A x \in D : f[x] <= g[x]
  PROVE  Bytes(f) <= Bytes(g)
<1>1. ByteSet(f) \subseteq ByteSet(g)
  <2> SUFFICES ASSUME NEW b \in ByteSet(f) PROVE b \in ByteSet(g)
    OBVIOUS
  <2>1. PICK x \in D : b \in {x} \X (1 .. f[x])
    BY DEF ByteSet
  <2>2. f[x] \in Nat /\ g[x] \in Nat /\ f[x] <= g[x]
    OBVIOUS
  <2>3. 1 .. f[x] \subseteq 1 .. g[x]
    BY <2>2
  <2> QED
    BY <2>1, <2>3 DEF ByteSet
<1>2. IsFiniteSet(ByteSet(g))
  BY BytesFinite
<1> QED
  BY <1>1, <1>2, FS_Subset DEF Bytes

-----------------------------------------------------------------------------
(* A set of numbers with a bound has a greatest one. *)
LEMMA Greatest ==
  ASSUME NEW S \in SUBSET Nat, S # {}, NEW b \in Nat, \A k \in S : k <= b
  PROVE  \E m \in S : \A k \in S : k <= m
<1> DEFINE U == {u \in Nat : \A k \in S : k <= u}
<1>1. U \in SUBSET Nat /\ U # {}
  OBVIOUS
<1>2. PICK m \in U : \A u \in U : m <= u
  <2> HIDE DEF U
  <2> QED
    BY <1>1, Least
<1>3. m \in S
  <2> SUFFICES ASSUME m \notin S PROVE FALSE
    OBVIOUS
  <2>1. \A k \in S : k <= m - 1
    OBVIOUS
  <2>2. m - 1 \in Nat
    <3>1. PICK k \in S : k <= m - 1
      BY <2>1
    <3> QED
      BY <3>1
  <2>3. m - 1 \in U
    BY <2>1, <2>2
  <2> QED
    BY <1>2, <2>3
<1> QED
  BY <1>3

(* A cell takes at least its characters, and less with less of them. *)
LEMMA CellSize ==
  ASSUME NEW c \in Cell
  PROVE  /\ CellBytes(c) \in Nat /\ c.chars <= CellBytes(c)
         /\ \A m \in Nat : /\ [c EXCEPT !.chars = m] \in Cell
                           /\ m < c.chars => CellBytes([c EXCEPT !.chars = m]) < CellBytes(c)
<1>1. c.chars \in Nat /\ c.per \in Nat /\ c.per >= 1
  BY DEF Cell
<1>2. \A m \in Nat : m * c.per \in Nat /\ m <= m * c.per
  BY <1>1
<1>3. ASSUME NEW m \in Nat, m < c.chars PROVE m * c.per < c.chars * c.per
  BY <1>1, <1>3
<1>4. Quotes(c) \in Nat /\ \A m \in Nat : Quotes([c EXCEPT !.chars = m]) = Quotes(c)
  BY DEF Quotes, Cell
<1>5. ASSUME NEW m \in Nat, m < c.chars PROVE CellBytes([c EXCEPT !.chars = m]) < CellBytes(c)
  <2> DEFINE d == [c EXCEPT !.chars = m]
  <2>1. d.chars = m /\ d.per = c.per /\ Quotes(d) = Quotes(c)
    BY <1>4 DEF Cell
  <2> HIDE DEF d
  <2>2. CellBytes(d) = m * c.per + Quotes(c)
    BY <2>1 DEF CellBytes
  <2>3. m * c.per < c.chars * c.per /\ m * c.per \in Nat /\ c.chars * c.per \in Nat
    BY <1>1, <1>2, <1>3, <1>5
  <2>4. CellBytes(d) < CellBytes(c)
    BY <1>4, <2>2, <2>3 DEF CellBytes
  <2> QED
    BY <2>4 DEF d
<1>6. \A m \in Nat : [c EXCEPT !.chars = m] \in Cell
  BY DEF Cell
<1> QED
  BY <1>1, <1>2, <1>4, <1>5, <1>6 DEF CellBytes

(* What the cells of a row take. *)
Sizes(row) == [k \in DOMAIN row |-> CellBytes(row[k]) + Separator]

(* A row takes what its cells take. *)
LEMMA RowSize ==
  ASSUME NEW n \in Nat, NEW row \in [1 .. n -> Cell]
  PROVE  /\ Sizes(row) \in [1 .. n -> Nat] /\ IsFiniteSet(1 .. n)
         /\ RowBytes(row) = Bytes(Sizes(row)) /\ RowBytes(row) \in Nat
<1>1. \A k \in 1 .. n : CellBytes(row[k]) \in Nat
  BY CellSize
<1>2. Sizes(row) \in [1 .. n -> Nat]
  BY <1>1 DEF Sizes, Separator
<1>3. IsFiniteSet(1 .. n)
  BY FS_Interval
<1>4. RowBytes(row) = Bytes(Sizes(row))
  BY DEF RowBytes, Sizes
<1> QED
  BY <1>2, <1>3, <1>4, BytesFinite

(* No cell has more characters than its row has bytes. *)
LEMMA CellInRow ==
  ASSUME NEW n \in Nat, NEW row \in [1 .. n -> Cell], NEW k \in 1 .. n
  PROVE  row[k].chars <= RowBytes(row)
<1> DEFINE f == Sizes(row)
           g == [f EXCEPT ![k] = 0]
<1>1. f \in [1 .. n -> Nat] /\ IsFiniteSet(1 .. n) /\ Bytes(f) = RowBytes(row)
  BY RowSize
<1>2. row[k].chars <= CellBytes(row[k]) /\ CellBytes(row[k]) \in Nat /\ row[k].chars \in Nat
  BY CellSize DEF Cell
<1>3. f[k] = CellBytes(row[k]) + 2
  BY DEF Sizes, Separator
<1> HIDE DEF f
<1>4. g \in [1 .. n -> Nat] /\ g[k] = 0 /\ \A y \in (1 .. n) \ {k} : g[y] = f[y]
  BY <1>1
<1> HIDE DEF g
<1>5. Bytes(g) \in Nat /\ Bytes(f) \in Nat
  BY <1>1, <1>4, BytesFinite
<1>6. Bytes(g) + f[k] = Bytes(f) + g[k]
  <2> DEFINE D == 1 .. n
  <2>1. f \in [D -> Nat] /\ g \in [D -> Nat] /\ IsFiniteSet(D) /\ k \in D
        /\ \A y \in D \ {k} : g[y] = f[y]
    BY <1>1, <1>4
  <2> HIDE DEF D
  <2> QED
    BY ZenonT(60), <2>1, BytesChanged
<1>7. Bytes(g) + (CellBytes(row[k]) + 2) = RowBytes(row)
  BY <1>1, <1>2, <1>3, <1>4, <1>5, <1>6
<1>8. RowBytes(row) \in Nat
  BY <1>1, <1>5
<1> QED
  BY <1>2, <1>5, <1>7, <1>8

(* _shrink_row halves a string when there is one. *)
LEMMA LongestIs ==
  ASSUME NEW n \in Nat, NEW row \in [1 .. n -> Cell], Strings(row) # {}
  PROVE  Longest(row) \in Strings(row)
<1> DEFINE S == {row[k].chars : k \in Strings(row)}
<1>1. \A k \in Strings(row) : k \in 1 .. n /\ row[k].chars \in Nat
  BY DEF Strings, Cell
<1>2. S \in SUBSET Nat /\ S # {}
  BY <1>1
<1>3. \A c \in S : c <= RowBytes(row)
  <2>1. \A k \in 1 .. n : row[k].chars <= RowBytes(row)
    BY CellInRow
  <2> QED
    BY <1>1, <2>1
<1>4. PICK c \in S : \A d \in S : d <= c
  <2> HIDE DEF S
  <2> QED
    <3>1. RowBytes(row) \in Nat
      BY RowSize
    <3> QED
      BY <1>2, <1>3, <3>1, Greatest
<1> DEFINE T == {k \in Strings(row) : row[k].chars = c}
<1>5. T \in SUBSET Nat /\ T # {}
  BY <1>1
<1>6. PICK k \in T : \A l \in T : k <= l
  <2> HIDE DEF T
  <2> QED
    BY <1>5, Least
<1>7. \A l \in Strings(row) : row[k].chars > row[l].chars \/ (row[k].chars = row[l].chars /\ k <= l)
  <2> SUFFICES ASSUME NEW l \in Strings(row)
               PROVE  row[k].chars > row[l].chars \/ (row[k].chars = row[l].chars /\ k <= l)
    OBVIOUS
  <2>1. row[k].chars = c /\ row[l].chars <= c /\ c \in Nat /\ row[l].chars \in Nat
    BY <1>1, <1>2, <1>4
  <2>2. row[l].chars = c => k <= l
    BY <1>6
  <2> HIDE DEF S, T
  <2> QED
    BY <2>1, <2>2
<1> QED
  BY <1>7 DEF Longest

(* A row with no more characters than another one in any cell.             *)
Clips(new, old) ==
  /\ DOMAIN new = DOMAIN old
  /\ \A k \in DOMAIN old : /\ new[k].kind = old[k].kind /\ new[k].per = old[k].per
                           /\ new[k].chars <= old[k].chars

(* Halving leaves a row alone when it fits or has no string left, and      *)
(* otherwise takes bytes off it.                                           *)
LEMMA HalveIs ==
  ASSUME NEW n \in Nat, NEW row \in [1 .. n -> Cell], NEW bytes \in Nat
  PROVE  LET new == Halve(row, bytes) IN
         /\ new \in [1 .. n -> Cell] /\ Clips(new, row)
         /\ RowBytes(row) <= bytes \/ Strings(row) = {} => new = row
         /\ ~ (RowBytes(row) <= bytes \/ Strings(row) = {}) => RowBytes(new) < RowBytes(row)
<1> DEFINE k == Longest(row)
           m == row[k].chars \div 2
           c == [row[k] EXCEPT !.chars = m]
           new == [row EXCEPT ![k] = c]
<1>1. CASE RowBytes(row) <= bytes \/ Strings(row) = {}
  <2>1. Halve(row, bytes) = row
    BY <1>1 DEF Halve
  <2>2. Clips(row, row)
    <3>1. \A l \in 1 .. n : row[l].chars \in Nat
      BY DEF Cell
    <3> QED
      BY <3>1 DEF Clips
  <2> QED
    BY <1>1, <2>1, <2>2
<1>2. CASE ~ (RowBytes(row) <= bytes \/ Strings(row) = {})
  <2>1. k \in Strings(row)
    BY <1>2, LongestIs
  <2>2. k \in 1 .. n /\ row[k] \in Cell /\ row[k].chars \in Nat /\ row[k].chars > 0
    BY <2>1 DEF Strings, Cell
  <2> HIDE DEF k
  <2>3. m \in Nat /\ m < row[k].chars
    BY <2>2
  <2> HIDE DEF m
  <2>4. c \in Cell /\ CellBytes(c) < CellBytes(row[k])
        /\ CellBytes(c) \in Nat /\ CellBytes(row[k]) \in Nat
    BY <2>2, <2>3, CellSize
  <2>5. c.chars = m /\ c.kind = row[k].kind /\ c.per = row[k].per
    BY <2>2 DEF Cell
  <2>6. Halve(row, bytes) = new
    BY <1>2 DEF Halve, k, m
  <2> HIDE DEF c
  <2>7. new \in [1 .. n -> Cell] /\ new[k] = c /\ \A l \in (1 .. n) \ {k} : new[l] = row[l]
    BY <2>2, <2>4
  <2> HIDE DEF new
  <2>8. Clips(new, row)
    <3>1. \A l \in 1 .. n : row[l].chars \in Nat
      BY DEF Cell
    <3>2. \A l \in 1 .. n : new[l].kind = row[l].kind /\ new[l].per = row[l].per
                            /\ new[l].chars <= row[l].chars
      BY <2>2, <2>3, <2>5, <2>7, <3>1
    <3> QED
      BY <2>7, <3>2 DEF Clips
  <2>9. RowBytes(new) < RowBytes(row)
    <3> DEFINE D == 1 .. n
               f == Sizes(new)
               g == Sizes(row)
    <3>1. f \in [D -> Nat] /\ g \in [D -> Nat] /\ IsFiniteSet(D)
          /\ Bytes(f) = RowBytes(new) /\ Bytes(g) = RowBytes(row)
          /\ Bytes(f) \in Nat /\ Bytes(g) \in Nat
      BY <2>7, RowSize
    <3>2. f[k] = CellBytes(c) + 2 /\ g[k] = CellBytes(row[k]) + 2 /\ k \in D
          /\ \A y \in D \ {k} : f[y] = g[y]
      BY <2>2, <2>7 DEF Sizes, Separator
    <3> HIDE DEF D, f, g
    <3>3. Bytes(f) + g[k] = Bytes(g) + f[k]
      BY SMTT(40), <3>1, <3>2, BytesChanged
    <3>4. Bytes(f) + (CellBytes(row[k]) + 2) = Bytes(g) + (CellBytes(c) + 2)
      BY <3>2, <3>3
    <3>5. Bytes(f) < Bytes(g)
      BY <2>4, <3>1, <3>4
    <3> QED
      BY <3>1, <3>5
  <2> QED
    BY <1>2, <2>6, <2>7, <2>8, <2>9
<1> QED
  BY <1>1, <1>2

(* Characters only go. *)
LEMMA ClipsTransitive ==
  ASSUME NEW n \in Nat, NEW a \in [1 .. n -> Cell], NEW b \in [1 .. n -> Cell],
         NEW c \in [1 .. n -> Cell], Clips(a, b), Clips(b, c)
  PROVE  Clips(a, c)
<1>1. \A k \in 1 .. n : a[k].chars \in Nat /\ b[k].chars \in Nat /\ c[k].chars \in Nat
  BY DEF Cell
<1> QED
  BY <1>1 DEF Clips

(* _shrink_row ends with a row that fits or has no string left.            *)
LEMMA ShrunkIs ==
  ASSUME NEW n \in Nat, NEW row \in [1 .. n -> Cell], NEW bytes \in Nat
  PROVE  LET new == Shrunk(row, bytes) IN
         /\ new \in [1 .. n -> Cell] /\ Clips(new, row)
         /\ RowBytes(new) <= bytes \/ Strings(new) = {}
<1> DEFINE V == [1 .. n -> Cell]
           N == RowBytes(row)
           next == [i \in 1 .. N |-> [v \in V |-> Halve(v, bytes)]]
           f == CHOOSE g : g = [i \in 0 .. N |-> IF i = 0 THEN row ELSE Halve(g[i - 1], bytes)]
<1>1. N \in Nat /\ row \in V
  BY RowSize
<1>2. next \in [1 .. N -> [V -> V]]
  BY HalveIs
<1>3. Shrunk(row, bytes) = f[N]
  BY DEF Shrunk
<1>4. f = [i \in 0 .. N |-> IF i = 0 THEN row ELSE Halve(f[i - 1], bytes)]
  <2>1. \A i \in 1 .. N : \A v \in V : next[i][v] = Halve(v, bytes)
    OBVIOUS
  <2> HIDE DEF N, V, next, f
  <2>2. PICK g : Loop(g, V, row, N, next)
    BY <1>1, <1>2, Recursion, Zenon
  <2>3. ASSUME NEW i \in 1 .. N PROVE g[i] = Halve(g[i - 1], bytes)
    <3>1. g[i - 1] \in V
      BY <1>1, <2>2 DEF Loop
    <3> QED
      BY <2>1, <2>2, <3>1 DEF Loop
  <2>4. g = [i \in 0 .. N |-> IF i = 0 THEN row ELSE Halve(g[i - 1], bytes)]
    <3>1. g = [i \in 0 .. N |-> g[i]] /\ g[0] = row
      BY <2>2 DEF Loop
    <3>2. \A i \in 0 .. N : i = 0 \/ i \in 1 .. N
      BY <1>1
    <3>3. \A i \in 0 .. N : g[i] = IF i = 0 THEN row ELSE Halve(g[i - 1], bytes)
      BY <2>3, <3>1, <3>2, Zenon
    <3>4. [i \in 0 .. N |-> g[i]] = [i \in 0 .. N |-> IF i = 0 THEN row ELSE Halve(g[i - 1], bytes)]
      BY <3>3, Zenon
    <3> QED
      BY <3>1, <3>4, Zenon
  <2> QED
    BY <2>4 DEF f
<1> HIDE DEF f
<1>5. f[0] = row /\ \A i \in 1 .. N : f[i] = Halve(f[i - 1], bytes)
  BY <1>1, <1>4
<1> DEFINE Inv(i) == /\ f[i] \in V /\ Clips(f[i], row)
                     /\ RowBytes(f[i]) <= bytes \/ Strings(f[i]) = {} \/ RowBytes(f[i]) + i <= N
           S == {i \in Nat : i <= N => Inv(i)}
<1>6. 0 \in S
  <2>1. Clips(row, row)
    <3>1. \A l \in 1 .. n : row[l].chars \in Nat
      BY DEF Cell
    <3> QED
      BY <3>1 DEF Clips
  <2>2. RowBytes(row) + 0 <= N
    BY <1>1
  <2> QED
    BY <1>1, <1>5, <2>1, <2>2
<1>7. ASSUME NEW i \in Nat, i \in S PROVE i + 1 \in S
  <2> SUFFICES ASSUME i + 1 <= N PROVE Inv(i + 1)
    OBVIOUS
  <2> DEFINE old == f[i]
             new == f[i + 1]
  <2>1. Inv(i) /\ new = Halve(old, bytes)
    <3>1. i <= N /\ i + 1 \in 1 .. N /\ (i + 1) - 1 = i
      BY <1>1
    <3> HIDE DEF N
    <3> QED
      BY <1>5, <1>7, <3>1
  <2> HIDE DEF old, new
  <2>2. old \in V /\ Clips(old, row)
        /\ (RowBytes(old) <= bytes \/ Strings(old) = {} \/ RowBytes(old) + i <= N)
    BY <2>1 DEF old
  <2>3. /\ new \in V /\ Clips(new, old)
        /\ RowBytes(old) <= bytes \/ Strings(old) = {} => new = old
        /\ ~ (RowBytes(old) <= bytes \/ Strings(old) = {}) => RowBytes(new) < RowBytes(old)
    BY <2>1, <2>2, HalveIs
  <2>4. Clips(new, row)
    BY <2>2, <2>3, ClipsTransitive
  <2>5. RowBytes(new) \in Nat /\ RowBytes(old) \in Nat
    BY <2>2, <2>3, RowSize
  <2>6. RowBytes(new) <= bytes \/ Strings(new) = {} \/ RowBytes(new) + (i + 1) <= N
    <3>1. CASE RowBytes(old) <= bytes \/ Strings(old) = {}
      BY <2>3, <3>1
    <3>2. CASE ~ (RowBytes(old) <= bytes \/ Strings(old) = {})
      <4>1. RowBytes(new) < RowBytes(old) /\ RowBytes(old) + i <= N
        BY <2>2, <2>3, <3>2
      <4>2. N \in Nat
        BY <1>1
      <4> HIDE DEF N
      <4> QED
        BY <2>5, <4>1, <4>2
    <3> QED
      BY <3>1, <3>2
  <2> QED
    BY <2>3, <2>4, <2>6 DEF new
<1>8. N \in S
  <2> HIDE DEF S
  <2> QED
    BY <1>1, <1>6, <1>7, Induct
<1>9. Inv(N)
  BY <1>1, <1>8
<1> DEFINE new == f[N]
<1>10. /\ new \in V /\ Clips(new, row)
       /\ RowBytes(new) <= bytes \/ Strings(new) = {} \/ RowBytes(new) + N <= N
  BY <1>9
<1> HIDE DEF new
<1>11. RowBytes(new) \in Nat
  BY <1>10, RowSize
<1>12. RowBytes(new) <= bytes \/ Strings(new) = {}
  <2>1. N \in Nat
    BY <1>1
  <2> HIDE DEF N
  <2>2. RowBytes(new) + N <= N => RowBytes(new) <= bytes
    BY <1>11, <2>1
  <2> QED
    BY <1>10, <2>2
<1> QED
  BY <1>3, <1>10, <1>12 DEF new

(* The least of two. *)
LEMMA MinPair ==
  ASSUME NEW a \in Nat, NEW b \in Nat
  PROVE  Min({a, b}) = IF a <= b THEN a ELSE b
<1>1. {a, b} \in SUBSET Nat /\ {a, b} # {}
  OBVIOUS
<1>2. Min({a, b}) \in {a, b} /\ \A k \in {a, b} : Min({a, b}) <= k
  BY <1>1, MinIs
<1> QED
  BY <1>2

(* A cell is trimmed exactly when it loses something.                      *)
LEMMA CellCut ==
  ASSUME NEW c \in Cell, NEW cap \in Nat
  PROVE  LET p == Projected(c, cap) t == Trimmed(p, cap) IN
         /\ p \in Cell /\ t \in Cell /\ Entire(c) \in Cell
         /\ Trims(p, cap) <=> t # Entire(c)
         /\ t.chars <= Entire(c).chars
         /\ t.kind = "number" <=> c.kind = "number"
         /\ c.kind = "number" => t = c
<1> DEFINE m == Min({c.chars, cap + 1})
<1>1. c.chars \in Nat /\ c.per \in Nat \ {0} /\ c.kind \in Kinds
      /\ c = [kind |-> c.kind, chars |-> c.chars, per |-> c.per]
  BY DEF Cell
<1>2. m = IF c.chars <= cap + 1 THEN c.chars ELSE cap + 1
  BY <1>1, MinPair
<1>3. Min({c.chars, c.chars + 1}) = c.chars
  BY <1>1, MinPair
<1> HIDE DEF m
<1>4. CASE c.kind = "text"
  <2> DEFINE p == [c EXCEPT !.chars = m]
  <2>1. Projected(c, cap) = p /\ Entire(c) = c
    BY <1>4 DEF Projected, Entire, m
  <2>2. p = [kind |-> "text", chars |-> m, per |-> c.per] /\ m \in Nat
    BY <1>1, <1>2, <1>4
  <2>3. Trims(p, cap) <=> m > cap
    BY <2>2 DEF Trims
  <2>4. Trimmed(p, cap) = [kind |-> "text", chars |-> IF m > cap THEN cap ELSE m, per |-> c.per]
    BY <2>2, <2>3 DEF Trimmed
  <2> HIDE DEF p
  <2> QED
    BY <1>1, <1>2, <1>4, <2>1, <2>2, <2>3, <2>4 DEF Cell, Kinds
<1>5. CASE c.kind = "blob"
  <2> DEFINE p == [kind |-> "text", chars |-> 2 * m, per |-> 1]
  <2>1. Projected(c, cap) = p /\ Entire(c) = [kind |-> "text", chars |-> 2 * c.chars, per |-> 1]
    BY <1>3, <1>5 DEF Projected, Entire, m
  <2>2. m \in Nat
    BY <1>1, <1>2
  <2>3. Trims(p, cap) <=> 2 * m > cap
    BY <2>2 DEF Trims
  <2>4. Trimmed(p, cap) = [kind |-> "text", chars |-> IF 2 * m > cap THEN cap ELSE 2 * m, per |-> 1]
    BY <2>2, <2>3 DEF Trimmed
  <2>5. p \in Cell /\ Entire(c) \in Cell /\ Trimmed(p, cap) \in Cell
    BY <1>1, <2>1, <2>2, <2>4 DEF Cell, Kinds
  <2>6. (IF 2 * m > cap THEN cap ELSE 2 * m) <= 2 * c.chars
        /\ (2 * m > cap <=> (IF 2 * m > cap THEN cap ELSE 2 * m) # 2 * c.chars)
    BY <1>1, <1>2
  <2> HIDE DEF p
  <2> QED
    BY <1>5, <2>1, <2>3, <2>4, <2>5, <2>6
<1>6. CASE c.kind \in {"number", "string"}
  <2>1. Projected(c, cap) = c /\ Entire(c) = c
    BY <1>6 DEF Projected, Entire
  <2>2. Trims(c, cap) <=> c.kind = "string" /\ c.chars > cap
    BY <1>6 DEF Trims
  <2>3. Trimmed(c, cap) = IF Trims(c, cap) THEN [kind |-> c.kind, chars |-> cap, per |-> c.per] ELSE c
    BY <1>1 DEF Trimmed
  <2> QED
    BY <1>1, <1>6, <2>1, <2>2, <2>3 DEF Cell
<1> QED
  BY <1>1, <1>4, <1>5, <1>6 DEF Kinds

(* The row a result shows whole. *)
EntireRow(row, n) == [k \in 1 .. n |-> Entire(row[k])]

(* The row the projection selects. *)
ProjectedRow(row, n, cap) == [k \in 1 .. n |-> Projected(row[k], cap)]

(* A row is trimmed exactly when it loses something. *)
LEMMA RowCut ==
  ASSUME NEW n \in Nat, NEW m \in Nat, m <= n, NEW row \in [1 .. n -> Cell], NEW cap \in Nat
  PROVE  LET p == ProjectedRow(row, m, cap) t == TrimmedRow(p, cap) e == EntireRow(row, m) IN
         /\ t \in [1 .. m -> Cell] /\ e \in [1 .. m -> Cell]
         /\ TrimsRow(p, cap) <=> t # e
         /\ \A k \in 1 .. m : /\ t[k].chars <= e[k].chars
                              /\ t[k].kind = "number" <=> row[k].kind = "number"
                              /\ row[k].kind = "number" => t[k] = row[k]
<1> DEFINE p == ProjectedRow(row, m, cap)
           t == TrimmedRow(p, cap)
           e == EntireRow(row, m)
<1>1. \A k \in 1 .. m : row[k] \in Cell
  OBVIOUS
<1>2. p = [k \in 1 .. m |-> Projected(row[k], cap)] /\ e = [k \in 1 .. m |-> Entire(row[k])]
  BY DEF ProjectedRow, EntireRow
<1> HIDE DEF p, e
<1>3. t = [k \in 1 .. m |-> Trimmed(p[k], cap)]
  BY <1>2 DEF TrimmedRow
<1>4. TrimsRow(p, cap) <=> \E k \in 1 .. m : Trims(p[k], cap)
  BY <1>2 DEF TrimsRow
<1> HIDE DEF t
<1>5. ASSUME NEW k \in 1 .. m
      PROVE  /\ t[k] \in Cell /\ e[k] \in Cell
             /\ Trims(p[k], cap) <=> t[k] # e[k]
             /\ t[k].chars <= e[k].chars
             /\ t[k].kind = "number" <=> row[k].kind = "number"
             /\ row[k].kind = "number" => t[k] = row[k]
  <2> DEFINE c == row[k]
             q == p[k]
             u == t[k]
             f == e[k]
  <2>1. q = Projected(c, cap) /\ f = Entire(c) /\ u = Trimmed(q, cap) /\ c \in Cell
    BY <1>1, <1>2, <1>3
  <2> HIDE DEF c, q, u, f
  <2>2. /\ u \in Cell /\ f \in Cell
        /\ Trims(q, cap) <=> u # f
        /\ u.chars <= f.chars
        /\ u.kind = "number" <=> c.kind = "number"
        /\ c.kind = "number" => u = c
    BY <2>1, CellCut
  <2> QED
    BY <2>2 DEF c, q, u, f
<1>6. t \in [1 .. m -> Cell] /\ e \in [1 .. m -> Cell]
  BY <1>2, <1>3, <1>5
<1>7. t # e <=> \E k \in 1 .. m : t[k] # e[k]
  BY <1>6
<1> QED
  BY <1>4, <1>5, <1>6, <1>7 DEF t, p, e

(* What the elements of a sequence take. *)
Total(s, size) == Bytes([i \in DOMAIN s |-> size[s[i]]])

(* One more in a sequence takes its size more. *)
LEMMA AppendSum ==
  ASSUME NEW S, NEW size \in [S -> Nat], NEW kept \in Seq(S), NEW x \in S
  PROVE  /\ Total(kept, size) \in Nat
         /\ Total(Append(kept, x), size) = Total(kept, size) + size[x]
<1> DEFINE n == Len(kept)
           longer == Append(kept, x)
           g == [i \in DOMAIN kept |-> size[kept[i]]]
           f == [i \in DOMAIN longer |-> size[longer[i]]]
           last == n + 1
<1>1. n \in Nat /\ DOMAIN kept = 1 .. n /\ \A i \in 1 .. n : kept[i] \in S
  OBVIOUS
<1>2. DOMAIN longer = 1 .. n + 1 /\ longer[n + 1] = x /\ \A i \in 1 .. n : longer[i] = kept[i]
  BY AppendProperties
<1> HIDE DEF n, longer
<1>3. g \in [1 .. n -> Nat] /\ DOMAIN g = 1 .. n
  BY <1>1
<1>4. /\ f[last] = size[x] /\ f[last] \in Nat
      /\ DOMAIN f = DOMAIN g \cup {last} /\ last \notin DOMAIN g
      /\ \A i \in DOMAIN g : f[i] = g[i]
  BY <1>1, <1>2
<1> HIDE DEF f, g, last
<1>5. IsFiniteSet(ByteSet(g)) /\ Bytes(g) \in Nat
  <2>1. IsFiniteSet(1 .. n)
    BY <1>1, FS_Interval
  <2> QED
    BY <1>3, <2>1, BytesFinite
<1>6. Bytes(f) = Bytes(g) + f[last]
  BY <1>4, <1>5, BytesSplit
<1> QED
  BY <1>4, <1>5, <1>6 DEF f, g, longer, Total

(* A row more in a preview takes its bytes more, and no row takes none. *)
LEMMA AppendBytes ==
  ASSUME NEW m \in Nat, NEW kept \in Seq([1 .. m -> Cell]), NEW row \in [1 .. m -> Cell]
  PROVE  /\ PreviewBytes(kept) \in Nat
         /\ PreviewBytes(Append(kept, row)) = PreviewBytes(kept) + RowBytes(row) + 2
<1> DEFINE R == [1 .. m -> Cell]
           size == [w \in R |-> RowBytes(w) + Separator]
           longer == Append(kept, row)
<1>1. size \in [R -> Nat] /\ size[row] = RowBytes(row) + 2 /\ RowBytes(row) \in Nat
  BY RowSize DEF Separator
<1>2. kept \in Seq(R) /\ longer \in Seq(R) /\ row \in R
  BY AppendProperties
<1>3. \A s \in Seq(R) : PreviewBytes(s) = Total(s, size)
  <2> SUFFICES ASSUME NEW s \in Seq(R)
               PROVE  PreviewBytes(s) = Total(s, size)
    OBVIOUS
  <2>1. \A i \in DOMAIN s : s[i] \in R
    OBVIOUS
  <2>2. \A i \in DOMAIN s : size[s[i]] = RowBytes(s[i]) + Separator
    BY <2>1
  <2> HIDE DEF size
  <2>3. [i \in DOMAIN s |-> size[s[i]]] = [i \in DOMAIN s |-> RowBytes(s[i]) + Separator]
    BY <2>2
  <2> QED
    BY <2>3 DEF PreviewBytes, Total
<1> HIDE DEF size, R
<1>4. Total(kept, size) \in Nat /\ Total(longer, size) = Total(kept, size) + size[row]
  BY <1>1, <1>2, AppendSum
<1>5. PreviewBytes(kept) = Total(kept, size) /\ PreviewBytes(longer) = Total(longer, size)
  BY <1>2, <1>3
<1> HIDE DEF longer
<1>6. /\ PreviewBytes(kept) \in Nat
      /\ PreviewBytes(longer) = PreviewBytes(kept) + RowBytes(row) + 2
  BY <1>1, <1>4, <1>5
<1> QED
  BY <1>6 DEF longer

LEMMA NoBytes == PreviewBytes(<<>>) = 0
<1>1. ByteSet([i \in DOMAIN <<>> |-> RowBytes(<<>>[i]) + Separator]) = {}
  BY DEF ByteSet
<1> QED
  BY <1>1, FS_EmptySet DEF PreviewBytes, Bytes

(* The first numbers tell how many they are. *)
LEMMA Upto == \A a, b \in Nat : 1 .. a = 1 .. b => a = b
<1> SUFFICES ASSUME NEW a \in Nat, NEW b \in Nat, 1 .. a = 1 .. b, a # b PROVE FALSE
  OBVIOUS
<1>1. (a \in 1 .. a \/ a = 0) /\ (b \in 1 .. b \/ b = 0)
  OBVIOUS
<1> QED
  BY <1>1

(* A function over the first numbers is a sequence. *)
LEMMA SeqOf ==
  ASSUME NEW S, NEW N \in Nat, NEW f \in [1 .. N -> S]
  PROVE  f \in Seq(S) /\ Len(f) = N /\ DOMAIN f = 1 .. N
<1>1. f \in Seq(S)
  BY SeqDef
<1>2. DOMAIN f = 1 .. Len(f) /\ Len(f) \in Nat
  BY <1>1, LenProperties
<1>3. DOMAIN f = 1 .. N
  OBVIOUS
<1> QED
  BY <1>1, <1>2, <1>3, Upto

(* A row that is cut is not a row that is whole. *)
LEMMA ClippedDiffers ==
  ASSUME NEW m \in Nat, NEW new \in [1 .. m -> Cell], NEW old \in [1 .. m -> Cell],
         NEW whole \in [1 .. m -> Cell], Clips(new, old), new # old,
         \A k \in 1 .. m : old[k].chars <= whole[k].chars
  PROVE  new # whole
<1>1. PICK k \in 1 .. m : new[k] # old[k]
  OBVIOUS
<1>2. /\ new[k].kind = old[k].kind /\ new[k].per = old[k].per /\ new[k].chars <= old[k].chars
      /\ old[k].chars <= whole[k].chars
  BY DEF Clips
<1>3. new[k] \in Cell /\ old[k] \in Cell /\ whole[k] \in Cell
  OBVIOUS
<1> DEFINE a == new[k]
           b == old[k]
           c == whole[k]
<1>4. a.kind = b.kind /\ a.per = b.per /\ a.chars <= b.chars /\ b.chars <= c.chars /\ a # b
      /\ a \in Cell /\ b \in Cell /\ c \in Cell
  BY <1>1, <1>2, <1>3
<1> HIDE DEF a, b, c
<1>5. a.chars # b.chars
  <2>1. /\ a = [kind |-> a.kind, chars |-> a.chars, per |-> a.per]
        /\ b = [kind |-> b.kind, chars |-> b.chars, per |-> b.per]
    BY <1>4 DEF Cell
  <2> QED
    BY <1>4, <2>1
<1>6. a.chars \in Nat /\ b.chars \in Nat /\ c.chars \in Nat
  BY <1>4 DEF Cell
<1>7. a.chars < c.chars
  BY <1>4, <1>5, <1>6
<1>8. a # c
  BY <1>6, <1>7
<1> QED
  BY <1>8 DEF a, c

-----------------------------------------------------------------------------
(* A row w of m cells and what comes of it, row, when it is projected.     *)
CutFrom(row, w, m, cap) ==
  LET new == TrimmedRow(row, cap) IN
  /\ new \in [1 .. m -> Cell] /\ w \in [1 .. m -> Cell]
  /\ TrimsRow(row, cap) <=> new # w
  /\ \A k \in 1 .. m : new[k].chars <= w[k].chars

(* Without the characters of its strings, a row fits in the budget.        *)
Fitting(row, m, cap) ==
  \A short \in [1 .. m -> Cell] :
    Clips(short, TrimmedRow(row, cap)) /\ Strings(short) = {} => RowBytes(short) <= Budget

(* Rows that are not the rows of the result. *)
Differ(kept, whole) == \E j \in 1 .. Len(kept) : kept[j] # whole[j]

(* Where the loop of _fetch_preview_bounded may be. *)
FetchStates(m) == [kept : Seq([1 .. m -> Cell]), used : Nat, truncated : BOOLEAN, over : BOOLEAN]

(* What has been fetched after i rows. *)
FetchInv(p, i, m, whole) ==
  /\ p \in FetchStates(m)
  /\ PreviewBytes(p.kept) <= Budget + 2 * Len(p.kept)
  /\ ~ p.over => /\ Len(p.kept) = i /\ PreviewBytes(p.kept) = p.used + 2 * i
                 /\ p.truncated <=> Differ(p.kept, whole)
  /\ p.over => /\ p.truncated /\ p.kept # <<>> /\ Len(p.kept) <= i
               /\ Len(p.kept) < i \/ Differ(p.kept, whole)

(* A turn of the loop takes it to such a state. *)
LEMMA FetchTyped ==
  ASSUME NEW m \in Nat, NEW cap \in Nat, NEW p \in FetchStates(m), NEW row,
         TrimmedRow(row, cap) \in [1 .. m -> Cell]
  PROVE  Fetch(p, row, cap) \in FetchStates(m)
<1> DEFINE new == TrimmedRow(row, cap)
           more == [kept |-> Append(p.kept, new), used |-> p.used + RowBytes(new),
                    truncated |-> p.truncated \/ TrimsRow(row, cap), over |-> FALSE]
           last == [kept |-> IF p.kept = <<>> THEN <<ShrinkRow(new)>> ELSE p.kept,
                    used |-> p.used, truncated |-> TRUE, over |-> TRUE]
<1>1. Budget \in Nat
  BY PreviewConstants
<1>2. new \in [1 .. m -> Cell] /\ p.kept \in Seq([1 .. m -> Cell]) /\ p.used \in Nat
      /\ p.truncated \in BOOLEAN
  BY DEF FetchStates
<1>3. Fetch(p, row, cap) \in {p, more, last}
  BY DEF Fetch
<1> HIDE DEF new
<1>4. RowBytes(new) \in Nat
  BY <1>2, RowSize
<1>5. Append(p.kept, new) \in Seq([1 .. m -> Cell])
  BY <1>2, AppendProperties
<1>6. p.used + RowBytes(new) \in Nat
  BY <1>2, <1>4
<1>7. (p.truncated \/ TrimsRow(row, cap)) \in BOOLEAN
  OBVIOUS
<1>8. more \in FetchStates(m)
  BY <1>5, <1>6, <1>7 DEF FetchStates
<1>9. ShrinkRow(new) \in [1 .. m -> Cell]
  BY <1>1, <1>2, ShrunkIs DEF ShrinkRow
<1>10. <<ShrinkRow(new)>> \in Seq([1 .. m -> Cell])
  BY <1>9
<1>11. last \in FetchStates(m)
  BY <1>2, <1>10 DEF FetchStates
<1> QED
  BY <1>3, <1>8, <1>11

(* A turn of the loop keeps what has been fetched in the budget, and       *)
(* tells what it cuts.                                                     *)
LEMMA FetchKeeps ==
  ASSUME NEW m \in Nat, NEW cap \in Nat, NEW whole, NEW i \in Nat, NEW p, FetchInv(p, i, m, whole),
         NEW row, CutFrom(row, whole[i + 1], m, cap), Fitting(row, m, cap)
  PROVE  FetchInv(Fetch(p, row, cap), i + 1, m, whole)
<1> DEFINE R == [1 .. m -> Cell]
           new == TrimmedRow(row, cap)
           w == whole[i + 1]
           q == Fetch(p, row, cap)
<1> SUFFICES FetchInv(q, i + 1, m, whole)
  OBVIOUS
<1>1. /\ new \in R /\ w \in R
      /\ TrimsRow(row, cap) <=> new # w
      /\ \A k \in 1 .. m : new[k].chars <= w[k].chars
  BY DEF CutFrom
<1>2. p \in FetchStates(m) /\ q \in FetchStates(m)
  BY <1>1, FetchTyped DEF FetchInv
<1>3. p.kept \in Seq(R) /\ Len(p.kept) \in Nat /\ p.used \in Nat /\ Budget \in Nat
  BY <1>2, PreviewConstants DEF FetchStates
<1>4. RowBytes(new) \in Nat
  BY <1>1, RowSize
<1>5. CASE p.over
  <2>1. q = p
    BY <1>5 DEF Fetch
  <2> HIDE DEF q
  <2> QED
    BY <1>2, <1>3, <1>5, <2>1 DEF FetchInv
<1>6. CASE ~ p.over /\ p.used + RowBytes(new) <= Budget
  <2> DEFINE kept == Append(p.kept, new)
             cut == p.truncated \/ TrimsRow(row, cap)
  <2>1. q = [kept |-> kept, used |-> p.used + RowBytes(new), truncated |-> cut, over |-> FALSE]
    BY <1>6 DEF Fetch
  <2>2. q.kept = kept /\ q.used = p.used + RowBytes(new) /\ ~ q.over /\ q.truncated = cut
    <3> HIDE DEF q, kept, cut
    <3> QED
      BY <2>1
  <2> HIDE DEF q
  <2>3. /\ Len(p.kept) = i /\ PreviewBytes(p.kept) = p.used + 2 * i
        /\ p.truncated <=> Differ(p.kept, whole)
    BY <1>6 DEF FetchInv
  <2>4. PreviewBytes(kept) = p.used + RowBytes(new) + 2 * (i + 1)
    <3>1. PreviewBytes(kept) = PreviewBytes(p.kept) + RowBytes(new) + 2
      BY <1>1, <1>3, AppendBytes
    <3> QED
      BY <1>3, <1>4, <2>3, <3>1
  <2>5. Len(kept) = i + 1 /\ kept[i + 1] = new /\ \A j \in 1 .. i : kept[j] = p.kept[j]
    BY SMTT(40), <1>1, <1>3, <2>3, AppendProperties
  <2> HIDE DEF new, w, kept
  <2>6. Differ(kept, whole) <=> Differ(p.kept, whole) \/ new # w
    <3>1. 1 .. i + 1 = (1 .. i) \cup {i + 1}
      OBVIOUS
    <3> QED
      BY <2>3, <2>5, <3>1 DEF Differ, w
  <2>7. Len(q.kept) = i + 1 /\ PreviewBytes(q.kept) = q.used + 2 * (i + 1)
    BY <1>3, <1>4, <2>2, <2>4, <2>5
  <2>8. PreviewBytes(q.kept) <= Budget + 2 * Len(q.kept)
    BY <1>3, <1>4, <1>6, <2>2, <2>7
  <2>9. q.truncated <=> Differ(q.kept, whole)
    BY <1>1, <2>2, <2>3, <2>6
  <2> QED
    BY <1>2, <2>2, <2>7, <2>8, <2>9 DEF FetchInv
<1>7. CASE ~ p.over /\ ~ (p.used + RowBytes(new) <= Budget) /\ p.kept # <<>>
  <2>1. q = [kept |-> p.kept, used |-> p.used, truncated |-> TRUE, over |-> TRUE]
    BY <1>7 DEF Fetch
  <2>2. q.kept = p.kept /\ q.over /\ q.truncated
    BY <2>1
  <2> HIDE DEF q
  <2>3. Len(p.kept) = i /\ PreviewBytes(p.kept) <= Budget + 2 * Len(p.kept)
    BY <1>7 DEF FetchInv
  <2> QED
    BY <1>2, <1>3, <1>7, <2>2, <2>3 DEF FetchInv
<1>8. CASE ~ p.over /\ ~ (p.used + RowBytes(new) <= Budget) /\ p.kept = <<>>
  <2> DEFINE short == ShrinkRow(new)
  <2>1. q = [kept |-> <<short>>, used |-> p.used, truncated |-> TRUE, over |-> TRUE]
    BY <1>8 DEF Fetch
  <2>2. q.kept = <<short>> /\ q.over /\ q.truncated
    BY <2>1
  <2>3. i = 0 /\ p.used = 0
    <3>1. i = 0 /\ PreviewBytes(p.kept) = p.used + 2 * i
      BY <1>8 DEF FetchInv
    <3> QED
      BY <1>3, <1>8, <3>1, NoBytes
  <2>4. RowBytes(new) > Budget
    BY <1>3, <1>4, <1>8, <2>3
  <2>5. short \in R /\ Clips(short, new) /\ (RowBytes(short) <= Budget \/ Strings(short) = {})
    BY <1>1, <1>3, ShrunkIs DEF ShrinkRow
  <2>6. RowBytes(short) <= Budget
    BY <2>5 DEF Fitting
  <2>7. RowBytes(short) \in Nat
    BY <2>5, RowSize
  <2> HIDE DEF q, short, new, w
  <2>8. short # w
    <3>1. short # new
      BY <1>3, <1>4, <2>4, <2>6
    <3> QED
      BY <1>1, <2>5, <3>1, ClippedDiffers
  <2>9. PreviewBytes(<<short>>) = RowBytes(short) + 2
    <3>1. <<short>> = Append(<<>>, short) /\ <<>> \in Seq(R)
      OBVIOUS
    <3>2. PreviewBytes(Append(<<>>, short)) = PreviewBytes(<<>>) + RowBytes(short) + 2
      BY <2>5, <3>1, AppendBytes
    <3> QED
      BY <2>7, <3>1, <3>2, NoBytes
  <2>10. Len(<<short>>) = 1 /\ <<short>>[1] = short /\ <<short>> # <<>>
    OBVIOUS
  <2>11. Differ(<<short>>, whole)
    BY <2>3, <2>8, <2>10 DEF Differ, w
  <2>12. PreviewBytes(q.kept) <= Budget + 2 * Len(q.kept) /\ Len(q.kept) <= i + 1
    BY <1>3, <2>2, <2>3, <2>6, <2>7, <2>9, <2>10
  <2> QED
    BY <1>2, <2>2, <2>10, <2>11, <2>12 DEF FetchInv
<1> QED
  BY <1>5, <1>6, <1>7, <1>8

(* Induction up to N. *)
LEMMA Throughout ==
  ASSUME NEW N \in Nat, NEW S, 0 \in S, \A i \in Nat : i < N /\ i \in S => i + 1 \in S
  PROVE  N \in S
<1> DEFINE T == {i \in Nat : i <= N => i \in S}
<1>1. 0 \in T
  OBVIOUS
<1>2. \A i \in Nat : i \in T => i + 1 \in T
  OBVIOUS
<1> HIDE DEF T
<1>3. N \in T
  BY <1>1, <1>2, Induct
<1> QED
  BY <1>3 DEF T

(* What the whole loop has fetched. *)
LEMMA FetchedIs ==
  ASSUME NEW m \in Nat, NEW cap \in Nat, NEW rows, Len(rows) \in Nat, NEW whole,
         \A i \in 1 .. Len(rows) : CutFrom(rows[i], whole[i], m, cap) /\ Fitting(rows[i], m, cap)
  PROVE  /\ Min({Limit, Len(rows)}) = IF Limit <= Len(rows) THEN Limit ELSE Len(rows)
         /\ FetchInv(Fetched(rows, cap), Min({Limit, Len(rows)}), m, whole)
<1> DEFINE V == FetchStates(m)
           N == Min({Limit, Len(rows)})
           start == [kept |-> <<>>, used |-> 0, truncated |-> FALSE, over |-> FALSE]
           next == [i \in 1 .. N |-> [v \in V |-> Fetch(v, rows[i], cap)]]
           f == CHOOSE g : g = [i \in 0 .. N |-> IF i = 0 THEN start ELSE Fetch(g[i - 1], rows[i], cap)]
<1>1. N = (IF Limit <= Len(rows) THEN Limit ELSE Len(rows)) /\ N \in Nat /\ N <= Len(rows)
  <2>1. Limit \in Nat
    BY PreviewConstants
  <2> QED
    BY <2>1, MinPair
<1>2. start \in V
  BY DEF FetchStates
<1>3. Fetched(rows, cap) = f[N]
  BY DEF Fetched
<1> HIDE DEF N, V, start
<1>4. ASSUME NEW i \in 1 .. N, NEW v \in V PROVE Fetch(v, rows[i], cap) \in V
  <2>1. i \in 1 .. Len(rows)
    BY <1>1
  <2>2. TrimmedRow(rows[i], cap) \in [1 .. m -> Cell]
    BY <2>1 DEF CutFrom
  <2> QED
    BY <2>2, FetchTyped DEF V
<1>5. next \in [1 .. N -> [V -> V]]
  BY <1>4
<1>6. f = [i \in 0 .. N |-> IF i = 0 THEN start ELSE Fetch(f[i - 1], rows[i], cap)]
  <2>1. \A i \in 1 .. N : \A v \in V : next[i][v] = Fetch(v, rows[i], cap)
    OBVIOUS
  <2> HIDE DEF next, f
  <2>2. PICK g : Loop(g, V, start, N, next)
    BY <1>1, <1>2, <1>5, Recursion, Zenon
  <2>3. ASSUME NEW i \in 1 .. N PROVE g[i] = Fetch(g[i - 1], rows[i], cap)
    <3>1. g[i - 1] \in V
      BY <1>1, <2>2 DEF Loop
    <3> QED
      BY <2>1, <2>2, <3>1 DEF Loop
  <2>4. g = [i \in 0 .. N |-> IF i = 0 THEN start ELSE Fetch(g[i - 1], rows[i], cap)]
    <3>1. g = [i \in 0 .. N |-> g[i]] /\ g[0] = start
      BY <2>2 DEF Loop
    <3>2. \A i \in 0 .. N : i = 0 \/ i \in 1 .. N
      BY <1>1
    <3>3. \A i \in 0 .. N : g[i] = IF i = 0 THEN start ELSE Fetch(g[i - 1], rows[i], cap)
      BY <2>3, <3>1, <3>2, Zenon
    <3>4. [i \in 0 .. N |-> g[i]] = [i \in 0 .. N |-> IF i = 0 THEN start ELSE Fetch(g[i - 1], rows[i], cap)]
      BY <3>3, Zenon
    <3> QED
      BY <3>1, <3>4, Zenon
  <2> QED
    BY <2>4 DEF f
<1> HIDE DEF f, next
<1>7. f[0] = start /\ \A i \in Nat : i < N => f[i + 1] = Fetch(f[i], rows[i + 1], cap)
  BY <1>1, <1>6
<1> DEFINE S == {i \in Nat : FetchInv(f[i], i, m, whole)}
<1>8. 0 \in S
  <2>1. start.kept = <<>> /\ start.used = 0 /\ ~ start.truncated /\ ~ start.over
    BY DEF start
  <2>2. Len(<<>>) = 0 /\ ~ Differ(<<>>, whole)
    BY DEF Differ
  <2>3. Budget \in Nat
    BY PreviewConstants
  <2>4. FetchInv(start, 0, m, whole)
    BY <1>2, <2>1, <2>2, <2>3, NoBytes DEF FetchInv, V
  <2> QED
    BY <1>7, <2>4
<1>9. ASSUME NEW i \in Nat, i < N, i \in S PROVE i + 1 \in S
  <2>1. i + 1 \in 1 .. Len(rows)
    BY <1>1, <1>9
  <2>2. CutFrom(rows[i + 1], whole[i + 1], m, cap) /\ Fitting(rows[i + 1], m, cap)
    BY <2>1
  <2>3. FetchInv(f[i], i, m, whole)
    BY <1>9
  <2>4. FetchInv(Fetch(f[i], rows[i + 1], cap), i + 1, m, whole)
    BY <2>2, <2>3, FetchKeeps
  <2> QED
    BY <1>7, <1>9, <2>4
<1>10. N \in S
  <2> HIDE DEF S
  <2> QED
    BY <1>1, <1>8, <1>9, Throughout
<1> QED
  BY <1>1, <1>3, <1>10 DEF N

(* Quotients. *)
LEMMA Quotients ==
  ASSUME NEW a \in Nat, NEW b \in Nat \ {0}
  PROVE  a \div b \in Nat /\ (a \div b) * b <= a /\ (b <= a => a \div b >= 1)
  OBVIOUS

(* At least a column is shown, and no more than the scalars leave room     *)
(* for.                                                                    *)
LEMMA ShownIs ==
  ASSUME NEW n \in Nat \ {0}
  PROVE  /\ Shown(n) \in 1 .. n /\ Shown(n) * ScalarBytes <= Budget
         /\ CellCap(n) \in Nat
<1> DEFINE d == Budget \div ScalarBytes
<1>1. Budget \in Nat \ {0} /\ CellChars \in Nat /\ MaxColumns \in Nat \ {0} /\ MinCell \in Nat
      /\ ScalarBytes <= Budget /\ 4 <= ScalarBytes
  BY PreviewConstants DEF Separator
<1>2. ScalarBytes \in Nat \ {0}
  BY PreviewConstants
<1>3. d \in Nat /\ d * ScalarBytes <= Budget /\ d >= 1
  <2>1. Budget \in Nat
    BY <1>1
  <2>2. d \in Nat /\ d * ScalarBytes <= Budget /\ (ScalarBytes <= Budget => d >= 1)
    BY <1>2, <2>1, Quotients
  <2> HIDE DEF d
  <2> QED
    BY <1>1, <2>2
<1> HIDE DEF d
<1>4. Max({1, d}) = d
  BY <1>3, MaxIs
<1>5. {n, MaxColumns, d} \in SUBSET Nat /\ {n, MaxColumns, d} # {}
  BY <1>1, <1>3
<1>6. /\ Shown(n) \in {n, MaxColumns, d}
      /\ Shown(n) <= n /\ Shown(n) <= d
  BY <1>4, <1>5, MinIs DEF Shown, d
<1>7. Shown(n) \in 1 .. n
  BY <1>1, <1>3, <1>6
<1>8. Shown(n) * ScalarBytes <= d * ScalarBytes
  BY <1>2, <1>3, <1>6, <1>7
<1>9. Shown(n) * ScalarBytes <= Budget
  BY <1>1, <1>2, <1>3, <1>7, <1>8
<1>10. 2 * Shown(n) \in Nat \ {0}
  BY <1>7
<1>11. Budget \div (2 * Shown(n)) \in Nat
  BY <1>1, <1>10, Quotients
<1>12. CellCap(n) \in Nat
  BY <1>1, <1>11, MinPair, MaxIs DEF CellCap
<1> QED
  BY <1>7, <1>9, <1>12

(* A cell with less characters takes no more. *)
LEMMA CellClipped ==
  ASSUME NEW c \in Cell, NEW d \in Cell, c.kind = d.kind, c.per = d.per, c.chars <= d.chars
  PROVE  CellBytes(c) <= CellBytes(d)
<1> DEFINE x == c.chars y == d.chars p == d.per
<1>1. x \in Nat /\ y \in Nat /\ p \in Nat /\ x <= y
  BY DEF Cell
<1>2. CellBytes(c) = x * p + Quotes(c) /\ CellBytes(d) = y * p + Quotes(d)
  BY DEF CellBytes
<1>3. Quotes(c) = Quotes(d) /\ Quotes(d) \in Nat
  BY DEF Quotes
<1> HIDE DEF x, y, p
<1>4. x * p <= y * p /\ x * p \in Nat /\ y * p \in Nat
  BY <1>1
<1> QED
  BY <1>2, <1>3, <1>4

(* Without strings, what is shown of a row fits in the budget. *)
LEMMA ScalarsFit ==
  ASSUME NEW n \in Nat \ {0}, NEW row \in [1 .. n -> Cell], NEW cap \in Nat,
         \A k \in 1 .. n : row[k].kind = "number" => CellBytes(row[k]) + Separator <= ScalarBytes
  PROVE  Fitting(ProjectedRow(row, Shown(n), cap), Shown(n), cap)
<1> DEFINE m == Shown(n)
           new == TrimmedRow(ProjectedRow(row, m, cap), cap)
<1> SUFFICES ASSUME NEW short \in [1 .. m -> Cell], Clips(short, new), Strings(short) = {}
             PROVE  RowBytes(short) <= Budget
  BY DEF Fitting
<1>1. m \in 1 .. n /\ m * ScalarBytes <= Budget /\ m \in Nat /\ m <= n
  <2>1. m \in 1 .. n /\ m * ScalarBytes <= Budget
    BY ShownIs
  <2> HIDE DEF m
  <2> QED
    BY <2>1
<1>2. Budget \in Nat /\ ScalarBytes \in Nat /\ 4 <= ScalarBytes
  BY PreviewConstants DEF Separator
<1> HIDE DEF m
<1>3. /\ new \in [1 .. m -> Cell]
      /\ \A k \in 1 .. m : row[k].kind = "number" => new[k] = row[k]
      /\ \A k \in 1 .. m : new[k].kind = "number" <=> row[k].kind = "number"
  <2>1. m \in Nat /\ m <= n /\ n \in Nat
    BY <1>1
  <2> DEFINE p == ProjectedRow(row, m, cap)
             e == EntireRow(row, m)
  <2>2. /\ TrimmedRow(p, cap) \in [1 .. m -> Cell] /\ e \in [1 .. m -> Cell]
        /\ TrimsRow(p, cap) <=> TrimmedRow(p, cap) # e
        /\ \A k \in 1 .. m : /\ TrimmedRow(p, cap)[k].chars <= e[k].chars
                             /\ TrimmedRow(p, cap)[k].kind = "number" <=> row[k].kind = "number"
                             /\ row[k].kind = "number" => TrimmedRow(p, cap)[k] = row[k]
    BY <2>1, RowCut
  <2> QED
    BY <2>2
<1> HIDE DEF new
<1>4. ASSUME NEW k \in 1 .. m PROVE CellBytes(short[k]) + 2 <= ScalarBytes
  <2>1. /\ short[k].kind = new[k].kind /\ short[k].per = new[k].per
        /\ short[k].chars <= new[k].chars
    BY <1>3 DEF Clips
  <2>2. short[k] \in Cell /\ new[k] \in Cell /\ k \in 1 .. n
    BY <1>1, <1>3
  <2>3. CASE short[k].kind = "number"
    <3>1. CellBytes(short[k]) <= CellBytes(new[k])
      BY <2>1, <2>2, CellClipped
    <3>2. CellBytes(new[k]) + 2 <= ScalarBytes
      BY <1>3, <2>1, <2>2, <2>3 DEF Separator
    <3>3. CellBytes(short[k]) \in Nat /\ CellBytes(new[k]) \in Nat
      BY <2>2, CellSize
    <3> QED
      BY <1>2, <3>1, <3>2, <3>3
  <2>4. CASE short[k].kind # "number"
    <3>1. short[k].chars \in Nat /\ short[k].per \in Nat
      BY <2>2 DEF Cell
    <3>2. ~ (short[k].chars > 0)
      BY <2>4 DEF Strings
    <3>3. short[k].chars = 0
      BY <3>1, <3>2
    <3>4. CellBytes(short[k]) = 2
      BY <2>4, <3>1, <3>3 DEF CellBytes, Quotes
    <3> QED
      BY <1>2, <3>4
  <2> QED
    BY <2>3, <2>4
<1>5. /\ Sizes(short) \in [1 .. m -> Nat] /\ RowBytes(short) = Bytes(Sizes(short))
      /\ RowBytes(short) \in Nat
  BY <1>1, RowSize
<1>6. \A k \in 1 .. m : Sizes(short)[k] <= ScalarBytes
  BY <1>4 DEF Sizes, Separator
<1>7. Bytes(Sizes(short)) <= m * ScalarBytes
  BY <1>1, <1>2, <1>5, <1>6, BytesBounded
<1> QED
  BY <1>1, <1>2, <1>5, <1>7

(* A result has rows of cells, and its numbers are small. *)
LEMMA ResultIs ==
  ASSUME NEW r \in Results
  PROVE  /\ r.columns \in Nat \ {0} /\ r.rows \in Seq([1 .. r.columns -> Cell])
         /\ Len(r.rows) \in Nat /\ DOMAIN r.rows = 1 .. Len(r.rows)
         /\ \A i \in 1 .. Len(r.rows) :
              /\ r.rows[i] \in [1 .. r.columns -> Cell]
              /\ \A k \in 1 .. r.columns : r.rows[i][k].kind = "number" =>
                   CellBytes(r.rows[i][k]) + Separator <= ScalarBytes
<1>1. /\ r.columns \in Nat \ {0} /\ r.rows \in Seq([1 .. r.columns -> Cell])
      /\ \A i \in DOMAIN r.rows : \A k \in 1 .. r.columns :
           r.rows[i][k].kind = "number" => CellBytes(r.rows[i][k]) + Separator <= ScalarBytes
  BY PreviewConstants
<1> DEFINE rows == r.rows
           S == [1 .. r.columns -> Cell]
<1> HIDE DEF S
<1>2. rows \in Seq(S)
  BY <1>1 DEF S
<1> HIDE DEF rows
<1>3. Len(rows) \in Nat /\ DOMAIN rows = 1 .. Len(rows) /\ rows \in [1 .. Len(rows) -> S]
  BY <1>2, LenProperties
<1>4. \A i \in 1 .. Len(rows) : rows[i] \in S
  BY <1>3
<1> QED
  BY <1>1, <1>3, <1>4 DEF rows, S

(* The first m columns of a result, whole.                                 *)
FirstOf(r, m) == [i \in DOMAIN r.rows |-> EntireRow(r.rows[i], m)]

(* The rows of a result, projected. *)
LEMMA RowsCut ==
  ASSUME NEW r \in Results, NEW m \in 1 .. r.columns, NEW cap \in Nat
  PROVE  LET rows == ProjectedRows(r, m, cap) IN
         /\ Len(rows) = Len(r.rows) /\ m \in Nat
         /\ \A i \in 1 .. Len(r.rows) :
              /\ rows[i] = ProjectedRow(r.rows[i], m, cap)
              /\ CutFrom(rows[i], FirstOf(r, m)[i], m, cap)
<1> DEFINE rows == ProjectedRows(r, m, cap)
           N == Len(r.rows)
           R == [1 .. m -> Cell]
<1>1. /\ m \in Nat /\ m <= r.columns /\ r.columns \in Nat
      /\ N \in Nat /\ DOMAIN r.rows = 1 .. N
      /\ \A i \in 1 .. N : r.rows[i] \in [1 .. r.columns -> Cell]
  <2>1. r.columns \in Nat \ {0}
    BY ResultIs
  <2>2. m \in Nat /\ m <= r.columns
    BY <2>1
  <2> QED
    BY <2>1, <2>2, ResultIs
<1>2. rows = [i \in 1 .. N |-> ProjectedRow(r.rows[i], m, cap)]
  BY <1>1 DEF ProjectedRows, ProjectedRow
<1> HIDE DEF rows, N
<1>3. DOMAIN rows = 1 .. N /\ \A i \in 1 .. N : rows[i] = ProjectedRow(r.rows[i], m, cap)
  BY <1>2
<1>4. Len(rows) = N
  <2> DEFINE S == {ProjectedRow(r.rows[i], m, cap) : i \in 1 .. N}
  <2>1. rows \in [1 .. N -> S]
    BY <1>2
  <2> HIDE DEF S
  <2> QED
    BY <1>1, <2>1, SeqOf
<1>5. ASSUME NEW i \in 1 .. N PROVE CutFrom(rows[i], FirstOf(r, m)[i], m, cap)
  <2> DEFINE row == r.rows[i]
             p == ProjectedRow(row, m, cap)
             e == EntireRow(row, m)
  <2>1. row \in [1 .. r.columns -> Cell]
    BY <1>1
  <2> HIDE DEF row
  <2>2. /\ TrimmedRow(p, cap) \in [1 .. m -> Cell] /\ e \in [1 .. m -> Cell]
        /\ TrimsRow(p, cap) <=> TrimmedRow(p, cap) # e
        /\ \A k \in 1 .. m : TrimmedRow(p, cap)[k].chars <= e[k].chars
    BY <1>1, <2>1, RowCut
  <2>3. CutFrom(p, e, m, cap)
    BY <2>2 DEF CutFrom
  <2>4. FirstOf(r, m)[i] = e
    BY <1>1 DEF FirstOf, row
  <2>5. rows[i] = p
    BY <1>3 DEF row
  <2> QED
    BY <2>3, <2>4, <2>5
<1> QED
  BY <1>1, <1>3, <1>4, <1>5 DEF rows, N

(* A sequence is another one if they are as long and nowhere differ.       *)
LEMMA WholeOrNot ==
  ASSUME NEW kept, kept = [i \in 1 .. Len(kept) |-> kept[i]], Len(kept) \in Nat,
         NEW N \in Nat, NEW whole, whole = [i \in 1 .. N |-> whole[i]]
  PROVE  kept # whole <=> Len(kept) # N \/ Differ(kept, whole)
<1>1. DOMAIN kept = 1 .. Len(kept) /\ DOMAIN whole = 1 .. N
  OBVIOUS
<1>2. kept = whole => Len(kept) = N /\ ~ Differ(kept, whole)
  BY <1>1, Upto DEF Differ
<1>3. Len(kept) = N /\ ~ Differ(kept, whole) => kept = whole
  BY DEF Differ
<1> QED
  BY <1>2, <1>3

(* The preview of any result. *)
LEMMA PreviewIs ==
  ASSUME NEW r \in Results
  PROVE  /\ PreviewBytes(Preview(r).kept) <= Budget + 2 * Len(Preview(r).kept)
         /\ r.rows # <<>> => Preview(r).kept # <<>>
         /\ Preview(r).truncated <=> Preview(r).kept # AllOf(r) \/ Shown(r.columns) < r.columns
<1> DEFINE n == r.columns
           m == Shown(n)
           cap == CellCap(n)
           N == Len(r.rows)
           L == Min({Limit, N})
           rows == ProjectedRows(r, m, cap)
           whole == FirstOf(r, m)
           p == Fetched(rows, cap)
<1>1. /\ n \in Nat \ {0} /\ N \in Nat /\ DOMAIN r.rows = 1 .. N
      /\ \A i \in 1 .. N : /\ r.rows[i] \in [1 .. n -> Cell]
                           /\ \A k \in 1 .. n : r.rows[i][k].kind = "number" =>
                                CellBytes(r.rows[i][k]) + Separator <= ScalarBytes
  BY ResultIs
<1>2. m \in 1 .. n /\ cap \in Nat
  BY <1>1, ShownIs
<1>3. /\ Len(rows) = N /\ m \in Nat
      /\ \A i \in 1 .. N : /\ rows[i] = ProjectedRow(r.rows[i], m, cap)
                           /\ CutFrom(rows[i], whole[i], m, cap)
  BY <1>2, RowsCut
<1>4. \A i \in 1 .. N : Fitting(rows[i], m, cap)
  <2> SUFFICES ASSUME NEW i \in 1 .. N PROVE Fitting(rows[i], m, cap)
    OBVIOUS
  <2>1. Fitting(ProjectedRow(r.rows[i], m, cap), m, cap)
    BY <1>1, <1>2, ScalarsFit
  <2> QED
    BY <1>3, <2>1
<1>5. L = (IF Limit <= N THEN Limit ELSE N) /\ FetchInv(p, L, m, whole)
  <2>1. Len(rows) \in Nat /\ \A i \in 1 .. Len(rows) :
          CutFrom(rows[i], whole[i], m, cap) /\ Fitting(rows[i], m, cap)
    BY <1>1, <1>3, <1>4
  <2> HIDE DEF rows, whole, m, cap, p
  <2>2. Min({Limit, Len(rows)}) = (IF Limit <= Len(rows) THEN Limit ELSE Len(rows))
        /\ FetchInv(Fetched(rows, cap), Min({Limit, Len(rows)}), m, whole)
    BY <1>2, <1>3, <2>1, FetchedIs
  <2> QED
    BY <1>3, <2>2 DEF p
<1>6. Preview(r) = [kept |-> p.kept, truncated |-> p.truncated \/ m < n \/ N > Limit]
  BY DEF Preview
<1>7. Limit \in Nat \ {0}
  BY PreviewConstants
<1>8. m = n => whole = AllOf(r)
  BY <1>1 DEF FirstOf, AllOf, EntireRow
<1>9. DOMAIN whole = 1 .. N /\ DOMAIN AllOf(r) = 1 .. N
  BY <1>1 DEF FirstOf, AllOf
<1>10. N = 0 <=> r.rows = <<>>
  BY <1>1, ResultIs
<1> HIDE DEF p, whole, rows, cap, m, L, N, n
<1>11. /\ p.kept \in Seq([1 .. m -> Cell]) /\ p.truncated \in BOOLEAN /\ p.over \in BOOLEAN
       /\ PreviewBytes(p.kept) <= Budget + 2 * Len(p.kept)
       /\ ~ p.over => /\ Len(p.kept) = L
                      /\ p.truncated <=> Differ(p.kept, whole)
       /\ p.over => /\ p.truncated /\ p.kept # <<>> /\ Len(p.kept) <= L
                    /\ Len(p.kept) < L \/ Differ(p.kept, whole)
  BY <1>5 DEF FetchInv, FetchStates
<1> DEFINE kept == p.kept
           cut == p.truncated
<1>12. /\ Len(kept) \in Nat /\ kept = [i \in 1 .. Len(kept) |-> kept[i]]
       /\ kept = <<>> <=> Len(kept) = 0
  BY <1>11, EmptySeq, LenProperties
<1>13. L \in Nat /\ (L = 0 <=> N = 0) /\ L <= N /\ (L < N => N > Limit) /\ (L = N => ~ (N > Limit))
  BY <1>1, <1>5, <1>7
<1>14. r.rows # <<>> => kept # <<>>
  BY <1>10, <1>11, <1>12, <1>13
<1>15. cut => Len(kept) < N \/ Differ(kept, whole)
  <2> HIDE DEF kept, cut
  <2>1. cut => Len(kept) < L \/ Differ(kept, whole)
    BY <1>11 DEF cut, kept
  <2> QED
    BY <1>1, <1>12, <1>13, <2>1
<1>16. ~ cut => Len(kept) = L /\ ~ Differ(kept, whole)
  BY <1>11
<1>17. Len(kept) <= L
  BY <1>11, <1>12, <1>13
<1> HIDE DEF kept, cut
<1>18. kept # whole <=> Len(kept) # N \/ Differ(kept, whole)
  <2>1. whole = [i \in 1 .. N |-> whole[i]]
    BY <1>9 DEF FirstOf, whole
  <2> QED
    BY <1>1, <1>9, <1>12, <2>1, WholeOrNot
<1>19. cut \/ N > Limit <=> kept # whole
  <2>1. CASE cut
    <3>1. Len(kept) # N \/ Differ(kept, whole)
      BY <1>1, <1>12, <1>15, <2>1
    <3> QED
      BY <1>18, <2>1, <3>1
  <2>2. CASE ~ cut
    <3>1. Len(kept) = L /\ ~ Differ(kept, whole)
      BY <1>16, <2>2
    <3>2. Len(kept) # N <=> N > Limit
      BY <1>1, <1>13, <3>1
    <3> QED
      BY <1>18, <2>2, <3>1, <3>2
  <2> QED
    BY <2>1, <2>2
<1>20. /\ Preview(r).kept = kept
       /\ Preview(r).truncated <=> cut \/ m < n \/ N > Limit
  <2> DEFINE all == cut \/ m < n \/ N > Limit
  <2>1. Preview(r) = [kept |-> kept, truncated |-> all]
    BY <1>6 DEF kept, cut
  <2> HIDE DEF all
  <2>2. Preview(r).kept = kept /\ Preview(r).truncated = all
    BY <2>1
  <2> QED
    BY <2>2 DEF all
<1>21. m < n \/ m = n
  BY <1>1, <1>2
<1>22. (cut \/ m < n \/ N > Limit) <=> (kept # AllOf(r) \/ m < n)
  BY <1>8, <1>19, <1>21
<1> QED
  BY <1>11, <1>14, <1>20, <1>22 DEF kept, m, n

-----------------------------------------------------------------------------
(* The names in a row take the same whatever the row shows. *)
LEMMA RowNames ==
  ASSUME NEW m \in Nat, NEW row \in [1 .. m -> Cell]
  PROVE  /\ Names(row) = m * NameBytes + 2 /\ Names(row) \in Nat
         /\ NamedBytes(row) = RowBytes(row) + Names(row) /\ NamedBytes(row) \in Nat
<1>1. Len(row) = m
  BY SeqOf
<1>2. NameBytes \in Nat
  BY PreviewConstants
<1>3. m * NameBytes \in Nat
  BY <1>2
<1>4. Names(row) = m * NameBytes + 2
  BY <1>1 DEF Names, Separator
<1>5. RowBytes(row) \in Nat
  BY RowSize
<1> QED
  BY <1>3, <1>4, <1>5 DEF NamedBytes

(* A row more in a sample takes its bytes and its names more. *)
LEMMA AppendSample ==
  ASSUME NEW m \in Nat, NEW kept \in Seq([1 .. m -> Cell]), NEW row \in [1 .. m -> Cell]
  PROVE  /\ SampleBytes(kept) \in Nat
         /\ SampleBytes(Append(kept, row)) = SampleBytes(kept) + NamedBytes(row)
<1> DEFINE R == [1 .. m -> Cell]
           size == [w \in R |-> NamedBytes(w)]
           longer == Append(kept, row)
<1>1. size \in [R -> Nat] /\ size[row] = NamedBytes(row)
  BY RowNames
<1>2. kept \in Seq(R) /\ longer \in Seq(R) /\ row \in R
  BY AppendProperties
<1>3. \A s \in Seq(R) : SampleBytes(s) = Total(s, size)
  <2> SUFFICES ASSUME NEW s \in Seq(R)
               PROVE  SampleBytes(s) = Total(s, size)
    OBVIOUS
  <2>1. \A i \in DOMAIN s : s[i] \in R
    OBVIOUS
  <2>2. \A i \in DOMAIN s : size[s[i]] = NamedBytes(s[i])
    BY <2>1
  <2> HIDE DEF size
  <2>3. [i \in DOMAIN s |-> size[s[i]]] = [i \in DOMAIN s |-> NamedBytes(s[i])]
    BY <2>2
  <2> QED
    BY <2>3 DEF SampleBytes, Total
<1> HIDE DEF size, R
<1>4. Total(kept, size) \in Nat /\ Total(longer, size) = Total(kept, size) + size[row]
  BY <1>1, <1>2, AppendSum
<1> QED
  BY <1>1, <1>2, <1>3, <1>4

(* Where the loop of _sample may be. *)
TakeStates(m) == [sample : Seq([1 .. m -> Cell]), truncated : BOOLEAN, over : BOOLEAN]

(* However short its strings, the row does not fit in the budget.          *)
Cramped(row, m, cap) ==
  \E least \in [1 .. m -> Cell] :
    /\ Clips(least, TrimmedRow(row, cap))
    /\ Names(least) > Budget \/ Strings(least) = {}
    /\ NamedBytes(least) > Budget

(* What has been sampled after i rows. *)
TakeInv(p, i, m, whole, first, cap) ==
  /\ p \in TakeStates(m)
  /\ SampleBytes(p.sample) <= Budget
  /\ ~ p.over => /\ Len(p.sample) = i
                 /\ p.truncated <=> Differ(p.sample, whole)
  /\ p.over => /\ p.truncated /\ Len(p.sample) < i
               /\ p.sample = <<>> => Cramped(first, m, cap)

(* The row that may be all there is of a sample. *)
Shortest(row, cap) ==
  LET new == TrimmedRow(row, cap) IN
  IF Names(new) > Budget THEN new ELSE Shrunk(new, Budget - Names(new))

(* The shortened row fits when a row without strings would. *)
LEMMA ShortestIs ==
  ASSUME NEW m \in Nat, NEW cap \in Nat, NEW row, TrimmedRow(row, cap) \in [1 .. m -> Cell]
  PROVE  LET least == Shortest(row, cap) new == TrimmedRow(row, cap) IN
         /\ least \in [1 .. m -> Cell] /\ Clips(least, new)
         /\ NamedBytes(least) > Budget => Names(least) > Budget \/ Strings(least) = {}
<1> DEFINE new == TrimmedRow(row, cap)
           least == Shortest(row, cap)
<1>1. Budget \in Nat
  BY PreviewConstants
<1>2. Names(new) \in Nat
  BY RowNames
<1>3. CASE Names(new) > Budget
  <2>1. least = new
    BY <1>3 DEF Shortest
  <2> HIDE DEF new
  <2>2. Clips(new, new)
    <3>1. \A k \in 1 .. m : new[k].chars \in Nat
      BY DEF Cell, new
    <3> QED
      BY <3>1 DEF Clips, new
  <2> HIDE DEF least
  <2> QED
    BY <1>3, <2>1, <2>2 DEF least, new
<1>4. CASE ~ (Names(new) > Budget)
  <2>1. least = Shrunk(new, Budget - Names(new))
    BY <1>4 DEF Shortest
  <2> HIDE DEF new, least
  <2>2. Budget - Names(new) \in Nat
    BY <1>1, <1>2, <1>4
  <2>3. /\ least \in [1 .. m -> Cell] /\ Clips(least, new)
        /\ RowBytes(least) <= Budget - Names(new) \/ Strings(least) = {}
    BY <2>1, <2>2, ShrunkIs DEF new
  <2>4. /\ NamedBytes(least) = RowBytes(least) + Names(least) /\ Names(least) = m * NameBytes + 2
        /\ Names(new) = m * NameBytes + 2
    BY <2>3, RowNames DEF new
  <2>5. RowBytes(least) \in Nat
    BY <2>3, RowSize
  <2>6. RowBytes(least) <= Budget - Names(new) => ~ (NamedBytes(least) > Budget)
    BY <1>1, <1>2, <2>4, <2>5
  <2> QED
    BY <2>3, <2>6 DEF least, new
<1> QED
  BY <1>3, <1>4

(* A turn of the loop takes it to such a state. *)
LEMMA TakeTyped ==
  ASSUME NEW m \in Nat, NEW cap \in Nat, NEW p \in TakeStates(m), NEW row,
         TrimmedRow(row, cap) \in [1 .. m -> Cell]
  PROVE  Take(p, row, cap) \in TakeStates(m)
<1> DEFINE R == [1 .. m -> Cell]
           new == TrimmedRow(row, cap)
           least == Shortest(row, cap)
           cut == p.truncated \/ TrimsRow(row, cap)
           more == [sample |-> Append(p.sample, new), truncated |-> cut, over |-> FALSE]
           short == [sample |-> <<least>>, truncated |-> TRUE, over |-> FALSE]
           last == [sample |-> p.sample, truncated |-> TRUE, over |-> TRUE]
<1>1. new \in R /\ p.sample \in Seq(R) /\ least \in R
  BY ShortestIs DEF TakeStates
<1>2. Take(p, row, cap) \in {p, more, short, last}
  BY DEF Take, Shortest
<1> HIDE DEF new, least
<1>3. Append(p.sample, new) \in Seq(R) /\ <<least>> \in Seq(R)
  BY <1>1, AppendProperties
<1>4. cut \in BOOLEAN
  OBVIOUS
<1> HIDE DEF cut
<1>5. more \in TakeStates(m) /\ short \in TakeStates(m) /\ last \in TakeStates(m)
  BY <1>1, <1>3, <1>4 DEF TakeStates
<1> QED
  BY <1>2, <1>5

(* An empty sample takes nothing. *)
LEMMA NoSample == SampleBytes(<<>>) = 0
<1>1. ByteSet([i \in DOMAIN <<>> |-> NamedBytes(<<>>[i])]) = {}
  BY DEF ByteSet
<1> QED
  BY <1>1, FS_EmptySet DEF SampleBytes, Bytes

(* A turn of the loop keeps the sample in the budget, tells what it        *)
(* cuts, and gives up on the first row only when it cannot fit.            *)
LEMMA TakeKeeps ==
  ASSUME NEW m \in Nat, NEW cap \in Nat, NEW whole, NEW first, NEW i \in Nat,
         NEW p, TakeInv(p, i, m, whole, first, cap),
         NEW row, CutFrom(row, whole[i + 1], m, cap), i = 0 => row = first
  PROVE  TakeInv(Take(p, row, cap), i + 1, m, whole, first, cap)
<1> DEFINE R == [1 .. m -> Cell]
           new == TrimmedRow(row, cap)
           least == Shortest(row, cap)
           w == whole[i + 1]
           more == Append(p.sample, new)
           q == Take(p, row, cap)
<1> SUFFICES TakeInv(q, i + 1, m, whole, first, cap)
  OBVIOUS
<1>1. /\ new \in R /\ w \in R
      /\ TrimsRow(row, cap) <=> new # w
      /\ \A k \in 1 .. m : new[k].chars <= w[k].chars
  BY DEF CutFrom
<1>2. p \in TakeStates(m) /\ q \in TakeStates(m)
  BY <1>1, TakeTyped DEF TakeInv
<1>3. p.sample \in Seq(R) /\ Len(p.sample) \in Nat /\ Budget \in Nat
  BY <1>2, PreviewConstants DEF TakeStates
<1>4. /\ least \in R /\ Clips(least, new)
      /\ NamedBytes(least) > Budget => Names(least) > Budget \/ Strings(least) = {}
  BY <1>1, ShortestIs
<1>5. NamedBytes(new) \in Nat /\ NamedBytes(least) \in Nat
  BY <1>1, <1>4, RowNames
<1>6. CASE p.over
  <2>1. q = p
    BY <1>6 DEF Take
  <2> HIDE DEF q
  <2> QED
    BY <1>2, <1>3, <1>6, <2>1 DEF TakeInv
<1>7. CASE ~ p.over /\ SampleBytes(more) <= Budget
  <2> DEFINE cut == p.truncated \/ TrimsRow(row, cap)
  <2>1. q = [sample |-> more, truncated |-> cut, over |-> FALSE]
    BY <1>7 DEF Take
  <2>2. q.sample = more /\ ~ q.over /\ q.truncated = cut
    <3> HIDE DEF q, more, cut
    <3> QED
      BY <2>1
  <2> HIDE DEF q
  <2>3. Len(p.sample) = i /\ (p.truncated <=> Differ(p.sample, whole))
    BY <1>7 DEF TakeInv
  <2>4. Len(more) = i + 1 /\ more[i + 1] = new /\ \A j \in 1 .. i : more[j] = p.sample[j]
    BY <1>1, <1>3, <2>3, AppendProperties
  <2> HIDE DEF new, w, more
  <2>5. Differ(more, whole) <=> Differ(p.sample, whole) \/ new # w
    <3>1. 1 .. i + 1 = (1 .. i) \cup {i + 1}
      OBVIOUS
    <3> QED
      BY <2>3, <2>4, <3>1 DEF Differ, w
  <2> QED
    BY <1>1, <1>2, <1>7, <2>2, <2>3, <2>4, <2>5 DEF TakeInv
<1>8. CASE ~ p.over /\ ~ (SampleBytes(more) <= Budget)
           /\ p.sample = <<>> /\ NamedBytes(least) <= Budget
  <2>1. q = [sample |-> <<least>>, truncated |-> TRUE, over |-> FALSE]
    BY <1>8 DEF Take, Shortest
  <2>2. q.sample = <<least>> /\ ~ q.over /\ q.truncated
    <3> HIDE DEF q, least
    <3> QED
      BY <2>1
  <2>3. i = 0
    BY <1>8 DEF TakeInv
  <2>4. ASSUME NEW s \in R PROVE SampleBytes(<<s>>) = NamedBytes(s) /\ SampleBytes(<<s>>) \in Nat
    <3>1. <<s>> = Append(<<>>, s) /\ <<>> \in Seq(R)
      OBVIOUS
    <3>2. SampleBytes(Append(<<>>, s)) = SampleBytes(<<>>) + NamedBytes(s)
      BY <3>1, AppendSample
    <3>3. NamedBytes(s) \in Nat
      BY RowNames
    <3> QED
      BY <3>1, <3>2, <3>3, NoSample
  <2>5. more = <<new>>
    BY <1>8
  <2>6. NamedBytes(new) > Budget
    BY <1>1, <1>3, <1>5, <1>8, <2>4, <2>5
  <2> HIDE DEF q, least, new, w, more
  <2>7. least # w
    <3>1. least # new
      BY <1>3, <1>5, <1>8, <2>6
    <3> QED
      BY <1>1, <1>4, <3>1, ClippedDiffers
  <2>8. Len(<<least>>) = 1 /\ <<least>>[1] = least
    OBVIOUS
  <2>9. Differ(<<least>>, whole)
    BY <2>3, <2>7, <2>8 DEF Differ, w
  <2>10. SampleBytes(<<least>>) <= Budget
    BY <1>4, <1>8, <2>4
  <2> QED
    BY <1>2, <2>2, <2>3, <2>8, <2>9, <2>10 DEF TakeInv
<1>9. CASE ~ p.over /\ ~ (SampleBytes(more) <= Budget)
           /\ ~ (p.sample = <<>> /\ NamedBytes(least) <= Budget)
  <2>1. q = [sample |-> p.sample, truncated |-> TRUE, over |-> TRUE]
    BY <1>9 DEF Take, Shortest
  <2>2. q.sample = p.sample /\ q.over /\ q.truncated
    <3> HIDE DEF q
    <3> QED
      BY <2>1
  <2> HIDE DEF q
  <2>3. Len(p.sample) = i /\ SampleBytes(p.sample) <= Budget
    BY <1>9 DEF TakeInv
  <2>4. p.sample = <<>> => Cramped(first, m, cap)
    <3> SUFFICES ASSUME p.sample = <<>> PROVE Cramped(first, m, cap)
      OBVIOUS
    <3>1. row = first
      BY <2>3
    <3>2. NamedBytes(least) > Budget
      BY <1>3, <1>5, <1>9
    <3> HIDE DEF least
    <3>3. Cramped(row, m, cap)
      BY <1>4, <3>2 DEF Cramped
    <3> QED
      BY <3>1, <3>3
  <2> QED
    BY <1>2, <1>3, <2>2, <2>3, <2>4 DEF TakeInv
<1> QED
  BY <1>6, <1>7, <1>8, <1>9

(* What the whole loop has sampled. *)
LEMMA SampledIs ==
  ASSUME NEW m \in Nat, NEW cap \in Nat, NEW rows, Len(rows) \in Nat, NEW whole,
         \A i \in 1 .. Len(rows) : CutFrom(rows[i], whole[i], m, cap)
  PROVE  /\ Min({Limit, Len(rows)}) = IF Limit <= Len(rows) THEN Limit ELSE Len(rows)
         /\ TakeInv(Sampled(rows, cap), Min({Limit, Len(rows)}), m, whole, rows[1], cap)
<1> DEFINE V == TakeStates(m)
           N == Min({Limit, Len(rows)})
           start == [sample |-> <<>>, truncated |-> FALSE, over |-> FALSE]
           next == [i \in 1 .. N |-> [v \in V |-> Take(v, rows[i], cap)]]
           f == CHOOSE g : g = [i \in 0 .. N |-> IF i = 0 THEN start ELSE Take(g[i - 1], rows[i], cap)]
<1>1. N = (IF Limit <= Len(rows) THEN Limit ELSE Len(rows)) /\ N \in Nat /\ N <= Len(rows)
  <2>1. Limit \in Nat
    BY PreviewConstants
  <2> QED
    BY <2>1, MinPair
<1>2. start \in V
  BY DEF TakeStates
<1>3. Sampled(rows, cap) = f[N]
  BY DEF Sampled
<1> HIDE DEF N, V, start
<1>4. ASSUME NEW i \in 1 .. N, NEW v \in V PROVE Take(v, rows[i], cap) \in V
  <2>1. i \in 1 .. Len(rows)
    BY <1>1
  <2>2. TrimmedRow(rows[i], cap) \in [1 .. m -> Cell]
    BY <2>1 DEF CutFrom
  <2> QED
    BY <2>2, TakeTyped DEF V
<1>5. next \in [1 .. N -> [V -> V]]
  BY <1>4
<1>6. f = [i \in 0 .. N |-> IF i = 0 THEN start ELSE Take(f[i - 1], rows[i], cap)]
  <2>1. \A i \in 1 .. N : \A v \in V : next[i][v] = Take(v, rows[i], cap)
    OBVIOUS
  <2> HIDE DEF next, f
  <2>2. PICK g : Loop(g, V, start, N, next)
    BY <1>1, <1>2, <1>5, Recursion, Zenon
  <2>3. ASSUME NEW i \in 1 .. N PROVE g[i] = Take(g[i - 1], rows[i], cap)
    <3>1. g[i - 1] \in V
      BY <1>1, <2>2 DEF Loop
    <3> QED
      BY <2>1, <2>2, <3>1 DEF Loop
  <2>4. g = [i \in 0 .. N |-> IF i = 0 THEN start ELSE Take(g[i - 1], rows[i], cap)]
    BY <1>1, <2>2, <2>3 DEF Loop
  <2> QED
    BY <2>4 DEF f
<1> HIDE DEF f, next
<1>7. f[0] = start /\ \A i \in Nat : i < N => f[i + 1] = Take(f[i], rows[i + 1], cap)
  BY <1>1, <1>6
<1> DEFINE S == {i \in Nat : TakeInv(f[i], i, m, whole, rows[1], cap)}
<1>8. 0 \in S
  <2>1. start.sample = <<>> /\ ~ start.truncated /\ ~ start.over
    BY DEF start
  <2>2. Len(<<>>) = 0 /\ ~ Differ(<<>>, whole)
    BY DEF Differ
  <2>3. Budget \in Nat
    BY PreviewConstants
  <2>4. TakeInv(start, 0, m, whole, rows[1], cap)
    BY <1>2, <2>1, <2>2, <2>3, NoSample DEF TakeInv, V
  <2> QED
    BY <1>7, <2>4
<1>9. ASSUME NEW i \in Nat, i < N, i \in S PROVE i + 1 \in S
  <2>1. i + 1 \in 1 .. Len(rows)
    BY <1>1, <1>9
  <2>2. CutFrom(rows[i + 1], whole[i + 1], m, cap)
    BY <2>1
  <2>3. TakeInv(f[i], i, m, whole, rows[1], cap)
    BY <1>9
  <2>4. i = 0 => rows[i + 1] = rows[1]
    OBVIOUS
  <2>5. TakeInv(Take(f[i], rows[i + 1], cap), i + 1, m, whole, rows[1], cap)
    BY <2>2, <2>3, <2>4, TakeKeeps
  <2> QED
    BY <1>7, <1>9, <2>5
<1>10. N \in S
  <2> HIDE DEF S
  <2> QED
    BY <1>1, <1>8, <1>9, Throughout
<1> QED
  BY <1>1, <1>3, <1>10 DEF N

(* The columns of a sample are columns of the source. *)
LEMMA DescribedIs ==
  ASSUME NEW n \in Nat \ {0}
  PROVE  /\ Described(n) \in 0 .. n
         /\ Described(n) # 0 => Described(n) \in 1 .. n /\ SampleCap(n) \in Nat
<1> DEFINE a == Budget \div ScalarBytes
           b == Budget \div MetadataBytes
           all == {n, MaxColumns, a, b}
<1>1. Budget \in Nat /\ CellChars \in Nat /\ MaxColumns \in Nat /\ MinCell \in Nat
      /\ ScalarBytes \in Nat \ {0} /\ MetadataBytes \in Nat \ {0}
  BY PreviewConstants
<1>2. a \in Nat /\ b \in Nat
  BY <1>1, Quotients
<1> HIDE DEF a, b
<1>3. all \in SUBSET Nat /\ all # {} /\ n \in all
  BY <1>1, <1>2
<1>4. Described(n) = Min(all)
  BY DEF Described, a, b
<1> HIDE DEF all
<1>5. Described(n) \in Nat /\ Described(n) <= n
  <2>1. Min(all) \in all /\ \A k \in all : Min(all) <= k
    BY <1>3, MinIs
  <2> QED
    BY <1>3, <1>4, <2>1
<1>6. ASSUME Described(n) # 0 PROVE SampleCap(n) \in Nat
  <2>1. 2 * Described(n) \in Nat \ {0}
    BY <1>5, <1>6
  <2>2. Budget \div (2 * Described(n)) \in Nat
    BY <1>1, <2>1, Quotients
  <2> QED
    BY <1>1, <2>2, MinPair, MaxIs DEF SampleCap
<1> QED
  BY <1>5, <1>6

(* A first row that does not fit would not without its characters. *)
LEMMA EmptiedIs ==
  ASSUME NEW n \in Nat, NEW m \in Nat, m <= n, NEW row \in [1 .. n -> Cell], NEW cap \in Nat,
         Cramped(ProjectedRow(row, m, cap), m, cap)
  PROVE  NamedBytes(Emptied(row, m)) > Budget
<1> DEFINE p == ProjectedRow(row, m, cap)
           new == TrimmedRow(p, cap)
           e == Emptied(row, m)
<1>1. PICK least \in [1 .. m -> Cell] :
        /\ Clips(least, new)
        /\ Names(least) > Budget \/ Strings(least) = {}
        /\ NamedBytes(least) > Budget
  BY DEF Cramped
<1>2. /\ new \in [1 .. m -> Cell]
      /\ \A k \in 1 .. m : /\ new[k].kind = "number" <=> row[k].kind = "number"
                           /\ row[k].kind = "number" => new[k] = row[k]
  BY RowCut
<1>3. /\ e \in [1 .. m -> Cell]
      /\ \A k \in 1 .. m :
           /\ row[k].kind = "number" => e[k] = row[k]
           /\ row[k].kind # "number" => e[k].kind = row[k].kind /\ e[k].chars = 0
  <2>1. \A k \in 1 .. m : row[k] \in Cell
    BY SMT
  <2>2. \A k \in 1 .. m : [row[k] EXCEPT !.chars = 0] \in Cell
    BY <2>1, CellSize
  <2>3. \A k \in 1 .. m : [row[k] EXCEPT !.chars = 0].chars = 0
                          /\ [row[k] EXCEPT !.chars = 0].kind = row[k].kind
    BY <2>1 DEF Cell
  <2>4. e = [k \in 1 .. m |-> IF row[k].kind = "number" THEN row[k] ELSE [row[k] EXCEPT !.chars = 0]]
    BY DEF Emptied
  <2> HIDE DEF e
  <2> QED
    BY <2>1, <2>2, <2>3, <2>4
<1> HIDE DEF new, e
<1>4. /\ Names(least) = m * NameBytes + 2 /\ Names(least) \in Nat
      /\ NamedBytes(least) = RowBytes(least) + Names(least)
      /\ Names(e) = m * NameBytes + 2
      /\ NamedBytes(e) = RowBytes(e) + Names(e)
  BY <1>3, RowNames
<1>5. /\ RowBytes(least) \in Nat /\ RowBytes(e) \in Nat /\ Budget \in Nat
      /\ Sizes(least) \in [1 .. m -> Nat] /\ Sizes(e) \in [1 .. m -> Nat]
      /\ RowBytes(least) = Bytes(Sizes(least)) /\ RowBytes(e) = Bytes(Sizes(e))
      /\ IsFiniteSet(1 .. m)
  BY <1>3, RowSize, PreviewConstants
<1>6. CASE Names(least) > Budget
  BY <1>4, <1>5, <1>6 DEF e
<1>7. CASE Strings(least) = {}
  <2>1. ASSUME NEW k \in 1 .. m PROVE CellBytes(least[k]) <= CellBytes(e[k])
    <3>1. /\ least[k].kind = new[k].kind /\ least[k].per = new[k].per
          /\ least[k].chars <= new[k].chars
      BY <1>1, <1>2 DEF Clips
    <3>2. least[k] \in Cell /\ new[k] \in Cell /\ e[k] \in Cell
      BY <1>2, <1>3
    <3>3. CASE row[k].kind = "number"
      <4>1. e[k] = new[k]
        BY <1>2, <1>3, <3>3
      <4> QED
        BY <3>1, <3>2, <4>1, CellClipped
    <3>4. CASE row[k].kind # "number"
      <4>1. least[k].kind # "number" /\ e[k].kind # "number" /\ e[k].chars = 0
        BY <1>2, <1>3, <3>1, <3>4
      <4>2. least[k].chars = 0
        <5>1. least[k].chars \in Nat
          BY <3>2 DEF Cell
        <5>2. ~ (least[k].chars > 0)
          BY <1>7, <4>1 DEF Strings
        <5> QED
          BY <5>1, <5>2
      <4>3. least[k].per \in Nat /\ e[k].per \in Nat
        BY <3>2 DEF Cell
      <4>4. CellBytes(least[k]) = 2 /\ CellBytes(e[k]) = 2
        BY <4>1, <4>2, <4>3 DEF CellBytes, Quotes
      <4> QED
        BY <4>4
    <3> QED
      BY <3>3, <3>4
  <2>2. \A k \in 1 .. m : Sizes(least)[k] <= Sizes(e)[k]
    <3> SUFFICES ASSUME NEW k \in 1 .. m PROVE Sizes(least)[k] <= Sizes(e)[k]
      OBVIOUS
    <3>1. CellBytes(least[k]) \in Nat /\ CellBytes(e[k]) \in Nat
      BY <1>3, CellSize
    <3>2. Sizes(least)[k] = CellBytes(least[k]) + 2 /\ Sizes(e)[k] = CellBytes(e[k]) + 2
      BY <1>3 DEF Sizes, Separator
    <3> QED
      BY <2>1, <3>1, <3>2
  <2>3. Bytes(Sizes(least)) <= Bytes(Sizes(e))
    <3> DEFINE D == 1 .. m
    <3>1. IsFiniteSet(D) /\ Sizes(least) \in [D -> Nat] /\ Sizes(e) \in [D -> Nat]
          /\ \A x \in D : Sizes(least)[x] <= Sizes(e)[x]
      BY <1>5, <2>2
    <3> HIDE DEF D
    <3> QED
      BY <3>1, BytesOrdered
  <2> QED
    BY <1>1, <1>4, <1>5, <2>3 DEF e
<1> QED
  BY <1>1, <1>6, <1>7 DEF e

(* The sample of any source. *)
LEMMA SampleIs ==
  ASSUME NEW r \in Results
  PROVE  /\ SampleBytes(Sample(r).sample) <= Budget
         /\ r.rows # <<>> /\ Sample(r).sample = <<>> =>
              Described(r.columns) = 0
                \/ NamedBytes(Emptied(r.rows[1], Described(r.columns))) > Budget
         /\ Sample(r).truncated <=> Sample(r).sample # AllOf(r) \/ Described(r.columns) < r.columns
<1> DEFINE n == r.columns
           m == Described(n)
           cap == SampleCap(n)
           N == Len(r.rows)
           L == Min({Limit, N})
           rows == ProjectedRows(r, m, cap)
           whole == FirstOf(r, m)
           p == Sampled(rows, cap)
<1>1. /\ n \in Nat \ {0} /\ N \in Nat /\ DOMAIN r.rows = 1 .. N
      /\ \A i \in 1 .. N : r.rows[i] \in [1 .. n -> Cell]
  BY ResultIs
<1>2. m \in 0 .. n /\ (m # 0 => m \in 1 .. n /\ cap \in Nat) /\ Budget \in Nat /\ Limit \in Nat \ {0}
  BY <1>1, DescribedIs, PreviewConstants
<1>3. CASE m = 0
  <2>1. Sample(r) = [sample |-> <<>>, truncated |-> TRUE]
    <3>1. Sample(r).sample = <<>> /\ Sample(r).truncated
      BY <1>3 DEF Sample
    <3>2. Sample(r) = [sample |-> <<>>, truncated |-> N > Len(<<>>) \/ TRUE \/ m < n]
      BY <1>3 DEF Sample
    <3> QED
      BY <3>2
  <2>2. Sample(r).sample = <<>> /\ Sample(r).truncated
    BY <2>1
  <2>3. m < n
    BY <1>1, <1>3
  <2> QED
    BY <1>2, <1>3, <2>2, <2>3, NoSample
<1>4. CASE m # 0
  <2>1. m \in 1 .. n /\ cap \in Nat
    BY <1>2, <1>4
  <2>2. /\ Len(rows) = N /\ m \in Nat
        /\ \A i \in 1 .. N : /\ rows[i] = ProjectedRow(r.rows[i], m, cap)
                             /\ CutFrom(rows[i], whole[i], m, cap)
    BY <2>1, RowsCut
  <2>3. L = (IF Limit <= N THEN Limit ELSE N) /\ TakeInv(p, L, m, whole, rows[1], cap)
    <3>1. Len(rows) \in Nat /\ \A i \in 1 .. Len(rows) : CutFrom(rows[i], whole[i], m, cap)
      BY <1>1, <2>2
    <3> HIDE DEF rows, whole, m, cap, p
    <3>2. Min({Limit, Len(rows)}) = (IF Limit <= Len(rows) THEN Limit ELSE Len(rows))
          /\ TakeInv(Sampled(rows, cap), Min({Limit, Len(rows)}), m, whole, rows[1], cap)
      BY <2>1, <2>2, <3>1, SampledIs
    <3> QED
      BY <2>2, <3>2 DEF p
  <2>4. Sample(r) = [sample |-> p.sample,
                     truncated |-> N > Len(p.sample) \/ p.truncated \/ m < n]
    BY <1>4 DEF Sample
  <2>5. m = n => whole = AllOf(r)
    BY <1>1 DEF FirstOf, AllOf, EntireRow
  <2>6. whole = [i \in 1 .. N |-> whole[i]]
    BY <1>1 DEF FirstOf
  <2>7. N = 0 <=> r.rows = <<>>
    BY <1>1, ResultIs
  <2>8. r.rows # <<>> => rows[1] = ProjectedRow(r.rows[1], m, cap) /\ r.rows[1] \in [1 .. n -> Cell]
    BY <1>1, <2>2, <2>7
  <2> HIDE DEF p, whole, rows, cap, m, L, N, n
  <2>9. /\ p.sample \in Seq([1 .. m -> Cell]) /\ p.truncated \in BOOLEAN /\ p.over \in BOOLEAN
        /\ SampleBytes(p.sample) <= Budget
        /\ ~ p.over => /\ Len(p.sample) = L
                       /\ p.truncated <=> Differ(p.sample, whole)
        /\ p.over => /\ p.truncated /\ Len(p.sample) < L
                     /\ p.sample = <<>> => Cramped(rows[1], m, cap)
    BY <2>3 DEF TakeInv, TakeStates
  <2> DEFINE sample == p.sample
             cut == p.truncated
  <2>10. /\ Len(sample) \in Nat /\ sample = [i \in 1 .. Len(sample) |-> sample[i]]
         /\ sample = <<>> <=> Len(sample) = 0
    BY <2>9, EmptySeq, LenProperties
  <2>11. L \in Nat /\ (L = 0 => N = 0) /\ L <= N
    BY <1>1, <1>2, <2>3
  <2>12. r.rows # <<>> /\ sample = <<>> => NamedBytes(Emptied(r.rows[1], m)) > Budget
    <3> SUFFICES ASSUME r.rows # <<>>, sample = <<>>
                 PROVE  NamedBytes(Emptied(r.rows[1], m)) > Budget
      OBVIOUS
    <3>1. p.over
      BY <2>7, <2>9, <2>10, <2>11
    <3>2. Cramped(ProjectedRow(r.rows[1], m, cap), m, cap)
      BY <2>8, <2>9, <3>1
    <3>3. n \in Nat /\ m \in Nat /\ m <= n
      BY <1>1, <2>1
    <3> QED
      BY <2>1, <2>8, <3>2, <3>3, EmptiedIs
  <2> HIDE DEF sample, cut
  <2>13. sample # whole <=> Len(sample) # N \/ Differ(sample, whole)
    BY <1>1, <2>6, <2>10, WholeOrNot
  <2>14. N > Len(sample) \/ cut <=> sample # whole
    <3>1. CASE p.over
      <4>1. cut /\ Len(sample) < N
        BY <1>1, <2>9, <2>10, <2>11, <3>1 DEF sample, cut
      <4>2. Len(sample) # N
        BY <1>1, <2>10, <4>1
      <4> QED
        BY <2>13, <4>1, <4>2
    <3>2. CASE ~ p.over
      <4>1. Len(sample) = L /\ (cut <=> Differ(sample, whole))
        BY <2>9, <3>2 DEF sample, cut
      <4>2. Len(sample) # N <=> N > Len(sample)
        BY <1>1, <2>11, <4>1
      <4> QED
        BY <2>13, <4>1, <4>2
    <3> QED
      BY <3>1, <3>2
  <2>15. /\ Sample(r).sample = sample
         /\ Sample(r).truncated <=> N > Len(sample) \/ cut \/ m < n
    <3> DEFINE all == N > Len(sample) \/ cut \/ m < n
    <3>1. Sample(r) = [sample |-> sample, truncated |-> all]
      BY <2>4 DEF sample, cut
    <3> HIDE DEF all
    <3>2. Sample(r).sample = sample /\ Sample(r).truncated = all
      BY <3>1
    <3> QED
      BY <3>2 DEF all
  <2>16. m < n \/ m = n
    BY <1>1, <2>1
  <2>17. (N > Len(sample) \/ cut \/ m < n) <=> (sample # AllOf(r) \/ m < n)
    BY <2>5, <2>14, <2>16
  <2> QED
    BY <2>9, <2>12, <2>15, <2>17 DEF sample, m, n
<1> QED
  BY <1>3, <1>4

(* Every preview and every sample fits and tells what it cuts. *)
LEMMA PreviewsFitting == PreviewFits /\ SampleFits
<1>1. PreviewFits
  BY PreviewIs DEF PreviewFits, Separator
<1>2. SampleFits
  BY SampleIs DEF SampleFits
<1> QED
  BY <1>1, <1>2

(* Whatever the budgets, the rows and their cells: the preview of a query  *)
(* and the sample of its source keep to the budget, are not empty without  *)
(* need, and are marked truncated exactly when something is missing.       *)
THEOREM PreviewsBounded == Spec => []PreviewsFit
<1>1. PreviewsFit
  BY PreviewsFitting DEF PreviewsFit
<1> QED
  BY <1>1, PTL

-----------------------------------------------------------------------------
(* The text of a query.  The argument: tokens are scanned one after the    *)
(* other, and what is scanned at a place depends on the symbols up to its  *)
(* end and on a little of what comes next (ScanCopied).  So a text and a   *)
(* copy of a part of it have the same tokens there: the text without its   *)
(* last semicolon (PrefixTokens), and the statement between two references *)
(* (TokensFollow, by induction from the end of the text to its beginning). *)

(* Strong induction downwards from N. *)
LEMMA Downwards ==
  ASSUME NEW N \in Nat, NEW S,
         \A k \in 0 .. N : (\A l \in k + 1 .. N : l \in S) => k \in S
  PROVE  0 .. N \subseteq S
<1> DEFINE T == {k \in Nat : \A l \in 0 .. N : N - k <= l => l \in S}
<1>1. 0 \in T
  <2>1. \A l \in N + 1 .. N : l \in S
    OBVIOUS
  <2>2. N \in S
    BY <2>1
  <2> QED
    BY <2>2
<1>2. ASSUME NEW k \in Nat, k \in T PROVE k + 1 \in T
  <2> SUFFICES ASSUME NEW l \in 0 .. N, N - (k + 1) <= l PROVE l \in S
    OBVIOUS
  <2>1. CASE N - k <= l
    BY <1>2, <2>1
  <2>2. CASE l = N - (k + 1)
    <3>1. \A m \in l + 1 .. N : m \in S
      BY <1>2, <2>2
    <3> QED
      BY <3>1
  <2> QED
    BY <2>1, <2>2
<1>3. Nat \subseteq T
  <2> HIDE DEF T
  <2> QED
    BY <1>1, <1>2, Induct
<1> QED
  BY <1>3

(* The symbols of the texts and of what is put around them. *)
Sym == (UNION {{t[i] : i \in DOMAIN t} : t \in Texts}) \cup Words
         \cup {"select", "*", "from", "(", ")", "x", DoubleQuote}

(* Every text a proof below speaks of: sent, normalized, rewritten,        *)
(* wrapped.                                                                *)
Text == Seq(Sym)

(* A quotation mark is none of the other delimiters. *)
LEMMA DoubleQuoteIs ==
  DoubleQuote \notin {" ", "newline", "$", "-", "/", "*", "'", "(", ")", ";", "\\", "e", "source"}
BY DEF DoubleQuote

(* Delimiters are not words; the words the code looks for are. *)
LEMMA Symbols ==
  /\ "newline" \notin Words /\ " " \notin Words /\ "$" \notin Words /\ "-" \notin Words
  /\ "/" \notin Words /\ "*" \notin Words /\ "'" \notin Words /\ DoubleQuote \notin Words
  /\ "(" \notin Words /\ ")" \notin Words /\ ";" \notin Words
  /\ "e" \in Words /\ "select" \in Words /\ "from" \in Words /\ "source" \in Words /\ "x" \in Words
  /\ "source" \notin SourceIds /\ \A id \in SourceIds : ViewNames[id] \in Words
<1>1. Words \cap {" ", "newline", "$", "-", "/", "*", "'", DoubleQuote, "(", ")", ";"} = {}
      /\ SourceIds \cap {"source"} = {}
  BY TextConstants
<1>2. {"e", "select", "from", "source", "x"} \subseteq Words
      /\ \A id \in SourceIds : ViewNames[id] \in Words
  BY DEF Words
<1> HIDE DEF Words
<1> QED
  BY <1>1, <1>2

(* A text has a length, and symbols up to it. *)
LEMMA TextIs ==
  ASSUME NEW t \in Text
  PROVE  Len(t) \in Nat /\ DOMAIN t = 1 .. Len(t) /\ \A i \in 1 .. Len(t) : t[i] \in Sym
  BY LenProperties DEF Text

(* What a client sends is a text. *)
LEMMA TextsTyped == Texts \subseteq Text
<1> SUFFICES ASSUME NEW t \in Texts PROVE t \in Seq(Sym)
  BY DEF Text
<1> DEFINE A == {t[i] : i \in DOMAIN t}
<1>1. t \in Seq(A)
  BY TextConstants
<1>2. A \subseteq Sym
  BY DEF Sym
<1> HIDE DEF A
<1> QED
  BY <1>1, <1>2, SeqMonotonic

(* Two symbols next to each other. *)
LEMMA FoundIs ==
  ASSUME NEW t, Len(t) \in Nat, NEW i \in Nat, NEW a, NEW b
  PROVE  Found(t, i, <<a, b>>) <=> i + 1 <= Len(t) /\ t[i] = a /\ t[i + 1] = b
<1> DEFINE s == <<a, b>>
<1>1. Len(s) = 2 /\ DOMAIN s = {1, 2} /\ s[1] = a /\ s[2] = b
  OBVIOUS
<1> HIDE DEF s
<1>2. Found(t, i, s) <=> i + 2 - 1 <= Len(t) /\ t[i + 1 - 1] = s[1] /\ t[i + 2 - 1] = s[2]
  BY <1>1 DEF Found
<1>3. i + 2 - 1 = i + 1 /\ i + 1 - 1 = i
  OBVIOUS
<1> QED
  BY <1>1, <1>2, <1>3 DEF s

(* First of a set of places is its least, or 0 when there is none. *)
LEMMA SmallFirst ==
  ASSUME NEW S \in SUBSET (Nat \ {0})
  PROVE  /\ First(S) = 0 <=> S = {}
         /\ S # {} => First(S) \in S /\ \A k \in S : First(S) <= k
<1>1. CASE S = {}
  BY <1>1 DEF First
<1>2. CASE S # {}
  <2>1. S \in SUBSET Nat
    OBVIOUS
  <2>2. Min(S) \in S /\ \A k \in S : Min(S) <= k
    BY <1>2, <2>1, MinIs
  <2> QED
    BY <1>2, <2>2 DEF First
<1> QED
  BY <1>1, <1>2

(* The ends a quoted value has, scanned from each place. *)
QuotedEnds(f, t, i, escapes) ==
  \A j \in 1 .. Len(t) + 2 :
    f[j] = IF j > Len(t) THEN 0
           ELSE IF t[j] \in escapes THEN f[j + 2]
           ELSE IF t[j] # t[i] THEN f[j + 1]
           ELSE IF Found(t, j, <<t[i], t[i]>>) THEN f[j + 2]
           ELSE j + 1

(* The function of QuotedEnd does what its equation says at every place. *)
LEMMA QuotedEndIs ==
  ASSUME NEW t, Len(t) \in Nat, NEW i, NEW escapes
  PROVE  \E f : QuotedEnds(f, t, i, escapes) /\ QuotedEnd(t, i, escapes) = f[i + 1]
<1> DEFINE L == Len(t)
           N == L + 2
           E(g, j) == IF j > L THEN 0
                      ELSE IF t[j] \in escapes THEN g[j + 2]
                      ELSE IF t[j] # t[i] THEN g[j + 1]
                      ELSE IF Found(t, j, <<t[i], t[i]>>) THEN g[j + 2]
                      ELSE j + 1
           S == {k \in 0 .. N : \E g : g = [j \in k + 1 .. N |-> E(g, j)]}
           f == CHOOSE g : g = [j \in 1 .. N |-> E(g, j)]
<1>1. ASSUME NEW k \in 0 .. N, \A l \in k + 1 .. N : l \in S PROVE k \in S
  <2>1. CASE k = N
    <3> DEFINE g == [j \in k + 1 .. N |-> 0]
    <3>1. k + 1 .. N = {}
      BY <2>1
    <3> HIDE DEF E
    <3>2. g = [j \in k + 1 .. N |-> E(g, j)]
      BY <3>1
    <3> QED
      BY <3>2
  <2>2. CASE k < N
    <3>1. k + 1 \in S
      <4> HIDE DEF S
      <4> QED
        BY <1>1, <2>2
    <3>2. PICK g : g = [j \in k + 2 .. N |-> E(g, j)]
      <4>1. (k + 1) + 1 = k + 2
        OBVIOUS
      <4> HIDE DEF E
      <4> QED
        BY <3>1, <4>1
    <3> DEFINE h == [j \in k + 1 .. N |-> IF j = k + 1 THEN E(g, j) ELSE g[j]]
    <3>3. \A j \in k + 2 .. N : h[j] = g[j]
      <4> HIDE DEF E
      <4> QED
        OBVIOUS
    <3>4. ASSUME NEW j \in k + 1 .. N PROVE E(h, j) = E(g, j)
      <4>1. j <= L => j + 1 \in k + 2 .. N /\ j + 2 \in k + 2 .. N
        OBVIOUS
      <4> HIDE DEF h, S
      <4>2. j <= L => h[j + 1] = g[j + 1] /\ h[j + 2] = g[j + 2]
        BY <3>3, <4>1
      <4>3. j <= L \/ j > L
        OBVIOUS
      <4> QED
        BY <4>2, <4>3
    <3>5. h = [j \in k + 1 .. N |-> E(h, j)]
      <4>1. \A j \in k + 1 .. N : h[j] = E(g, j)
        <5> HIDE DEF E
        <5>1. \A j \in k + 2 .. N : g[j] = E(g, j)
          BY <3>2
        <5> QED
          BY <5>1
      <4> HIDE DEF E
      <4> QED
        BY <3>4, <4>1
    <3> HIDE DEF h, E
    <3> QED
      BY <3>5
  <2> HIDE DEF S
  <2> QED
    BY <2>1, <2>2
<1>2. 0 \in S
  <2>1. N \in Nat
    OBVIOUS
  <2> HIDE DEF S, N
  <2>2. 0 .. N \subseteq S
    BY <1>1, <2>1, Downwards
  <2> QED
    BY <2>1, <2>2
<1>3. f = [j \in 1 .. N |-> E(f, j)]
  <2> HIDE DEF E
  <2>1. \E g : g = [j \in 1 .. N |-> E(g, j)]
    BY <1>2
  <2> QED
    BY <2>1
<1>4. QuotedEnds(f, t, i, escapes)
  <2> HIDE DEF f
  <2> QED
    BY <1>3 DEF QuotedEnds
<1>5. QuotedEnd(t, i, escapes) = f[i + 1]
  BY DEF QuotedEnd
<1> QED
  BY <1>4, <1>5

(* The same of a comment, with so many still open. *)
CommentEnds(f, t) ==
  \A j \in 1 .. Len(t) + 1 : \A depth \in Nat :
    f[j][depth] = IF depth = 0 THEN j
                  ELSE IF j > Len(t) THEN 0
                  ELSE IF Found(t, j, <<"/", "*">>) THEN f[j + 2][depth + 1]
                  ELSE IF Found(t, j, <<"*", "/">>) THEN f[j + 2][depth - 1]
                  ELSE f[j + 1][depth]

(* So does the function of CommentEnd, at every place and depth. *)
LEMMA CommentEndIs ==
  ASSUME NEW t, Len(t) \in Nat, NEW i
  PROVE  \E f : CommentEnds(f, t) /\ CommentEnd(t, i) = f[i + 2][1]
<1> DEFINE L == Len(t)
           N == L + 1
           E(g, j) == [depth \in Nat |->
                         IF depth = 0 THEN j
                         ELSE IF j > L THEN 0
                         ELSE IF Found(t, j, <<"/", "*">>) THEN g[j + 2][depth + 1]
                         ELSE IF Found(t, j, <<"*", "/">>) THEN g[j + 2][depth - 1]
                         ELSE g[j + 1][depth]]
           S == {k \in 0 .. N : \E g : g = [j \in k + 1 .. N |-> E(g, j)]}
           f == CHOOSE g : g = [j \in 1 .. N |-> E(g, j)]
<1>1. ASSUME NEW k \in 0 .. N, \A l \in k + 1 .. N : l \in S PROVE k \in S
  <2>1. CASE k = N
    <3> DEFINE g == [j \in k + 1 .. N |-> 0]
    <3>1. k + 1 .. N = {}
      BY <2>1
    <3> HIDE DEF E
    <3>2. g = [j \in k + 1 .. N |-> E(g, j)]
      BY <3>1
    <3> QED
      BY <3>2
  <2>2. CASE k < N
    <3>1. k + 1 \in S
      <4> HIDE DEF S
      <4> QED
        BY <1>1, <2>2
    <3>2. PICK g : g = [j \in k + 2 .. N |-> E(g, j)]
      <4>1. (k + 1) + 1 = k + 2
        OBVIOUS
      <4> HIDE DEF E
      <4> QED
        BY <3>1, <4>1
    <3> DEFINE h == [j \in k + 1 .. N |-> IF j = k + 1 THEN E(g, j) ELSE g[j]]
    <3>3. \A j \in k + 2 .. N : h[j] = g[j]
      <4> HIDE DEF E
      <4> QED
        OBVIOUS
    <3>4. ASSUME NEW j \in k + 1 .. N PROVE E(h, j) = E(g, j)
      <4>1. j <= L => j + 1 \in k + 2 .. N
        OBVIOUS
      <4>2. Found(t, j, <<"/", "*">>) \/ Found(t, j, <<"*", "/">>) => j + 2 \in k + 2 .. N
        BY FoundIs
      <4> HIDE DEF h, S
      <4>3. j <= L => h[j + 1] = g[j + 1]
        BY <3>3, <4>1
      <4>4. Found(t, j, <<"/", "*">>) \/ Found(t, j, <<"*", "/">>) => h[j + 2] = g[j + 2]
        BY <3>3, <4>2
      <4>5. j <= L \/ j > L
        OBVIOUS
      <4> QED
        BY <4>3, <4>4, <4>5
    <3>5. h = [j \in k + 1 .. N |-> E(h, j)]
      <4>1. \A j \in k + 1 .. N : h[j] = E(g, j)
        <5> HIDE DEF E
        <5>1. \A j \in k + 2 .. N : g[j] = E(g, j)
          BY <3>2
        <5> QED
          BY <5>1
      <4> HIDE DEF E
      <4> QED
        BY <3>4, <4>1
    <3> HIDE DEF h, E
    <3> QED
      BY <3>5
  <2> HIDE DEF S
  <2> QED
    BY <2>1, <2>2
<1>2. 0 \in S
  <2>1. N \in Nat
    OBVIOUS
  <2> HIDE DEF S, N
  <2>2. 0 .. N \subseteq S
    BY <1>1, <2>1, Downwards
  <2> QED
    BY <2>1, <2>2
<1>3. f = [j \in 1 .. N |-> E(f, j)]
  <2> HIDE DEF E
  <2>1. \E g : g = [j \in 1 .. N |-> E(g, j)]
    BY <1>2
  <2> QED
    BY <2>1
<1>4. CommentEnds(f, t)
  <2> HIDE DEF f
  <2>1. \A j \in 1 .. N : f[j] = E(f, j)
    <3> HIDE DEF E
    <3> QED
      BY <1>3
  <2> QED
    BY ZenonT(60), <2>1 DEF CommentEnds
<1>5. CommentEnd(t, i) = f[i + 2][1]
  BY DEF CommentEnd
<1> QED
  BY <1>4, <1>5

(* What t has from q to before e, u has d places further. *)
Copied(t, q, e, u, d) ==
  /\ q + d >= 1 /\ e + d <= Len(u) + 1
  /\ \A k \in q .. e - 1 : u[k + d] = t[k]

(* The end of a string seen from a place in the text. *)
LEMMA QuotedStep ==
  ASSUME NEW t, Len(t) \in Nat, NEW i, NEW escapes, NEW f, QuotedEnds(f, t, i, escapes),
         NEW j \in Nat \ {0}, j <= Len(t)
  PROVE  f[j] = IF t[j] \in escapes THEN f[j + 2]
                ELSE IF t[j] # t[i] THEN f[j + 1]
                ELSE IF Found(t, j, <<t[i], t[i]>>) THEN f[j + 2]
                ELSE j + 1
<1>1. j \in 1 .. Len(t) + 2 /\ ~ (j > Len(t))
  OBVIOUS
<1>2. \A k \in 1 .. Len(t) + 2 :
        f[k] = IF k > Len(t) THEN 0
               ELSE IF t[k] \in escapes THEN f[k + 2]
               ELSE IF t[k] # t[i] THEN f[k + 1]
               ELSE IF Found(t, k, <<t[i], t[i]>>) THEN f[k + 2]
               ELSE k + 1
  BY DEF QuotedEnds
<1> QED
  BY <1>1, <1>2

(* A string that reaches the end of the text is not terminated. *)
LEMMA QuotedStop ==
  ASSUME NEW t, Len(t) \in Nat, NEW i, NEW escapes, NEW f, QuotedEnds(f, t, i, escapes),
         NEW j \in {Len(t) + 1, Len(t) + 2}
  PROVE  f[j] = 0
<1>1. j \in 1 .. Len(t) + 2 /\ j > Len(t)
  OBVIOUS
<1> QED
  BY <1>1 DEF QuotedEnds

(* The end of a comment seen from a place in the text, by depth. *)
LEMMA CommentSteps ==
  ASSUME NEW t, Len(t) \in Nat, NEW f, CommentEnds(f, t)
  PROVE  /\ \A j \in 1 .. Len(t) : \A depth \in Nat \ {0} :
              /\ Found(t, j, <<"/", "*">>) => f[j][depth] = f[j + 2][depth + 1]
              /\ ~ Found(t, j, <<"/", "*">>) /\ Found(t, j, <<"*", "/">>) =>
                   f[j][depth] = f[j + 2][depth - 1]
              /\ ~ Found(t, j, <<"/", "*">>) /\ ~ Found(t, j, <<"*", "/">>) =>
                   f[j][depth] = f[j + 1][depth]
         /\ \A depth \in Nat \ {0} : f[Len(t) + 1][depth] = 0
         /\ \A j \in 1 .. Len(t) + 1 : f[j][0] = j
<1>1. \A j \in 1 .. Len(t) + 1 : \A depth \in Nat :
        f[j][depth] = IF depth = 0 THEN j
                  ELSE IF j > Len(t) THEN 0
                  ELSE IF Found(t, j, <<"/", "*">>) THEN f[j + 2][depth + 1]
                  ELSE IF Found(t, j, <<"*", "/">>) THEN f[j + 2][depth - 1]
                  ELSE f[j + 1][depth]
  BY DEF CommentEnds
<1>2. ASSUME NEW j \in 1 .. Len(t), NEW depth \in Nat \ {0}
      PROVE  f[j][depth] = IF Found(t, j, <<"/", "*">>) THEN f[j + 2][depth + 1]
                           ELSE IF Found(t, j, <<"*", "/">>) THEN f[j + 2][depth - 1]
                           ELSE f[j + 1][depth]
  <2>1. j \in 1 .. Len(t) + 1 /\ ~ (j > Len(t)) /\ depth \in Nat /\ depth # 0
    OBVIOUS
  <2> QED
    BY <1>1, <2>1
<1>3. ASSUME NEW depth \in Nat \ {0} PROVE f[Len(t) + 1][depth] = 0
  <2>1. Len(t) + 1 \in 1 .. Len(t) + 1 /\ Len(t) + 1 > Len(t) /\ depth \in Nat /\ depth # 0
    OBVIOUS
  <2> QED
    BY <1>1, <2>1
<1>4. \A j \in 1 .. Len(t) + 1 : f[j][0] = j
  BY <1>1
<1> QED
  BY <1>2, <1>3, <1>4

(* A string ends after a quote that is not doubled. *)
LEMMA QuotedRange ==
  ASSUME NEW t, Len(t) \in Nat, NEW i, NEW escapes, NEW f, QuotedEnds(f, t, i, escapes)
  PROVE  \A j \in 1 .. Len(t) + 2 :
           \/ f[j] = 0
           \/ /\ f[j] \in j + 1 .. Len(t) + 1 /\ t[f[j] - 1] = t[i]
              /\ ~ (f[j] <= Len(t) /\ t[f[j]] = t[i])
<1> DEFINE N == Len(t) + 2
           P(j) == \/ f[j] = 0
                   \/ /\ f[j] \in j + 1 .. Len(t) + 1 /\ t[f[j] - 1] = t[i]
                      /\ ~ (f[j] <= Len(t) /\ t[f[j]] = t[i])
           S == {j \in 0 .. N : j # 0 => P(j)}
<1>0. QuotedEnds(f, t, i, escapes) /\ Len(t) \in Nat
  OBVIOUS
<1>1. ASSUME NEW j \in 0 .. N, \A l \in j + 1 .. N : l \in S PROVE j \in S
  <2> SUFFICES ASSUME j # 0 PROVE P(j)
    OBVIOUS
  <2>1. j \in 1 .. N /\ \A l \in j + 1 .. N : P(l)
    BY <1>1
  <2> HIDE DEF S
  <2>2. CASE j > Len(t)
    <3>1. j \in {Len(t) + 1, Len(t) + 2}
      BY <2>1, <2>2
    <3>2. f[j] = 0
      <4> HIDE DEF P, N
      <4> QED
        BY <1>0, <3>1, QuotedStop
    <3> QED
      BY <3>2
  <2>3. CASE j <= Len(t)
    <3>1. j + 1 \in j + 1 .. N /\ j + 2 \in j + 1 .. N
      BY <2>1, <2>3
    <3>2. P(j + 1) /\ P(j + 2)
      BY <2>1, <3>1
    <3>3. f[j] \in {f[j + 1], f[j + 2]} \/ (f[j] = j + 1 /\ t[j] = t[i] /\ ~ Found(t, j, <<t[i], t[i]>>))
      <4>1. j \in Nat \ {0}
        BY <2>1
      <4> HIDE DEF P, N
      <4>2. f[j] = IF t[j] \in escapes THEN f[j + 2]
                   ELSE IF t[j] # t[i] THEN f[j + 1]
                   ELSE IF Found(t, j, <<t[i], t[i]>>) THEN f[j + 2]
                   ELSE j + 1
        BY <1>0, <4>1, <2>3, QuotedStep
      <4> QED
        BY <4>2
    <3>4. CASE f[j] \in {f[j + 1], f[j + 2]}
      <4>1. CASE f[j] = f[j + 1]
        BY <2>1, <2>3, <3>2, <4>1
      <4>2. CASE f[j] = f[j + 2]
        BY <2>1, <2>3, <3>2, <4>2
      <4> QED
        BY <3>4, <4>1, <4>2
    <3>5. CASE f[j] = j + 1 /\ t[j] = t[i] /\ ~ Found(t, j, <<t[i], t[i]>>)
      <4>1. ~ (j + 1 <= Len(t) /\ t[j + 1] = t[i])
        BY <2>1, <3>5, FoundIs
      <4> QED
        BY <2>1, <2>3, <3>5, <4>1
    <3> QED
      BY <3>3, <3>4, <3>5
  <2> QED
    BY <2>1, <2>2, <2>3
<1>2. 0 .. N \subseteq S
  <2>1. N \in Nat
    OBVIOUS
  <2> HIDE DEF S, N
  <2> QED
    BY <1>1, <2>1, Downwards
<1> QED
  BY <1>2

(* A string ends in the same place of a copy of it, unless the copy goes   *)
(* on with a quote.                                                        *)
LEMMA QuotedCopied ==
  ASSUME NEW t, Len(t) \in Nat, NEW u, Len(u) \in Nat, NEW i \in 1 .. Len(t), NEW d \in Int,
         NEW escapes, NEW e, e = QuotedEnd(t, i, escapes), e # 0, Copied(t, i, e, u, d),
         ~ (e + d <= Len(u) /\ u[e + d] = t[i])
  PROVE  QuotedEnd(u, i + d, escapes) = e + d
<1>1. PICK f : QuotedEnds(f, t, i, escapes) /\ e = f[i + 1]
  BY QuotedEndIs
<1>2. PICK g : QuotedEnds(g, u, i + d, escapes) /\ QuotedEnd(u, i + d, escapes) = g[(i + d) + 1]
  BY QuotedEndIs
<1>3. \A j \in 1 .. Len(t) + 2 : f[j] = 0 \/ f[j] \in j + 1 .. Len(t) + 1
  BY <1>1, QuotedRange
<1>4. e \in i + 2 .. Len(t) + 1
  <2>1. i + 1 \in 1 .. Len(t) + 2
    OBVIOUS
  <2> QED
    BY <1>1, <1>3, <2>1
<1>5. i + d >= 1 /\ e + d <= Len(u) + 1 /\ \A k \in i .. e - 1 : u[k + d] = t[k]
  BY DEF Copied
<1>6. u[i + d] = t[i]
  BY <1>4, <1>5
<1> DEFINE N == Len(t) + 2
           P(j) == f[j] = e /\ j > i => g[j + d] = e + d
           S == {j \in 0 .. N : j # 0 => P(j)}
<1>7. ASSUME NEW j \in 0 .. N, \A l \in j + 1 .. N : l \in S PROVE j \in S
  <2> SUFFICES ASSUME j # 0, f[j] = e, j > i PROVE g[j + d] = e + d
    OBVIOUS
  <2>1. j \in 1 .. N /\ \A l \in j + 1 .. N : P(l)
    BY <1>7
  <2> HIDE DEF S
  <2>2. j < e /\ j <= Len(t)
    BY <1>3, <1>4, <2>1
  <2>3. P(j + 1) /\ P(j + 2)
    BY <2>1, <2>2
  <2>4. j + d \in Nat \ {0} /\ j + d <= Len(u) /\ u[j + d] = t[j]
    BY SMTT(40), <1>4, <1>5, <2>1, <2>2
  <2>5. j \in Nat \ {0}
    BY <2>1
  <2>6. f[j] = IF t[j] \in escapes THEN f[j + 2]
               ELSE IF t[j] # t[i] THEN f[j + 1]
               ELSE IF Found(t, j, <<t[i], t[i]>>) THEN f[j + 2]
               ELSE j + 1
    <3> HIDE DEF P, N
    <3> QED
      BY <1>1, <2>2, <2>5, QuotedStep
  <2>7. g[j + d] = IF u[j + d] \in escapes THEN g[(j + d) + 2]
               ELSE IF u[j + d] # u[i + d] THEN g[(j + d) + 1]
               ELSE IF Found(u, j + d, <<u[i + d], u[i + d]>>) THEN g[(j + d) + 2]
               ELSE (j + d) + 1
    <3> DEFINE k == j + d
               r == i + d
    <3>1. k \in Nat \ {0} /\ k <= Len(u)
      BY <2>4
    <3>2. QuotedEnds(g, u, r, escapes)
      BY <1>2
    <3> HIDE DEF P, N, k, r
    <3>3. g[k] = IF u[k] \in escapes THEN g[k + 2]
               ELSE IF u[k] # u[r] THEN g[k + 1]
               ELSE IF Found(u, k, <<u[r], u[r]>>) THEN g[k + 2]
               ELSE k + 1
      BY SMTT(40), <3>1, <3>2, QuotedStep
    <3> QED
      BY <3>3 DEF k, r
  <2>8. g[(j + d) + 2] = g[(j + 2) + d] /\ g[(j + d) + 1] = g[(j + 1) + d]
    <3>1. (j + d) + 2 = (j + 2) + d /\ (j + d) + 1 = (j + 1) + d
      BY <2>5
    <3> QED
      BY <3>1
  <2>9. CASE t[j] \in escapes
    <3>1. f[j + 2] = e
      BY <2>6, <2>9
    <3> QED
      BY <2>3, <2>4, <2>5, <2>7, <2>8, <2>9, <3>1
  <2>10. CASE t[j] \notin escapes /\ t[j] # t[i]
    <3>1. f[j + 1] = e
      BY <2>6, <2>10
    <3> QED
      BY <1>6, <2>3, <2>4, <2>5, <2>7, <2>8, <2>10, <3>1
  <2>11. CASE t[j] \notin escapes /\ t[j] = t[i]
    <3>1. Found(t, j, <<t[i], t[i]>>) <=> j + 1 <= Len(t) /\ t[j + 1] = t[i]
      BY <2>5, <2>11, FoundIs
    <3>2. Found(u, j + d, <<u[i + d], u[i + d]>>)
            <=> (j + d) + 1 <= Len(u) /\ u[(j + d) + 1] = t[i]
      <4> DEFINE k == j + d
                 r == i + d
      <4>1. k \in Nat /\ u[k] = t[i] /\ u[r] = t[i]
        BY <1>6, <2>4, <2>11
      <4> HIDE DEF P, N, k, r
      <4>2. Found(u, k, <<u[r], u[r]>>) <=> k + 1 <= Len(u) /\ u[k + 1] = t[i]
        BY <4>1, FoundIs
      <4> QED
        BY <4>2 DEF k, r
    <3>3. CASE j + 1 < e
      <4>1. (j + d) + 1 <= Len(u) /\ u[(j + d) + 1] = t[j + 1] /\ j + 1 <= Len(t)
        <5>1. j + 1 \in i .. e - 1 /\ (j + d) + 1 = (j + 1) + d
          BY <2>2, <2>5, <1>4, <3>3
        <5>2. u[(j + 1) + d] = t[j + 1]
          BY <1>5, <5>1
        <5>3. (j + 1) + d <= Len(u) /\ j + 1 <= Len(t)
          BY SMTT(40), <1>4, <1>5, <2>5, <3>3
        <5> QED
          BY <5>1, <5>2, <5>3
      <4>2. Found(t, j, <<t[i], t[i]>>) <=> Found(u, j + d, <<u[i + d], u[i + d]>>)
        BY <3>1, <3>2, <4>1
      <4>3. f[j] = j + 1 \/ Found(t, j, <<t[i], t[i]>>)
        BY <2>6, <2>11
      <4>4. Found(t, j, <<t[i], t[i]>>)
        BY <1>4, <2>5, <3>3, <4>3
      <4>5. f[j + 2] = e
        BY <2>6, <2>11, <4>4
      <4> QED
        BY <1>6, <2>3, <2>4, <2>5, <2>7, <2>8, <2>11, <4>2, <4>4, <4>5
    <3>4. CASE j + 1 = e
      <4>1. (j + d) + 1 = e + d
        BY <2>5, <3>4
      <4>2. ~ Found(u, j + d, <<u[i + d], u[i + d]>>)
        BY <3>2, <4>1
      <4> QED
        BY <1>6, <2>4, <2>7, <2>11, <4>1, <4>2
    <3> QED
      BY SMTT(40), <1>4, <2>2, <2>5, <3>3, <3>4
  <2> QED
    BY <2>9, <2>10, <2>11
<1>8. 0 .. N \subseteq S
  <2>1. N \in Nat
    OBVIOUS
  <2> HIDE DEF S, N
  <2> QED
    BY <1>7, <2>1, Downwards
<1>9. P(i + 1)
  <2>1. i + 1 \in 0 .. N /\ i + 1 # 0
    OBVIOUS
  <2> QED
    BY <1>8, <2>1
<1>10. (i + 1) + d = (i + d) + 1
  OBVIOUS
<1> QED
  BY <1>1, <1>2, <1>9, <1>10

(* A comment ends after a slash, two symbols on or more. *)
LEMMA CommentRange ==
  ASSUME NEW t, Len(t) \in Nat, NEW f, CommentEnds(f, t)
  PROVE  \A j \in 1 .. Len(t) + 1 : \A depth \in Nat \ {0} :
           f[j][depth] = 0 \/ (f[j][depth] \in j + 2 .. Len(t) + 1 /\ t[f[j][depth] - 1] = "/")
<1> DEFINE L == Len(t)
           V(j, v) == v = 0 \/ (v \in j + 2 .. L + 1 /\ t[v - 1] = "/")
           P(j) == \A depth \in Nat \ {0} : V(j, f[j][depth])
           S == {j \in 0 .. L + 1 : j # 0 => P(j)}
           opens(j) == Found(t, j, <<"/", "*">>)
           closes(j) == Found(t, j, <<"*", "/">>)
<1>1. /\ \A j \in 1 .. L : \A depth \in Nat \ {0} :
           /\ opens(j) => f[j][depth] = f[j + 2][depth + 1]
           /\ ~ opens(j) /\ closes(j) => f[j][depth] = f[j + 2][depth - 1]
           /\ ~ opens(j) /\ ~ closes(j) => f[j][depth] = f[j + 1][depth]
      /\ \A depth \in Nat \ {0} : f[L + 1][depth] = 0
      /\ \A j \in 1 .. L + 1 : f[j][0] = j
  BY CommentSteps
<1>2. /\ \A j \in 1 .. L : opens(j) => j + 1 <= L
      /\ \A j \in 1 .. L : closes(j) => j + 1 <= L /\ t[j + 1] = "/"
  BY FoundIs
<1>3. L \in Nat
  OBVIOUS
<1> HIDE DEF L, opens, closes
<1>4. ASSUME NEW j \in 0 .. L + 1, \A l \in j + 1 .. L + 1 : l \in S PROVE j \in S
  <2> SUFFICES ASSUME j # 0, NEW depth \in Nat \ {0} PROVE V(j, f[j][depth])
    OBVIOUS
  <2>1. j \in 1 .. L + 1 /\ \A l \in j + 1 .. L + 1 : P(l)
    BY <1>3, <1>4
  <2> HIDE DEF S
  <2>2. CASE j = L + 1
    BY <1>1, <2>2
  <2>3. CASE j \in 1 .. L
    <3>3. CASE opens(j)
      <4>0. j + 2 \in j + 1 .. L + 1 /\ depth + 1 \in Nat \ {0}
        BY <1>2, <1>3, <2>3, <3>3
      <4>1. f[j][depth] = f[j + 2][depth + 1] /\ V(j + 2, f[j + 2][depth + 1])
        <5> HIDE DEF V
        <5> QED
          BY <1>1, <2>1, <2>3, <3>3, <4>0
      <4> QED
        BY <1>3, <2>1, <4>1
    <3>4. CASE ~ opens(j) /\ closes(j)
      <4>0. j + 2 \in j + 1 .. L + 1 /\ t[j + 1] = "/"
        BY <1>2, <1>3, <2>3, <3>4
      <4>1. f[j][depth] = f[j + 2][depth - 1]
        <5> HIDE DEF V
        <5> QED
          BY <1>1, <2>3, <3>4
      <4>3. CASE depth = 1
        <5>1. f[j + 2][0] = j + 2
          BY <1>1, <1>3, <2>1, <4>0
        <5>2. f[j][depth] = j + 2
          BY <4>1, <4>3, <5>1
        <5> QED
          BY <1>3, <2>1, <4>0, <5>2
      <4>4. CASE depth # 1
        <5>0. depth - 1 \in Nat \ {0}
          BY <4>4
        <5>1. V(j + 2, f[j + 2][depth - 1])
          <6> HIDE DEF V
          <6> QED
            BY <2>1, <4>0, <5>0
        <5> QED
          BY <1>3, <2>1, <4>1, <5>1
      <4> QED
        BY <4>3, <4>4
    <3>5. CASE ~ opens(j) /\ ~ closes(j)
      <4>0. j + 1 \in j + 1 .. L + 1
        BY <1>3, <2>3
      <4>1. f[j][depth] = f[j + 1][depth] /\ V(j + 1, f[j + 1][depth])
        <5> HIDE DEF V
        <5> QED
          BY <1>1, <2>1, <2>3, <3>5, <4>0
      <4> QED
        BY <1>3, <2>1, <4>1
    <3> QED
      BY <3>3, <3>4, <3>5
  <2> QED
    BY <1>3, <2>1, <2>2, <2>3
<1>5. 0 .. L + 1 \subseteq S
  <2> DEFINE N == L + 1
  <2>1. N \in Nat
    BY <1>3
  <2>2. \A k \in 0 .. N : (\A l \in k + 1 .. N : l \in S) => k \in S
    BY <1>4
  <2> HIDE DEF S, N
  <2>3. 0 .. N \subseteq S
    BY <2>1, <2>2, Downwards
  <2> QED
    BY <2>3 DEF N
<1>6. \A j \in 1 .. L + 1 : P(j)
  BY <1>3, <1>5
<1> QED
  BY <1>6 DEF L

(* A comment ends in the same place of a copy of it. *)
LEMMA CommentCopied ==
  ASSUME NEW t, Len(t) \in Nat, NEW u, Len(u) \in Nat, NEW i \in 1 .. Len(t), NEW d \in Int,
         Found(t, i, <<"/", "*">>),
         NEW e, e = CommentEnd(t, i), e # 0, Copied(t, i, e, u, d)
  PROVE  CommentEnd(u, i + d) = e + d
<1>1. PICK f : CommentEnds(f, t) /\ e = f[i + 2][1]
  BY CommentEndIs
<1>2. PICK g : CommentEnds(g, u) /\ CommentEnd(u, i + d) = g[(i + d) + 2][1]
  BY CommentEndIs
<1> DEFINE L == Len(t)
           M == Len(u)
           opens(j) == Found(t, j, <<"/", "*">>)
           closes(j) == Found(t, j, <<"*", "/">>)
           Opens(j) == Found(u, j, <<"/", "*">>)
           Closes(j) == Found(u, j, <<"*", "/">>)
<1>3. /\ \A j \in 1 .. L : \A depth \in Nat \ {0} :
           /\ opens(j) => f[j][depth] = f[j + 2][depth + 1]
           /\ ~ opens(j) /\ closes(j) => f[j][depth] = f[j + 2][depth - 1]
           /\ ~ opens(j) /\ ~ closes(j) => f[j][depth] = f[j + 1][depth]
      /\ \A depth \in Nat \ {0} : f[L + 1][depth] = 0
      /\ \A j \in 1 .. L + 1 : f[j][0] = j
  BY <1>1, CommentSteps
<1>4. /\ \A j \in 1 .. M : \A depth \in Nat \ {0} :
           /\ Opens(j) => g[j][depth] = g[j + 2][depth + 1]
           /\ ~ Opens(j) /\ Closes(j) => g[j][depth] = g[j + 2][depth - 1]
           /\ ~ Opens(j) /\ ~ Closes(j) => g[j][depth] = g[j + 1][depth]
      /\ \A j \in 1 .. M + 1 : g[j][0] = j
  BY <1>2, CommentSteps
<1>5. /\ \A j \in 1 .. L : opens(j) <=> j + 1 <= L /\ t[j] = "/" /\ t[j + 1] = "*"
      /\ \A j \in 1 .. L : closes(j) <=> j + 1 <= L /\ t[j] = "*" /\ t[j + 1] = "/"
      /\ \A j \in 1 .. M : Opens(j) <=> j + 1 <= M /\ u[j] = "/" /\ u[j + 1] = "*"
      /\ \A j \in 1 .. M : Closes(j) <=> j + 1 <= M /\ u[j] = "*" /\ u[j + 1] = "/"
  BY SMTT(40), FoundIs
<1>6. \A j \in 1 .. L + 1 : \A depth \in Nat \ {0} :
        f[j][depth] = 0 \/ f[j][depth] \in j + 2 .. L + 1
  BY <1>1, CommentRange
<1>7. L \in Nat /\ M \in Nat
  OBVIOUS
<1>8. i \in 1 .. L /\ i + 1 <= L
  BY <1>5
<1> HIDE DEF L, M, opens, closes, Opens, Closes
<1>9. e \in i + 4 .. L + 1
  <2>1. i + 2 \in 1 .. L + 1
    BY <1>7, <1>8
  <2> QED
    BY <1>1, <1>6, <1>7, <1>8, <2>1
<1>10. i + d >= 1 /\ e + d <= M + 1 /\ \A k \in i .. e - 1 : u[k + d] = t[k]
  BY DEF Copied, M
<1> DEFINE P(j) == \A depth \in Nat \ {0} : f[j][depth] = e => g[j + d][depth] = e + d
           S == {j \in 0 .. L + 1 : j > i => P(j)}
<1>11. ASSUME NEW j \in 0 .. L + 1, \A l \in j + 1 .. L + 1 : l \in S PROVE j \in S
  <2> SUFFICES ASSUME j > i, NEW depth \in Nat \ {0}, f[j][depth] = e PROVE g[j + d][depth] = e + d
    OBVIOUS
  <2>1. j \in 1 .. L + 1 /\ \A l \in j + 1 .. L + 1 : P(l)
    BY <1>7, <1>8, <1>11
  <2> HIDE DEF S
  <2>2. j + 2 <= e /\ j \in 1 .. L
    BY <1>6, <1>7, <1>9, <2>1
  <2>3. P(j + 1) /\ P(j + 2)
    BY SMTT(40), <1>7, <1>9, <2>1, <2>2
  <2>4. j + d \in 1 .. M /\ j + d + 1 <= M /\ u[j + d] = t[j] /\ u[j + d + 1] = t[j + 1] /\ j + 1 <= L
    <3>1. j \in i .. e - 1 /\ j + 1 \in i .. e - 1 /\ (j + 1) + d = j + d + 1
      BY <1>8, <1>9, <2>2
    <3>2. u[j + d] = t[j] /\ u[(j + 1) + d] = t[j + 1]
      BY <1>10, <3>1
    <3>3. i + d >= 1 /\ e + d <= M + 1
      BY <1>10
    <3>4. j + d \in 1 .. M /\ j + d + 1 <= M /\ j + 1 <= L
      BY <1>7, <1>8, <1>9, <2>2, <3>3
    <3>5. u[j + d + 1] = t[j + 1]
      BY <3>1, <3>2
    <3> QED
      BY <3>2, <3>4, <3>5
  <2>5. (opens(j) <=> Opens(j + d)) /\ (closes(j) <=> Closes(j + d))
    <3>1. (opens(j) <=> t[j] = "/" /\ t[j + 1] = "*") /\ (closes(j) <=> t[j] = "*" /\ t[j + 1] = "/")
      BY <1>5, <2>2, <2>4
    <3>2. /\ Opens(j + d) <=> u[j + d] = "/" /\ u[j + d + 1] = "*"
          /\ Closes(j + d) <=> u[j + d] = "*" /\ u[j + d + 1] = "/"
      BY <1>5, <2>4
    <3> QED
      BY <2>4, <3>1, <3>2
  <2>6. (j + d) + 2 = (j + 2) + d /\ (j + d) + 1 = (j + 1) + d
    BY <2>2
  <2>7. CASE opens(j)
    <3>0. depth + 1 \in Nat \ {0}
      OBVIOUS
    <3>1. f[j + 2][depth + 1] = e
      <4>1. f[j][depth] = f[j + 2][depth + 1]
        BY <1>3, <2>2, <2>7
      <4> QED
        BY <4>1
    <3>2. g[(j + 2) + d][depth + 1] = e + d
      BY <2>3, <3>0, <3>1
    <3>3. g[j + d][depth] = g[(j + d) + 2][depth + 1]
      BY <1>4, <2>4, <2>5, <2>7
    <3> QED
      BY <2>6, <3>2, <3>3
  <2>8. CASE ~ opens(j) /\ closes(j)
    <3>1. f[j + 2][depth - 1] = e
      BY <1>3, <2>2, <2>8
    <3>2. g[j + d][depth] = g[(j + d) + 2][depth - 1]
      BY <1>4, <2>4, <2>5, <2>8
    <3>3. CASE depth = 1
      <4>0. j + 2 \in 1 .. L + 1 /\ (j + d) + 2 \in 1 .. M + 1
        BY <1>7, <2>2, <2>4
      <4>1. f[j + 2][0] = j + 2 /\ g[(j + d) + 2][0] = (j + d) + 2
        BY <1>3, <1>4, <4>0
      <4>2. f[j + 2][0] = e /\ g[j + d][depth] = g[(j + d) + 2][0]
        BY <3>1, <3>2, <3>3
      <4> QED
        BY <2>6, <4>1, <4>2
    <3>4. CASE depth # 1
      <4>1. depth - 1 \in Nat \ {0}
        BY <3>4
      <4>2. g[(j + 2) + d][depth - 1] = e + d
        BY <2>3, <3>1, <4>1
      <4> QED
        BY <2>6, <3>2, <4>2
    <3> QED
      BY <3>3, <3>4
  <2>9. CASE ~ opens(j) /\ ~ closes(j)
    <3>1. f[j + 1][depth] = e
      BY <1>3, <2>2, <2>9
    <3>2. g[(j + 1) + d][depth] = e + d
      BY <2>3, <3>1
    <3>3. g[j + d][depth] = g[(j + d) + 1][depth]
      BY <1>4, <2>4, <2>5, <2>9
    <3> QED
      BY <2>6, <3>2, <3>3
  <2> QED
    BY <2>7, <2>8, <2>9
<1>12. 0 .. L + 1 \subseteq S
  <2> DEFINE N == L + 1
  <2>1. N \in Nat
    BY <1>7
  <2>2. \A k \in 0 .. N : (\A l \in k + 1 .. N : l \in S) => k \in S
    BY <1>11
  <2> HIDE DEF S, N
  <2>3. 0 .. N \subseteq S
    BY <2>1, <2>2, Downwards
  <2> QED
    BY <2>3 DEF N
<1>13. P(i + 2)
  <2>1. i + 2 \in 0 .. L + 1 /\ i + 2 > i
    BY <1>7, <1>8
  <2> QED
    BY <1>12, <2>1
<1>14. g[(i + 2) + d][1] = e + d
  BY <1>1, <1>13
<1>15. (i + 2) + d = (i + d) + 2
  BY <1>8
<1> QED
  BY <1>2, <1>14, <1>15

(* The symbols an identifier goes on with. *)
WordLike == Words \cup {"$"}

(* An identifier ends where its letters do. *)
LEMMA WordEndIs ==
  ASSUME NEW t, Len(t) \in Nat, NEW i \in 1 .. Len(t)
  PROVE  /\ WordEnd(t, i) \in i + 1 .. Len(t) + 1
         /\ WordEnd(t, i) > Len(t) \/ t[WordEnd(t, i)] \notin WordLike
         /\ \A k \in i + 1 .. WordEnd(t, i) - 1 : t[k] \in WordLike
<1> DEFINE E == {j \in i + 1 .. Len(t) + 1 : j > Len(t) \/ t[j] \notin WordLike}
<1>1. WordEnd(t, i) = First(E)
  BY DEF WordEnd, WordLike
<1>2. E \in SUBSET (Nat \ {0}) /\ Len(t) + 1 \in E
  OBVIOUS
<1>3. First(E) \in E /\ \A k \in E : First(E) <= k
  <2> HIDE DEF E
  <2> QED
    BY <1>2, SmallFirst
<1>4. \A k \in i + 1 .. First(E) - 1 : t[k] \in WordLike
  <2> SUFFICES ASSUME NEW k \in i + 1 .. First(E) - 1, t[k] \notin WordLike PROVE FALSE
    OBVIOUS
  <2> DEFINE e == First(E)
  <2>1. e \in i + 1 .. Len(t) + 1 /\ \A l \in E : e <= l
    BY <1>3
  <2>2. k \in i + 1 .. Len(t) + 1 /\ k < e
    <3> HIDE DEF e
    <3> QED
      BY <2>1 DEF e
  <2>3. k \in E
    BY <2>2
  <2> HIDE DEF E, e
  <2> QED
    BY <2>1, <2>2, <2>3
<1> QED
  BY <1>1, <1>3, <1>4

(* It ends nowhere else. *)
LEMMA WordEndOnly ==
  ASSUME NEW t, Len(t) \in Nat, NEW i \in 1 .. Len(t), NEW e \in i + 1 .. Len(t) + 1,
         e > Len(t) \/ t[e] \notin WordLike,
         \A k \in i + 1 .. e - 1 : t[k] \in WordLike
  PROVE  WordEnd(t, i) = e
<1> DEFINE w == WordEnd(t, i)
<1>1. /\ w \in i + 1 .. Len(t) + 1
      /\ w > Len(t) \/ t[w] \notin WordLike
      /\ \A k \in i + 1 .. w - 1 : t[k] \in WordLike
  BY WordEndIs
<1> HIDE DEF w
<1>2. ~ (w < e)
  <2> SUFFICES ASSUME w < e PROVE FALSE
    OBVIOUS
  <2>1. w \in i + 1 .. e - 1 /\ ~ (w > Len(t))
    BY <1>1
  <2> QED
    BY <1>1, <2>1
<1>3. ~ (e < w)
  <2> SUFFICES ASSUME e < w PROVE FALSE
    OBVIOUS
  <2>1. e \in i + 1 .. w - 1 /\ ~ (e > Len(t))
    BY <1>1
  <2> QED
    BY <1>1, <2>1
<1>4. w = e
  BY <1>1, <1>2, <1>3
<1> QED
  BY <1>4 DEF w

(* A comment to the end of the line, or of the text. *)
LEMMA LineEndIs ==
  ASSUME NEW t, Len(t) \in Nat, NEW i \in 1 .. Len(t), i + 1 <= Len(t)
  PROVE  /\ LineEnd(t, i) \in i + 2 .. Len(t) + 1
         /\ \/ LineEnd(t, i) = Len(t) + 1 /\ \A k \in i + 2 .. Len(t) : t[k] # "newline"
            \/ /\ LineEnd(t, i) \in i + 3 .. Len(t) + 1 /\ t[LineEnd(t, i) - 1] = "newline"
               /\ \A k \in i + 2 .. LineEnd(t, i) - 2 : t[k] # "newline"
<1> DEFINE B == {j \in i + 2 .. Len(t) : t[j] = "newline"}
<1>1. LineEnd(t, i) = IF B = {} THEN Len(t) + 1 ELSE Min(B) + 1
  BY DEF LineEnd
<1>2. CASE B = {}
  <2>1. LineEnd(t, i) = Len(t) + 1 /\ \A k \in i + 2 .. Len(t) : t[k] # "newline"
    BY <1>1, <1>2
  <2> QED
    BY <2>1
<1>3. CASE B # {}
  <2> DEFINE m == Min(B)
  <2>1. B \in SUBSET Nat
    OBVIOUS
  <2>2. m \in B /\ \A k \in B : m <= k
    <3> HIDE DEF B
    <3> QED
      BY <1>3, <2>1, MinIs
  <2>3. LineEnd(t, i) = m + 1
    BY <1>1, <1>3
  <2> HIDE DEF m
  <2>4. m \in i + 2 .. Len(t) /\ t[m] = "newline"
    BY <2>2
  <2>5. \A k \in i + 2 .. m - 1 : t[k] # "newline"
    <3> SUFFICES ASSUME NEW k \in i + 2 .. m - 1, t[k] = "newline" PROVE FALSE
      OBVIOUS
    <3>1. k \in B /\ k < m
      BY <2>4
    <3> QED
      BY <2>2, <2>4, <3>1
  <2>6. m + 1 - 1 = m /\ m + 1 - 2 = m - 1 /\ m + 1 \in i + 3 .. Len(t) + 1
    BY <2>4
  <2> QED
    BY <2>3, <2>4, <2>5, <2>6
<1> QED
  BY <1>2, <1>3

(* The place with these properties is where the line comment ends. *)
LEMMA LineEndOnly ==
  ASSUME NEW t, Len(t) \in Nat, NEW i \in 1 .. Len(t), i + 1 <= Len(t), NEW e \in i + 2 .. Len(t) + 1,
         \/ e = Len(t) + 1 /\ \A k \in i + 2 .. Len(t) : t[k] # "newline"
         \/ e > i + 2 /\ t[e - 1] = "newline" /\ \A k \in i + 2 .. e - 2 : t[k] # "newline"
  PROVE  LineEnd(t, i) = e
<1> DEFINE w == LineEnd(t, i)
<1>1. /\ w \in i + 2 .. Len(t) + 1
      /\ \/ w = Len(t) + 1 /\ \A k \in i + 2 .. Len(t) : t[k] # "newline"
         \/ /\ w \in i + 3 .. Len(t) + 1 /\ t[w - 1] = "newline"
            /\ \A k \in i + 2 .. w - 2 : t[k] # "newline"
  BY LineEndIs
<1> HIDE DEF w
<1>2. ~ (w < e)
  <2> SUFFICES ASSUME w < e PROVE FALSE
    OBVIOUS
  <2>1. w \in i + 3 .. Len(t) + 1 /\ t[w - 1] = "newline"
    BY <1>1
  <2>2. w - 1 \in i + 2 .. e - 2 /\ w - 1 \in i + 2 .. Len(t)
    BY <2>1
  <2> QED
    BY <2>1, <2>2
<1>3. ~ (e < w)
  <2> SUFFICES ASSUME e < w PROVE FALSE
    OBVIOUS
  <2>1. e > i + 2 /\ t[e - 1] = "newline"
    BY <1>1
  <2>2. e - 1 \in i + 2 .. w - 2 /\ e - 1 \in i + 2 .. Len(t)
    BY <1>1, <2>1
  <2> QED
    BY <1>1, <2>1, <2>2
<1>4. w = e
  BY <1>1, <1>2, <1>3
<1> QED
  BY <1>4 DEF w

(* A marker: words between two dollars. *)
Marker(t, i, j) ==
  /\ t[i] = "$" /\ j \in i + 1 .. Len(t) /\ t[j] = "$" /\ \A k \in i + 1 .. j - 1 : t[k] \in Words

(* MarkerEnd is the end of the marker at i, if there is one. *)
LEMMA MarkerEndIs ==
  ASSUME NEW t, Len(t) \in Nat, NEW i \in 1 .. Len(t)
  PROVE  /\ MarkerEnd(t, i) # 0 => MarkerEnd(t, i) \in Nat /\ Marker(t, i, MarkerEnd(t, i) - 1)
         /\ \A j \in i + 1 .. Len(t) : Marker(t, i, j) => MarkerEnd(t, i) = j + 1
         /\ MarkerEnd(t, i) \in Nat
<1> DEFINE D == {k \in i + 1 .. Len(t) : t[k] = "$"}
           f == First(D)
<1>1. D \in SUBSET (Nat \ {0})
  OBVIOUS
<1>2. (f = 0 <=> D = {}) /\ (D # {} => f \in D /\ \A k \in D : f <= k)
  <2> HIDE DEF D
  <2> QED
    BY <1>1, SmallFirst
<1>3. MarkerEnd(t, i) = IF t[i] = "$" /\ f > 0 /\ \A k \in i + 1 .. f - 1 : t[k] \in Words
                        THEN f + 1 ELSE 0
  BY DEF MarkerEnd
<1> HIDE DEF f
<1>4. f \in Nat /\ (f # 0 => f \in i + 1 .. Len(t) /\ t[f] = "$")
  BY <1>2
<1>5. ASSUME MarkerEnd(t, i) # 0
      PROVE  MarkerEnd(t, i) \in Nat /\ Marker(t, i, MarkerEnd(t, i) - 1)
  <2>1. t[i] = "$" /\ f > 0 /\ (\A k \in i + 1 .. f - 1 : t[k] \in Words) /\ MarkerEnd(t, i) = f + 1
    BY <1>3, <1>5
  <2>2. f + 1 - 1 = f /\ f # 0
    BY <1>4, <2>1
  <2>3. Marker(t, i, f)
    BY <1>4, <2>1, <2>2 DEF Marker
  <2> QED
    BY <1>4, <2>1, <2>2, <2>3
<1>6. ASSUME NEW j \in i + 1 .. Len(t), Marker(t, i, j) PROVE MarkerEnd(t, i) = j + 1
  <2>1. t[i] = "$" /\ t[j] = "$" /\ \A k \in i + 1 .. j - 1 : t[k] \in Words
    BY <1>6 DEF Marker
  <2>2. j \in D
    BY <2>1
  <2>3. f # 0 /\ f <= j
    BY <1>2, <2>2
  <2>4. ~ (f < j)
    <3> SUFFICES ASSUME f < j PROVE FALSE
      OBVIOUS
    <3>1. f \in i + 1 .. j - 1
      BY <1>4, <2>3
    <3> QED
      BY <1>4, <2>1, <2>3, <3>1, Symbols
  <2>5. f = j /\ f > 0
    BY <1>4, <2>3, <2>4
  <2> QED
    BY <1>3, <2>1, <2>5
<1>7. MarkerEnd(t, i) \in Nat
  BY <1>3, <1>4
<1> QED
  BY <1>5, <1>6, <1>7

(* A marker is a marker in a copy of it. *)
LEMMA MarkerCopied ==
  ASSUME NEW t, Len(t) \in Nat, NEW u, Len(u) \in Nat, NEW i \in 1 .. Len(t), NEW d \in Int,
         NEW m, m = MarkerEnd(t, i), m # 0, Copied(t, i, m, u, d)
  PROVE  MarkerEnd(u, i + d) = m + d
<1> DEFINE j == m - 1
<1>1. m \in Nat /\ Marker(t, i, j)
  BY MarkerEndIs
<1>2. i + d >= 1 /\ m + d <= Len(u) + 1 /\ \A k \in i .. m - 1 : u[k + d] = t[k]
  BY DEF Copied
<1>3. t[i] = "$" /\ j \in i + 1 .. Len(t) /\ t[j] = "$" /\ \A k \in i + 1 .. j - 1 : t[k] \in Words
  BY <1>1 DEF Marker
<1>4. i \in i .. m - 1 /\ j \in i .. m - 1 /\ j = m - 1 /\ j \in Nat
  BY <1>1, <1>3
<1> HIDE DEF j
<1>5. u[i + d] = "$" /\ u[j + d] = "$"
  BY <1>2, <1>3, <1>4
<1>6. i + d \in 1 .. Len(u) /\ j + d \in (i + d) + 1 .. Len(u)
  <2>1. i + d >= 1 /\ m + d <= Len(u) + 1 /\ m \in Nat /\ j \in i + 1 .. Len(t)
    BY <1>1, <1>2, <1>3
  <2> QED
    BY <1>4, <2>1
<1>7. ASSUME NEW k \in (i + d) + 1 .. (j + d) - 1 PROVE u[k] \in Words
  <2>1. k - d \in i + 1 .. j - 1 /\ k - d \in i .. m - 1 /\ (k - d) + d = k
    BY <1>4, <1>7
  <2>2. u[(k - d) + d] = t[k - d] /\ t[k - d] \in Words
    BY <1>2, <1>3, <2>1
  <2> QED
    BY <2>1, <2>2
<1>8. Marker(u, i + d, j + d)
  BY <1>5, <1>6, <1>7 DEF Marker
<1>9. MarkerEnd(u, i + d) = (j + d) + 1
  BY <1>6, <1>8, MarkerEndIs
<1> QED
  BY <1>1, <1>4, <1>9

(* A part of a text is a text. *)
LEMMA PartIs ==
  ASSUME NEW t \in Text, NEW a \in 1 .. Len(t) + 1, NEW b \in a - 1 .. Len(t)
  PROVE  /\ SubSeq(t, a, b) \in Text /\ Len(SubSeq(t, a, b)) = (b - a) + 1
         /\ \A k \in 1 .. (b - a) + 1 : SubSeq(t, a, b)[k] = t[(a + k) - 1]
<1>1. t \in Seq(Sym) /\ Len(t) \in Nat
  BY TextIs DEF Text
<1>2. b - a + 1 = (b - a) + 1 /\ \A k \in 1 .. (b - a) + 1 : a + k - 1 = (a + k) - 1
  BY <1>1
<1>3. SubSeq(t, a, b) \in Seq(Sym) /\ Len(SubSeq(t, a, b)) = (IF a <= b THEN b - a + 1 ELSE 0)
      /\ \A k \in 1 .. b - a + 1 : SubSeq(t, a, b)[k] = t[a + k - 1]
  BY <1>1, SubSeqProperties
<1> QED
  BY <1>1, <1>2, <1>3 DEF Text

(* The marker from i to before m is also at k. *)
Again(t, i, m, k) == k + (m - i) <= Len(t) + 1 /\ \A a \in 0 .. (m - i) - 1 : t[k + a] = t[i + a]

(* To find a part of the text elsewhere is to find its symbols again. *)
LEMMA FoundAgain ==
  ASSUME NEW t \in Text, NEW i \in 1 .. Len(t), NEW m \in i + 1 .. Len(t) + 1, NEW k \in Nat
  PROVE  Len(SubSeq(t, i, m - 1)) = m - i
         /\ (Found(t, k, SubSeq(t, i, m - 1)) <=> Again(t, i, m, k))
<1> DEFINE s == SubSeq(t, i, m - 1)
           L == Len(t)
<1>0. L \in Nat /\ t \in Text /\ i \in 1 .. L /\ m \in i + 1 .. L + 1
  BY TextIs
<1>1. s \in Text /\ Len(s) = m - i /\ \A a \in 1 .. m - i : s[a] = t[(i + a) - 1]
  <2>1. i \in 1 .. L + 1 /\ m - 1 \in i - 1 .. L /\ ((m - 1) - i) + 1 = m - i
    BY <1>0
  <2> HIDE DEF L
  <2>2. s \in Text /\ Len(s) = ((m - 1) - i) + 1 /\ \A a \in 1 .. ((m - 1) - i) + 1 : s[a] = t[(i + a) - 1]
    BY <2>1, PartIs DEF L
  <2> QED
    BY <2>1, <2>2
<1>2. DOMAIN s = 1 .. m - i
  BY <1>1, TextIs
<1> HIDE DEF s, L
<1>3. Found(t, k, s) <=> (k + (m - i)) - 1 <= L /\ \A a \in 1 .. m - i : t[(k + a) - 1] = s[a]
  <2>1. Found(t, k, s) <=> (k + Len(s)) - 1 <= L /\ \A a \in DOMAIN s : t[(k + a) - 1] = s[a]
    <3>1. Found(t, k, s) <=> k + Len(s) - 1 <= Len(t) /\ \A a \in DOMAIN s : t[k + a - 1] = s[a]
      BY DEF Found
    <3> QED
      BY SMTT(40), <3>1 DEF L
  <2> DEFINE D == DOMAIN s
  <2>2. D = 1 .. m - i /\ Len(s) = m - i
    BY <1>1, <1>2
  <2>3. Found(t, k, s) <=> (k + Len(s)) - 1 <= L /\ \A a \in D : t[(k + a) - 1] = s[a]
    BY <2>1
  <2> HIDE DEF D
  <2> QED
    BY <2>2, <2>3
<1>4. ASSUME \A a \in 1 .. m - i : t[(k + a) - 1] = s[a], NEW a \in 0 .. (m - i) - 1 PROVE t[k + a] = t[i + a]
  <2>1. a + 1 \in 1 .. m - i /\ (k + (a + 1)) - 1 = k + a /\ (i + (a + 1)) - 1 = i + a
    BY <1>0
  <2>2. t[(k + (a + 1)) - 1] = s[a + 1] /\ s[a + 1] = t[(i + (a + 1)) - 1]
    BY <1>1, <1>4, <2>1
  <2> QED
    BY <2>1, <2>2
<1>5. ASSUME \A a \in 0 .. (m - i) - 1 : t[k + a] = t[i + a], NEW a \in 1 .. m - i PROVE t[(k + a) - 1] = s[a]
  <2>1. a - 1 \in 0 .. (m - i) - 1 /\ k + (a - 1) = (k + a) - 1 /\ i + (a - 1) = (i + a) - 1
    BY <1>0
  <2>2. t[k + (a - 1)] = t[i + (a - 1)] /\ s[a] = t[(i + a) - 1]
    BY <1>1, <1>5, <2>1
  <2> QED
    BY <2>1, <2>2
<1>6. (k + (m - i)) - 1 <= L <=> k + (m - i) <= L + 1
  BY <1>0
<1>7. Found(t, k, s) <=> Again(t, i, m, k)
  BY <1>3, <1>4, <1>5, <1>6 DEF Again, L
<1> QED
  BY <1>1, <1>7 DEF s

(* A dollar string ends with the first repetition of its marker. *)
LEMMA DollarEndIs ==
  ASSUME NEW t \in Text, NEW i \in 1 .. Len(t), NEW m, m = MarkerEnd(t, i), m # 0
  PROVE  /\ m \in i + 2 .. Len(t) + 1 /\ t[i] = "$" /\ t[m - 1] = "$"
         /\ DollarEnd(t, i) \in Nat
         /\ DollarEnd(t, i) # 0 =>
              /\ DollarEnd(t, i) \in m + (m - i) .. Len(t) + 1
              /\ Again(t, i, m, DollarEnd(t, i) - (m - i))
              /\ \A k \in m .. (DollarEnd(t, i) - (m - i)) - 1 : ~ Again(t, i, m, k)
         /\ \A j \in m .. Len(t) :
              Again(t, i, m, j) /\ (\A k \in m .. j - 1 : ~ Again(t, i, m, k)) => DollarEnd(t, i) = j + (m - i)
<1> DEFINE L == Len(t)
           s == SubSeq(t, i, m - 1)
           A == {k \in m .. L : Found(t, k, s)}
           f == First(A)
<1>0. L \in Nat
  BY TextIs
<1>1. m \in i + 2 .. L + 1 /\ t[i] = "$" /\ t[m - 1] = "$"
  <2>1. m \in Nat /\ Marker(t, i, m - 1)
    BY <1>0, MarkerEndIs
  <2>2. t[i] = "$" /\ m - 1 \in i + 1 .. L /\ t[m - 1] = "$"
    BY <2>1 DEF Marker
  <2> QED
    BY <1>0, <2>1, <2>2
<1>2. DollarEnd(t, i) = IF f = 0 THEN 0 ELSE f + Len(s)
  BY DEF DollarEnd
<1>3. Len(s) = m - i /\ \A k \in m .. L : Found(t, k, s) <=> Again(t, i, m, k)
  <2>1. m \in i + 1 .. L + 1 /\ \A k \in m .. L : k \in Nat
    BY <1>0, <1>1
  <2>2. \A k \in Nat : Len(s) = m - i /\ (Found(t, k, s) <=> Again(t, i, m, k))
    <3> HIDE DEF A
    <3> QED
      BY <2>1, FoundAgain
  <2>3. 0 \in Nat
    OBVIOUS
  <2> HIDE DEF s
  <2> QED
    BY <2>1, <2>2, <2>3
<1> HIDE DEF s
<1>4. (f = 0 <=> A = {}) /\ (A # {} => f \in A /\ \A k \in A : f <= k)
  <2>1. A \in SUBSET (Nat \ {0})
    BY <1>0, <1>1
  <2> HIDE DEF A
  <2> QED
    BY <2>1, SmallFirst
<1> HIDE DEF f
<1>5. f # 0 => f \in m .. L /\ Again(t, i, m, f) /\ \A k \in m .. f - 1 : ~ Again(t, i, m, k)
  <2> SUFFICES ASSUME f # 0 PROVE f \in m .. L /\ Again(t, i, m, f) /\ \A k \in m .. f - 1 : ~ Again(t, i, m, k)
    OBVIOUS
  <2>1. f \in m .. L /\ Again(t, i, m, f)
    BY <1>3, <1>4
  <2>2. ASSUME NEW k \in m .. f - 1, Again(t, i, m, k) PROVE FALSE
    <3>1. k \in m .. L /\ k < f
      BY <1>0, <1>1, <2>1
    <3>2. k \in A
      BY <1>3, <2>2, <3>1
    <3> QED
      BY <1>0, <1>1, <1>4, <2>1, <3>1, <3>2
  <2> QED
    BY <2>1, <2>2
<1>6. f \in Nat
  BY <1>0, <1>1, <1>4
<1>7. DollarEnd(t, i) = IF f = 0 THEN 0 ELSE f + (m - i)
  BY <1>2, <1>3
<1>8. DollarEnd(t, i) \in Nat
  BY <1>1, <1>0, <1>6, <1>7
<1>9. ASSUME DollarEnd(t, i) # 0
      PROVE  /\ DollarEnd(t, i) \in m + (m - i) .. Len(t) + 1
              /\ Again(t, i, m, DollarEnd(t, i) - (m - i))
              /\ \A k \in m .. (DollarEnd(t, i) - (m - i)) - 1 : ~ Again(t, i, m, k)
  <2>1. f # 0 /\ DollarEnd(t, i) = f + (m - i)
    BY <1>7, <1>9
  <2>2. (f + (m - i)) - (m - i) = f
    BY <1>0, <1>1, <1>6
  <2>3. f + (m - i) <= L + 1
    BY <1>5, <2>1 DEF Again
  <2>4. f + (m - i) \in m + (m - i) .. L + 1
    BY <1>0, <1>1, <1>5, <2>1, <2>3
  <2> QED
    BY <1>5, <2>1, <2>2, <2>4
<1>10. ASSUME NEW j \in m .. L, Again(t, i, m, j), \A k \in m .. j - 1 : ~ Again(t, i, m, k)
       PROVE  DollarEnd(t, i) = j + (m - i)
  <2>1. j \in A
    BY <1>3, <1>10
  <2>2. f # 0 /\ f <= j
    BY <1>4, <2>1
  <2>3. ~ (f < j)
    <3> SUFFICES ASSUME f < j PROVE FALSE
      OBVIOUS
    <3>1. f \in m .. j - 1
      BY <1>0, <1>1, <1>5, <2>2
    <3> QED
      BY <1>5, <1>10, <2>2, <3>1
  <2>4. f = j
    BY <1>0, <1>1, <1>5, <2>2, <2>3
  <2> QED
    BY <1>7, <2>2, <2>4
<1> QED
  BY <1>1, <1>8, <1>9, <1>10

(* A dollar string ends in the same place of a copy of it. *)
LEMMA DollarCopied ==
  ASSUME NEW t \in Text, NEW u \in Text, NEW i \in 1 .. Len(t), NEW d \in Int,
         MarkerEnd(t, i) # 0, NEW e, e = DollarEnd(t, i), e # 0, Copied(t, i, e, u, d)
  PROVE  /\ MarkerEnd(u, i + d) = MarkerEnd(t, i) + d
         /\ DollarEnd(u, i + d) = e + d
<1> DEFINE m == MarkerEnd(t, i)
           M == m + d
           r == i + d
<1>0. Len(t) \in Nat /\ Len(u) \in Nat
  BY TextIs
<1>1. /\ m \in i + 2 .. Len(t) + 1 /\ e \in m + (m - i) .. Len(t) + 1
      /\ Again(t, i, m, e - (m - i)) /\ \A k \in m .. (e - (m - i)) - 1 : ~ Again(t, i, m, k)
  BY DollarEndIs
<1>2. r >= 1 /\ e + d <= Len(u) + 1 /\ \A k \in i .. e - 1 : u[k + d] = t[k]
  BY DEF Copied
<1>3. MarkerEnd(u, r) = M
  <2>1. Copied(t, i, m, u, d)
    <3>1. r >= 1 /\ e + d <= Len(u) + 1 /\ m <= e /\ m \in Int /\ e \in Int
      BY <1>0, <1>1, <1>2
    <3> HIDE DEF m
    <3>2. \A k \in i .. m - 1 : k \in i .. e - 1
      BY <1>0, <3>1
    <3>3. m + d <= Len(u) + 1
      BY <1>0, <3>1
    <3> QED
      BY <1>2, <3>1, <3>2, <3>3 DEF Copied
  <2> QED
    BY <1>0, <2>1, MarkerCopied
<1> HIDE DEF m
<1>4. r \in 1 .. Len(u) /\ M - r = m - i /\ M \in Nat /\ M # 0
  BY <1>0, <1>1, <1>2
<1>5. ASSUME NEW k \in m .. e - (m - i) PROVE Again(u, r, M, k + d) <=> Again(t, i, m, k)
  <2>1. k + (m - i) <= Len(t) + 1 /\ (k + d) + (m - i) <= Len(u) + 1
    BY SMTT(40), <1>0, <1>1, <1>2
  <2>2. ASSUME NEW a \in 0 .. (m - i) - 1 PROVE u[(k + d) + a] = t[k + a] /\ u[r + a] = t[i + a]
    <3>1. k + a \in i .. e - 1 /\ i + a \in i .. e - 1 /\ (k + a) + d = (k + d) + a /\ (i + a) + d = r + a
      BY SMTT(40), <1>0, <1>1
    <3>2. u[(k + a) + d] = t[k + a] /\ u[(i + a) + d] = t[i + a]
      BY <1>2, <3>1
    <3> HIDE DEF r
    <3> QED
      BY <3>1, <3>2
  <2> HIDE DEF r, M
  <2> QED
    BY <1>4, <2>1, <2>2 DEF Again
<1> DEFINE j == e - (m - i)
<1>6. j \in m .. Len(t) /\ j + d \in M .. Len(u)
  <2>1. m \in i + 2 .. Len(t) + 1 /\ e \in m + (m - i) .. Len(t) + 1 /\ e + d <= Len(u) + 1
    BY <1>1, <1>2
  <2> QED
    BY SMTT(40), <1>0, <2>1
<1>7. Again(u, r, M, j + d)
  <2>1. j \in m .. e - (m - i)
    BY <1>0, <1>1
  <2> HIDE DEF r, M
  <2> QED
    BY <1>1, <1>5, <2>1
<1>8. ASSUME NEW k \in M .. (j + d) - 1 PROVE ~ Again(u, r, M, k)
  <2>1. k - d \in m .. (e - (m - i)) - 1 /\ k - d \in m .. e - (m - i) /\ (k - d) + d = k
    BY SMTT(40), <1>0, <1>1
  <2> HIDE DEF r, M
  <2> QED
    BY <1>1, <1>5, <2>1
<1>9. DollarEnd(u, r) = (j + d) + (M - r)
  <2> HIDE DEF r, M, j
  <2>1. M = MarkerEnd(u, r) /\ j + d \in M .. Len(u)
    BY <1>3, <1>6
  <2> DEFINE J == j + d
  <2>2. J \in M .. Len(u) /\ Again(u, r, M, J) /\ \A k \in M .. J - 1 : ~ Again(u, r, M, k)
    BY <1>7, <1>8, <2>1
  <2> HIDE DEF J
  <2>3. DollarEnd(u, r) = J + (M - r)
    BY <1>4, <2>1, <2>2, DollarEndIs
  <2> QED
    BY <2>3 DEF J
<1>10. (j + d) + (M - r) = e + d
  BY <1>0, <1>1, <1>4
<1> QED
  BY <1>3, <1>9, <1>10 DEF m

(* Which of the tokens and comments starts at i, told by its symbols. *)
LEMMA ScanCases ==
  ASSUME NEW t, Len(t) \in Nat, NEW i \in 1 .. Len(t)
  PROVE  /\ t[i] \in Blanks => Scan(t, i) = Plain(t, i, i + 1, "blank")
         /\ Found(t, i, <<"-", "-">>) => Scan(t, i) = Plain(t, i, LineEnd(t, i), "comment")
         /\ Found(t, i, <<"/", "*">>) => Scan(t, i) = Plain(t, i, CommentEnd(t, i), "comment")
         /\ MarkerEnd(t, i) # 0 => Scan(t, i) = Dollar(t, i)
         /\ Found(t, i, <<"e", "'">>) => Scan(t, i) = Quoted(t, i, i + 1, "string")
         /\ t[i] = "'" => Scan(t, i) = Quoted(t, i, i, "string")
         /\ t[i] = DoubleQuote => Scan(t, i) = Quoted(t, i, i, "quoted_identifier")
         /\ t[i] \in Words /\ ~ Found(t, i, <<"e", "'">>) =>
              Scan(t, i) = Plain(t, i, WordEnd(t, i), "identifier")
         /\ /\ t[i] \notin Blanks /\ ~ Found(t, i, <<"-", "-">>) /\ ~ Found(t, i, <<"/", "*">>)
            /\ MarkerEnd(t, i) = 0 /\ t[i] # "'" /\ t[i] # DoubleQuote /\ t[i] \notin Words
            => Scan(t, i) = Plain(t, i, i + 1, "symbol")
<1> DEFINE b == t[i] \in Blanks
           l == Found(t, i, <<"-", "-">>)
           c == Found(t, i, <<"/", "*">>)
           m == MarkerEnd(t, i) > 0
           s == Found(t, i, <<"e", "'">>)
           x == t[i]
<1>1. /\ b <=> x = " " \/ x = "newline"
      /\ l => x = "-"
      /\ c => x = "/"
      /\ s => x = "e"
      /\ m => x = "$"
      /\ MarkerEnd(t, i) # 0 <=> m
  <2>1. (l => x = "-") /\ (c => x = "/") /\ (s => x = "e")
    BY FoundIs
  <2>2. MarkerEnd(t, i) \in Nat /\ (MarkerEnd(t, i) # 0 => x = "$")
    BY MarkerEndIs DEF Marker
  <2> QED
    BY <2>1, <2>2 DEF Blanks
<1>2. Scan(t, i) =
        CASE b -> Plain(t, i, i + 1, "blank")
          [] l -> Plain(t, i, LineEnd(t, i), "comment")
          [] c -> Plain(t, i, CommentEnd(t, i), "comment")
          [] m -> Dollar(t, i)
          [] s -> Quoted(t, i, i + 1, "string")
          [] x = "'" -> Quoted(t, i, i, "string")
          [] x = DoubleQuote -> Quoted(t, i, i, "quoted_identifier")
          [] x \in Words /\ ~ s -> Plain(t, i, WordEnd(t, i), "identifier")
          [] OTHER -> Plain(t, i, i + 1, "symbol")
  BY DEF Scan
<1>3. /\ "newline" \notin Words /\ " " \notin Words /\ "$" \notin Words /\ "-" \notin Words
      /\ "/" \notin Words /\ "'" \notin Words /\ DoubleQuote \notin Words /\ "e" \in Words
  BY Symbols
<1> HIDE DEF b, l, c, m, s, x
<1>4. b => Scan(t, i) = Plain(t, i, i + 1, "blank")
  BY <1>1, <1>2, <1>3, DoubleQuoteIs
<1>5. l => Scan(t, i) = Plain(t, i, LineEnd(t, i), "comment")
  BY <1>1, <1>2, <1>3, DoubleQuoteIs
<1>6. c => Scan(t, i) = Plain(t, i, CommentEnd(t, i), "comment")
  BY <1>1, <1>2, <1>3, DoubleQuoteIs
<1>7. m => Scan(t, i) = Dollar(t, i)
  BY <1>1, <1>2, <1>3, DoubleQuoteIs
<1>8. s => Scan(t, i) = Quoted(t, i, i + 1, "string")
  BY <1>1, <1>2, <1>3
<1>9. x = "'" => Scan(t, i) = Quoted(t, i, i, "string")
  BY <1>1, <1>2, <1>3, DoubleQuoteIs
<1>10. x = DoubleQuote => Scan(t, i) = Quoted(t, i, i, "quoted_identifier")
  BY <1>1, <1>2, <1>3, DoubleQuoteIs
<1>11. x \in Words /\ ~ s => Scan(t, i) = Plain(t, i, WordEnd(t, i), "identifier")
  BY <1>1, <1>2, <1>3
<1>12. ~ b /\ ~ l /\ ~ c /\ ~ m /\ x # "'" /\ x # DoubleQuote /\ x \notin Words
         => Scan(t, i) = Plain(t, i, i + 1, "symbol")
  BY <1>1, <1>2, <1>3
<1> QED
  <2>1. m <=> MarkerEnd(t, i) # 0
    BY <1>1
  <2>2. /\ b => Scan(t, i) = Plain(t, i, i + 1, "blank")
        /\ l => Scan(t, i) = Plain(t, i, LineEnd(t, i), "comment")
        /\ c => Scan(t, i) = Plain(t, i, CommentEnd(t, i), "comment")
        /\ MarkerEnd(t, i) # 0 => Scan(t, i) = Dollar(t, i)
        /\ s => Scan(t, i) = Quoted(t, i, i + 1, "string")
        /\ x = "'" => Scan(t, i) = Quoted(t, i, i, "string")
        /\ x = DoubleQuote => Scan(t, i) = Quoted(t, i, i, "quoted_identifier")
        /\ x \in Words /\ ~ s => Scan(t, i) = Plain(t, i, WordEnd(t, i), "identifier")
        /\ ~ b /\ ~ l /\ ~ c /\ MarkerEnd(t, i) = 0 /\ x # "'" /\ x # DoubleQuote /\ x \notin Words
             => Scan(t, i) = Plain(t, i, i + 1, "symbol")
    BY <2>1, <1>4, <1>5, <1>6, <1>7, <1>8, <1>9, <1>10, <1>11, <1>12
  <2> QED
    BY <2>2, Zenon DEF b, l, c, s, x

(* The fields of a token. *)
LEMMA TokenIs ==
  ASSUME NEW i, NEW j, NEW kind, NEW value
  PROVE  /\ Token(i, j, kind, value).start = i /\ Token(i, j, kind, value).end = j
         /\ Token(i, j, kind, value).value = value
         /\ Token(i, j, kind, value).kind = IF j = 0 THEN "unterminated" ELSE kind
BY DEF Token

(* Copies have equal parts. *)
LEMMA PartCopied ==
  ASSUME NEW t \in Text, NEW u \in Text, NEW q \in 1 .. Len(t), NEW e \in q .. Len(t) + 1,
         NEW d \in Int, Copied(t, q, e, u, d), NEW a \in q .. e, NEW b \in a - 1 .. e - 1
  PROVE  SubSeq(u, a + d, b + d) = SubSeq(t, a, b)
<1> DEFINE v == SubSeq(t, a, b)
           w == SubSeq(u, a + d, b + d)
<1>0. Len(t) \in Nat /\ Len(u) \in Nat
  BY TextIs
<1>1. q + d >= 1 /\ e + d <= Len(u) + 1 /\ \A k \in q .. e - 1 : u[k + d] = t[k]
  BY DEF Copied
<1>2. a \in 1 .. Len(t) + 1 /\ b \in a - 1 .. Len(t)
  BY <1>0
<1>3. a + d \in 1 .. Len(u) + 1 /\ b + d \in (a + d) - 1 .. Len(u) /\ (b + d) - (a + d) = b - a
  <2>1. q + d >= 1 /\ e + d <= Len(u) + 1
    BY <1>1
  <2> QED
    BY <1>0, <2>1
<1>4. v \in Text /\ Len(v) = (b - a) + 1 /\ \A k \in 1 .. (b - a) + 1 : v[k] = t[(a + k) - 1]
  BY <1>2, PartIs
<1>5. w \in Text /\ Len(w) = (b - a) + 1 /\ \A k \in 1 .. (b - a) + 1 : w[k] = u[((a + d) + k) - 1]
  <2> DEFINE A == a + d
             B == b + d
  <2>1. A \in 1 .. Len(u) + 1 /\ B \in A - 1 .. Len(u) /\ B - A = b - a
    BY <1>3
  <2> HIDE DEF A, B
  <2>2. SubSeq(u, A, B) \in Text /\ Len(SubSeq(u, A, B)) = (B - A) + 1
        /\ \A k \in 1 .. (B - A) + 1 : SubSeq(u, A, B)[k] = u[(A + k) - 1]
    BY <2>1, PartIs
  <2> QED
    BY <2>1, <2>2 DEF A, B
<1>6. ASSUME NEW k \in 1 .. Len(v) PROVE v[k] = w[k]
  <2>1. k \in 1 .. (b - a) + 1
    BY <1>4
  <2>2. (a + k) - 1 \in q .. e - 1 /\ ((a + d) + k) - 1 = ((a + k) - 1) + d
    BY <1>0, <2>1
  <2>3. v[k] = t[(a + k) - 1] /\ w[k] = u[((a + k) - 1) + d]
    BY <1>4, <1>5, <2>1, <2>2
  <2> QED
    BY <1>1, <2>2, <2>3
<1>7. v \in Seq(Sym) /\ w \in Seq(Sym) /\ Len(v) = Len(w)
  BY <1>4, <1>5 DEF Text
<1> HIDE DEF v, w
<1>8. v = w
  BY <1>6, <1>7, SeqEqual
<1> QED
  BY <1>8 DEF v, w

(* A comment to the end of the line that the end of the text closes. *)
OpenLine(t, i) == Found(t, i, <<"-", "-">>) /\ \A k \in i + 2 .. Len(t) : t[k] # "newline"

(* A token starts where it is scanned, ends later and within the text, and *)
(* not with a blank.                                                       *)
LEMMA ScanRange ==
  ASSUME NEW t \in Text, NEW i \in 1 .. Len(t)
  PROVE  /\ Scan(t, i).start = i
         /\ Scan(t, i).kind # "unterminated" => Scan(t, i).end \in i + 1 .. Len(t) + 1
         /\ Scan(t, i).kind \notin {"unterminated", "blank"} /\ ~ Found(t, i, <<"-", "-">>) =>
              t[Scan(t, i).end - 1] \notin Blanks
         /\ t[i] \in Blanks => Scan(t, i).end = i + 1 /\ Scan(t, i).kind = "blank"
         /\ Scan(t, i).kind = "blank" => t[i] \in Blanks
         /\ Scan(t, i).kind = "symbol" => Scan(t, i).end = i + 1 /\ Scan(t, i).value = <<t[i]>>
<1>0. Len(t) \in Nat
  BY TextIs
<1>1. CASE t[i] \in Blanks
  <2>1. Scan(t, i) = Plain(t, i, i + 1, "blank")
    BY <1>0, <1>1, ScanCases
  <2>2. Scan(t, i).start = i /\ Scan(t, i).end = i + 1 /\ Scan(t, i).kind = "blank"
    BY <1>0, <2>1, TokenIs DEF Plain
  <2>3. i + 1 \in i + 1 .. Len(t) + 1
    BY <1>0
  <2> QED
    BY <1>1, <2>2, <2>3
<1>2. CASE Found(t, i, <<"-", "-">>)
  <2>1. Scan(t, i) = Plain(t, i, LineEnd(t, i), "comment")
    BY <1>0, <1>2, ScanCases
  <2>2. i + 1 <= Len(t) /\ t[i] = "-"
    BY <1>0, <1>2, FoundIs
  <2>3. LineEnd(t, i) \in i + 2 .. Len(t) + 1
    BY <1>0, <2>2, LineEndIs
  <2>4. Scan(t, i).start = i /\ Scan(t, i).end = LineEnd(t, i) /\ Scan(t, i).kind = "comment"
    BY <1>0, <2>1, <2>3, TokenIs DEF Plain
  <2>5. t[i] \notin Blanks
    BY <2>2 DEF Blanks
  <2>6. LineEnd(t, i) \in i + 1 .. Len(t) + 1
    BY <1>0, <2>3
  <2> QED
    BY <1>2, <2>4, <2>5, <2>6
<1>3. CASE Found(t, i, <<"/", "*">>)
  <2> DEFINE e == CommentEnd(t, i)
  <2>1. Scan(t, i) = Plain(t, i, e, "comment")
    BY <1>0, <1>3, ScanCases
  <2>2. i + 1 <= Len(t) /\ t[i] = "/"
    BY <1>0, <1>3, FoundIs
  <2>3. e = 0 \/ (e \in i + 4 .. Len(t) + 1 /\ t[e - 1] = "/")
    <3>1. PICK f : CommentEnds(f, t) /\ e = f[i + 2][1]
      BY <1>0, CommentEndIs
    <3>2. \A j \in 1 .. Len(t) + 1 : \A depth \in Nat \ {0} :
            f[j][depth] = 0 \/ (f[j][depth] \in j + 2 .. Len(t) + 1 /\ t[f[j][depth] - 1] = "/")
      BY <1>0, <3>1, CommentRange
    <3>3. i + 2 \in 1 .. Len(t) + 1 /\ 1 \in Nat \ {0} /\ (i + 2) + 2 = i + 4
      BY <1>0, <2>2
    <3> HIDE DEF e
    <3> QED
      BY <3>1, <3>2, <3>3
  <2> HIDE DEF e
  <2>4. Scan(t, i).start = i /\ Scan(t, i).end = e /\ Scan(t, i).kind = IF e = 0 THEN "unterminated" ELSE "comment"
    BY <2>1, TokenIs DEF Plain
  <2>5. "/" \notin Blanks
    BY DEF Blanks
  <2>6. e # 0 => e \in i + 1 .. Len(t) + 1 /\ t[e - 1] \notin Blanks
    BY <1>0, <2>3, <2>5
  <2> QED
    BY <2>2, <2>4, <2>5, <2>6
<1>4. CASE MarkerEnd(t, i) # 0
  <2>1. Scan(t, i) = Dollar(t, i)
    BY <1>0, <1>4, ScanCases
  <2> DEFINE m == MarkerEnd(t, i)
             e == DollarEnd(t, i)
  <2>2. /\ m \in i + 2 .. Len(t) + 1 /\ t[i] = "$" /\ t[m - 1] = "$"
        /\ e # 0 => e \in m + (m - i) .. Len(t) + 1 /\ Again(t, i, m, e - (m - i))
    BY <1>4, DollarEndIs
  <2>3. Scan(t, i) = Token(i, e, "string", SubSeq(t, m, e - (m - i) - 1))
    BY <2>1 DEF Dollar
  <2> HIDE DEF m, e
  <2>4. e # 0 => t[e - 1] = "$" /\ e \in i + 1 .. Len(t) + 1
    <3> SUFFICES ASSUME e # 0 PROVE t[e - 1] = "$" /\ e \in i + 1 .. Len(t) + 1
      OBVIOUS
    <3> DEFINE a == (m - i) - 1
               k == e - (m - i)
    <3>1. a \in 0 .. (m - i) - 1 /\ k + a = e - 1 /\ i + a = m - 1
      BY <1>0, <2>2
    <3>2. t[k + a] = t[i + a]
      BY <2>2, <3>1 DEF Again
    <3> HIDE DEF a, k
    <3> QED
      BY <1>0, <2>2, <3>1, <3>2
  <2>5. "$" \notin Blanks
    BY DEF Blanks
  <2>6. Scan(t, i).start = i /\ Scan(t, i).end = e /\ Scan(t, i).kind = IF e = 0 THEN "unterminated" ELSE "string"
    BY <2>3, TokenIs
  <2> QED
    BY <2>2, <2>4, <2>5, <2>6
<1>5. ASSUME NEW q \in {i, i + 1}, q <= Len(t), t[q] \in {"'", DoubleQuote}, t[i] \notin Blanks, NEW kind \in {"string", "quoted_identifier"},
             Scan(t, i) = Quoted(t, i, q, kind)
      PROVE  /\ Scan(t, i).start = i
             /\ Scan(t, i).kind # "unterminated" => Scan(t, i).end \in i + 1 .. Len(t) + 1
                                                    /\ t[Scan(t, i).end - 1] \notin Blanks
             /\ Scan(t, i).kind # "blank" /\ Scan(t, i).kind # "symbol"
  <2> DEFINE B == IF q > i THEN {"\\"} ELSE {}
             e == QuotedEnd(t, q, B)
  <2>0. q \in {i, i + 1} /\ q <= Len(t)
    BY <1>5
  <2>1. q \in 1 .. Len(t)
    <3> HIDE DEF B, e
    <3> QED
      BY <1>0, <2>0
  <2>2. PICK f : QuotedEnds(f, t, q, B) /\ e = f[q + 1]
    <3> HIDE DEF B
    <3> QED
      BY SMTT(40), <1>0, <2>1, QuotedEndIs
  <2>3. Scan(t, i) = Token(i, e, kind, SubSeq(t, q + 1, e - 2))
    BY <1>5 DEF Quoted
  <2> HIDE DEF B, e
  <2>4. e = 0 \/ (e \in (q + 1) + 1 .. Len(t) + 1 /\ t[e - 1] = t[q])
    <3>1. \A j \in 1 .. Len(t) + 2 :
            f[j] = 0 \/ (f[j] \in j + 1 .. Len(t) + 1 /\ t[f[j] - 1] = t[q])
      BY <1>0, <2>2, QuotedRange
    <3>2. q + 1 \in 1 .. Len(t) + 2
      BY <1>0, <2>1
    <3> QED
      BY <2>2, <3>1, <3>2
  <2>5. t[q] \notin Blanks
    BY <1>5, DoubleQuoteIs DEF Blanks
  <2>6. e # 0 => e \in i + 1 .. Len(t) + 1 /\ t[e - 1] \notin Blanks
    BY <1>0, <2>0, <2>4, <2>5
  <2>7. Scan(t, i).start = i /\ Scan(t, i).end = e /\ Scan(t, i).kind = IF e = 0 THEN "unterminated" ELSE kind
    BY <2>3, TokenIs
  <2> QED
    BY <1>5, <2>6, <2>7
<1>6. CASE Found(t, i, <<"e", "'">>)
  <2>0. i + 1 <= Len(t) /\ t[i] = "e" /\ t[i + 1] = "'"
    BY <1>0, <1>6, FoundIs
  <2>1. t[i] \notin Blanks
    BY <2>0 DEF Blanks
  <2>2. Scan(t, i) = Quoted(t, i, i + 1, "string")
    BY <1>0, <1>6, ScanCases
  <2>3. /\ Scan(t, i).start = i
        /\ Scan(t, i).kind # "unterminated" => Scan(t, i).end \in i + 1 .. Len(t) + 1
                                               /\ t[Scan(t, i).end - 1] \notin Blanks
        /\ Scan(t, i).kind # "blank" /\ Scan(t, i).kind # "symbol"
    <3>1. i + 1 \in {i, i + 1} /\ t[i + 1] \in {"'", DoubleQuote} /\ "string" \in {"string", "quoted_identifier"}
      BY <2>0
    <3> QED
      BY <1>5, <2>0, <2>1, <2>2, <3>1
  <2> QED
    BY <2>1, <2>3
<1>7. CASE t[i] = "'" \/ t[i] = DoubleQuote
  <2>1. t[i] \notin Blanks /\ i <= Len(t)
    <3>1. t[i] \notin Blanks
      BY <1>7, DoubleQuoteIs DEF Blanks
    <3> QED
      BY <1>0, <3>1
  <2>2. Scan(t, i) = Quoted(t, i, i, "string") \/ Scan(t, i) = Quoted(t, i, i, "quoted_identifier")
    BY <1>0, <1>7, ScanCases
  <2>3. /\ Scan(t, i).start = i
        /\ Scan(t, i).kind # "unterminated" => Scan(t, i).end \in i + 1 .. Len(t) + 1
                                               /\ t[Scan(t, i).end - 1] \notin Blanks
        /\ Scan(t, i).kind # "blank" /\ Scan(t, i).kind # "symbol"
    <3>1. i \in {i, i + 1} /\ t[i] \in {"'", DoubleQuote} /\ "string" \in {"string", "quoted_identifier"}
          /\ "quoted_identifier" \in {"string", "quoted_identifier"}
      BY <1>7
    <3> QED
      BY <1>5, <2>1, <2>2, <3>1
  <2> QED
    BY <2>1, <2>3
<1>8. CASE t[i] \in Words /\ ~ Found(t, i, <<"e", "'">>)
  <2>1. Scan(t, i) = Plain(t, i, WordEnd(t, i), "identifier")
    BY <1>0, <1>8, ScanCases
  <2> DEFINE e == WordEnd(t, i)
  <2>2. e \in i + 1 .. Len(t) + 1 /\ \A k \in i + 1 .. e - 1 : t[k] \in WordLike
    BY <1>0, WordEndIs
  <2>3. Scan(t, i) = Token(i, e, "identifier", SubSeq(t, i, e - 1))
    BY <2>1 DEF Plain
  <2> HIDE DEF e
  <2>4. e - 1 = i \/ e - 1 \in i + 1 .. e - 1
    BY <1>0, <2>2
  <2>5. t[e - 1] \in WordLike
    BY <1>8, <2>2, <2>4 DEF WordLike
  <2>6. WordLike \cap Blanks = {}
    BY Symbols DEF WordLike, Blanks
  <2>7. e # 0
    BY <2>2
  <2>8. Scan(t, i).start = i /\ Scan(t, i).end = e /\ Scan(t, i).kind = "identifier"
    BY <2>3, <2>7, TokenIs
  <2>9. t[i] \notin Blanks
    BY <1>8, <2>6 DEF WordLike
  <2> QED
    BY <2>2, <2>5, <2>6, <2>8, <2>9
<1>9. CASE /\ t[i] \notin Blanks /\ ~ Found(t, i, <<"-", "-">>) /\ ~ Found(t, i, <<"/", "*">>)
           /\ MarkerEnd(t, i) = 0 /\ t[i] # "'" /\ t[i] # DoubleQuote /\ t[i] \notin Words
  <2>1. Scan(t, i) = Plain(t, i, i + 1, "symbol")
    BY <1>0, <1>9, ScanCases
  <2>2. SubSeq(t, i, i) = <<t[i]>>
    <3>1. i \in 1 .. Len(t) + 1 /\ i \in i - 1 .. Len(t) /\ (i - i) + 1 = 1 /\ (i + 1) - 1 = i
      BY <1>0
    <3>2. Len(SubSeq(t, i, i)) = 1 /\ SubSeq(t, i, i)[1] = t[i] /\ SubSeq(t, i, i) \in Seq(Sym)
      BY <3>1, PartIs DEF Text
    <3> DEFINE v == SubSeq(t, i, i)
    <3>3. Len(v) = 1 /\ v[1] = t[i] /\ v \in Seq(Sym)
      BY <3>2
    <3> HIDE DEF v
    <3>5. v = <<v[1]>>
      BY <3>3, SeqEqual
    <3> QED
      BY <3>3, <3>5 DEF v
  <2>3. (i + 1) - 1 = i /\ i + 1 # 0
    OBVIOUS
  <2>4. Scan(t, i) = Token(i, i + 1, "symbol", SubSeq(t, i, i))
    BY <2>1, <2>3 DEF Plain
  <2>5. Scan(t, i).start = i /\ Scan(t, i).end = i + 1 /\ Scan(t, i).value = <<t[i]>> /\ Scan(t, i).kind = "symbol"
    BY <2>2, <2>3, <2>4, TokenIs
  <2>6. i + 1 \in i + 1 .. Len(t) + 1
    BY <1>0
  <2>7. t[(i + 1) - 1] \notin Blanks
    BY <1>9, <2>3
  <2> QED
    BY <1>9, <2>5, <2>6, <2>7
<1> QED
  BY <1>1, <1>2, <1>3, <1>4, <1>6, <1>7, <1>8, <1>9

(* The token d places further on. *)
Moved(token, d) ==
  [kind |-> token.kind, start |-> token.start + d, end |-> token.end + d, value |-> token.value]

(* What follows a token in u is what follows it in t, or ends it as well.  *)
Ahead(t, i, u, d) ==
  LET e == Scan(t, i).end IN
  /\ e + d > Len(u) \/ (e <= Len(t) /\ u[e + d] = t[e]) \/ u[e + d] \in {DoubleQuote, ")"}
  /\ Scan(t, i).kind = "quoted_identifier" => ~ (e + d <= Len(u) /\ u[e + d] = DoubleQuote)
  /\ MarkerEnd(t, i) = 0 => MarkerEnd(u, i + d) = 0
  /\ OpenLine(t, i) => e + d > Len(u)

(* What is scanned in a text is scanned in a copy of it, if the copy goes  *)
(* on alike.                                                               *)
LEMMA ScanCopied ==
  ASSUME NEW t \in Text, NEW u \in Text, NEW i \in 1 .. Len(t), NEW d \in Int,
         Scan(t, i).kind # "unterminated", Copied(t, i, Scan(t, i).end, u, d), Ahead(t, i, u, d)
  PROVE  Scan(u, i + d) = Moved(Scan(t, i), d)
<1> DEFINE e == Scan(t, i).end
           r == i + d
<1>0. Len(t) \in Nat /\ Len(u) \in Nat
  BY TextIs
<1>1. e \in i + 1 .. Len(t) + 1 /\ Scan(t, i).start = i
  BY ScanRange
<1>2. r >= 1 /\ e + d <= Len(u) + 1 /\ \A k \in i .. e - 1 : u[k + d] = t[k]
  BY DEF Copied
<1>3. /\ e + d > Len(u) \/ (e <= Len(t) /\ u[e + d] = t[e]) \/ u[e + d] \in {DoubleQuote, ")"}
      /\ Scan(t, i).kind = "quoted_identifier" => ~ (e + d <= Len(u) /\ u[e + d] = DoubleQuote)
      /\ MarkerEnd(t, i) = 0 => MarkerEnd(u, r) = 0
      /\ OpenLine(t, i) => e + d > Len(u)
  BY DEF Ahead
<1>4. Copied(t, i, e, u, d)
  OBVIOUS
<1> HIDE DEF e
<1>5. r \in 1 .. Len(u) /\ u[r] = t[i]
  <2>1. i \in i .. e - 1
    BY <1>1
  <2>2. r >= 1 /\ e + d <= Len(u) + 1
    BY <1>2
  <2>3. u[r] = t[i]
    BY <1>2, <2>1
  <2> QED
    BY <1>0, <1>1, <2>2, <2>3
(* Two symbols are found at the moved place when they are at this one. *)
<1>6. ASSUME NEW a, NEW b, b \notin {DoubleQuote, ")"}
      PROVE  /\ i + 1 < e => (Found(u, r, <<a, b>>) <=> Found(t, i, <<a, b>>))
             /\ ~ Found(t, i, <<a, b>>) => ~ Found(u, r, <<a, b>>)
  <2>1. Found(t, i, <<a, b>>) <=> i + 1 <= Len(t) /\ t[i] = a /\ t[i + 1] = b
    BY <1>0, FoundIs
  <2>2. Found(u, r, <<a, b>>) <=> r + 1 <= Len(u) /\ u[r] = a /\ u[r + 1] = b
    <3> HIDE DEF r
    <3> QED
      BY <1>0, <1>5, FoundIs
  <2>3. CASE i + 1 < e
    <3>1. i + 1 \in i .. e - 1 /\ (i + 1) + d = r + 1
      BY <1>1, <2>3
    <3>2. u[r + 1] = t[i + 1]
      BY <1>2, <3>1
    <3>3. i + 1 <= Len(t) /\ r + 1 <= Len(u)
      <4>1. e + d <= Len(u) + 1
        BY <1>2
      <4> QED
        BY <1>0, <1>1, <2>3, <4>1
    <3> QED
      BY <1>5, <2>1, <2>2, <3>2, <3>3
  <2>4. CASE i + 1 = e
    <3>1. e + d = r + 1
      BY <2>4
    <3>2. r + 1 > Len(u) \/ (i + 1 <= Len(t) /\ u[r + 1] = t[i + 1]) \/ u[r + 1] \in {DoubleQuote, ")"}
      BY <1>3, <2>4, <3>1
    <3>3. Found(u, r, <<a, b>>) => Found(t, i, <<a, b>>)
      <4> SUFFICES ASSUME r + 1 <= Len(u), u[r] = a, u[r + 1] = b PROVE i + 1 <= Len(t) /\ t[i] = a /\ t[i + 1] = b
        BY <2>1, <2>2
      <4>1. ~ (r + 1 > Len(u))
        BY <1>0, <1>5
      <4>2. u[r + 1] \notin {DoubleQuote, ")"}
        BY <1>6
      <4>3. i + 1 <= Len(t) /\ u[r + 1] = t[i + 1]
        BY <3>2, <4>1, <4>2
      <4> QED
        BY <1>5, <4>3
    <3> QED
      BY <1>1, <2>4, <3>3
  <2> QED
    BY <1>1, <2>3, <2>4
<1>7. ASSUME NEW a \in i .. e, NEW b \in a - 1 .. e - 1
      PROVE  SubSeq(u, a + d, b + d) = SubSeq(t, a, b)
  <2>1. e \in i .. Len(t) + 1
    BY <1>1
  <2> QED
    BY <1>4, <2>1, PartCopied
(* The text of a token that is its own value. *)
<1>8. ASSUME NEW kind, Scan(t, i) = Plain(t, i, e, kind), Scan(u, r) = Plain(u, r, e + d, kind)
      PROVE  Scan(u, r) = Moved(Scan(t, i), d)
  <2>1. e # 0 /\ e + d # 0
    <3>1. r >= 1
      BY <1>2
    <3> QED
      BY <1>1, <3>1
  <2>2. SubSeq(u, r, (e + d) - 1) = SubSeq(t, i, e - 1)
    <3>1. i \in i .. e /\ e - 1 \in i - 1 .. e - 1 /\ (e - 1) + d = (e + d) - 1
      BY <1>1
    <3> QED
      BY <1>7, <3>1
  <2>3. Scan(t, i) = [kind |-> kind, start |-> i, end |-> e, value |-> SubSeq(t, i, e - 1)]
    BY <1>8, <2>1 DEF Plain, Token
  <2>4. Scan(u, r) = [kind |-> kind, start |-> r, end |-> e + d, value |-> SubSeq(u, r, (e + d) - 1)]
    BY <1>8, <2>1 DEF Plain, Token
  <2> QED
    <3> DEFINE v == SubSeq(t, i, e - 1)
    <3>1. Scan(t, i) = Token(i, e, kind, v)
      BY <1>8 DEF Plain
    <3>2. Scan(u, r) = [kind |-> kind, start |-> r, end |-> e + d, value |-> v]
      BY <2>2, <2>4
    <3> HIDE DEF v, r
    <3>3. Scan(t, i).kind = kind /\ Scan(t, i).start = i /\ Scan(t, i).value = v
      BY <2>1, <3>1, TokenIs
    <3>4. Moved(Scan(t, i), d) = [kind |-> kind, start |-> r, end |-> e + d, value |-> v]
      BY <3>3 DEF Moved, e, r
    <3> QED
      BY <3>2, <3>4
<1>9. ASSUME NEW q \in i .. i + 1, q <= Len(t), t[q] = "'" \/ t[q] = DoubleQuote, NEW kind \in {"string", "quoted_identifier"},
             kind = "quoted_identifier" <=> t[q] = DoubleQuote,
             Scan(t, i) = Quoted(t, i, q, kind), Scan(u, r) = Quoted(u, r, q + d, kind)
      PROVE  Scan(u, r) = Moved(Scan(t, i), d)
  <2> DEFINE B == IF q > i THEN {"\\"} ELSE {}
             C == IF q + d > r THEN {"\\"} ELSE {}
  <2>0. q \in i .. i + 1 /\ q <= Len(t) /\ (t[q] = "'" \/ t[q] = DoubleQuote) /\ (kind = "quoted_identifier" <=> t[q] = DoubleQuote)
    BY <1>9
  <2>1. B = C
    BY <2>0
  <2>2. Scan(t, i) = Token(i, QuotedEnd(t, q, B), kind, SubSeq(t, q + 1, QuotedEnd(t, q, B) - 2))
    BY <1>9 DEF Quoted
  <2>3. Scan(u, r) = Token(r, QuotedEnd(u, q + d, C), kind, SubSeq(u, (q + d) + 1, QuotedEnd(u, q + d, C) - 2))
    BY <1>9 DEF Quoted
  <2> HIDE DEF B, C
  <2>4. QuotedEnd(t, q, B) = e
    BY <2>2, TokenIs DEF e
  <2>5. q \in 1 .. Len(t)
    BY <1>0, <2>0
  <2>6. e # 0 /\ Scan(t, i).kind = kind
    <3>1. e # 0
      BY <1>1
    <3> QED
      BY <2>2, <2>4, <3>1, TokenIs
  <2>7. e \in q + 2 .. Len(t) + 1 /\ ~ (e <= Len(t) /\ t[e] = t[q])
    <3>1. PICK f : QuotedEnds(f, t, q, B) /\ e = f[q + 1]
      BY <1>0, <2>4, <2>5, QuotedEndIs
    <3>2. \A j \in 1 .. Len(t) + 2 :
           f[j] = 0 \/ (f[j] \in j + 1 .. Len(t) + 1 /\ ~ (f[j] <= Len(t) /\ t[f[j]] = t[q]))
      BY <1>0, <3>1, QuotedRange
    <3>3. q + 1 \in 1 .. Len(t) + 2 /\ (q + 1) + 1 = q + 2
      BY <1>0, <2>5
    <3> QED
      BY <2>6, <3>1, <3>2, <3>3
  <2>8. Copied(t, q, e, u, d)
    <3>1. q \in Int /\ q >= i /\ e \in Int
      BY <1>1, <2>0
    <3>2. \A k \in q .. e - 1 : k \in i .. e - 1
      BY <3>1
    <3>3. q + d >= 1 /\ e + d <= Len(u) + 1
      <4>1. r >= 1 /\ e + d <= Len(u) + 1
        BY <1>2
      <4> QED
        BY <3>1, <4>1
    <3> QED
      BY <1>2, <3>2, <3>3 DEF Copied
  <2>9. ~ (e + d <= Len(u) /\ u[e + d] = t[q])
    <3> SUFFICES ASSUME e + d <= Len(u), u[e + d] = t[q] PROVE FALSE
      OBVIOUS
    <3>1. (e <= Len(t) /\ u[e + d] = t[e]) \/ u[e + d] \in {DoubleQuote, ")"}
      <4>1. ~ (e + d > Len(u))
        BY <1>0, <1>1
      <4> QED
        BY <1>3, <4>1
    <3>2. t[q] = DoubleQuote
      BY <2>0, <2>7, <3>1
    <3> QED
      BY <1>3, <2>0, <2>6, <3>2
  <2>10. QuotedEnd(u, q + d, B) = e + d
    BY <1>0, <2>4, <2>5, <2>6, <2>8, <2>9, QuotedCopied
  <2>11. SubSeq(u, (q + d) + 1, (e + d) - 2) = SubSeq(t, q + 1, e - 2)
    <3>1. q + 1 \in i .. e /\ e - 2 \in (q + 1) - 1 .. e - 1
      BY <1>1, <2>0, <2>7
    <3>2. (q + 1) + d = (q + d) + 1 /\ (e - 2) + d = (e + d) - 2
      BY <1>1, <2>5
    <3> QED
      BY <1>7, <3>1, <3>2
  <2>12. e + d # 0
    BY <1>1, <1>5
  <2>13. Scan(t, i) = [kind |-> kind, start |-> i, end |-> e, value |-> SubSeq(t, q + 1, e - 2)]
    BY <2>2, <2>4, <2>6 DEF Token
  <2>14. Scan(u, r) = [kind |-> kind, start |-> r, end |-> e + d, value |-> SubSeq(u, (q + d) + 1, (e + d) - 2)]
    BY <2>1, <2>3, <2>10, <2>12 DEF Token
  <2> QED
    <3> DEFINE v == SubSeq(t, q + 1, e - 2)
    <3>1. Scan(t, i) = Token(i, e, kind, v)
      BY <2>2, <2>4
    <3>2. Scan(u, r) = [kind |-> kind, start |-> r, end |-> e + d, value |-> v]
      BY <2>11, <2>14
    <3> HIDE DEF v, r
    <3>3. Scan(t, i).kind = kind /\ Scan(t, i).start = i /\ Scan(t, i).value = v
      BY <2>6, <3>1, TokenIs
    <3>4. Moved(Scan(t, i), d) = [kind |-> kind, start |-> r, end |-> e + d, value |-> v]
      BY <3>3 DEF Moved, e, r
    <3> QED
      BY <3>2, <3>4
<1>10. CASE t[i] \in Blanks
  <2>1. Scan(t, i) = Plain(t, i, i + 1, "blank") /\ e = i + 1
    <3>1. Scan(t, i) = Plain(t, i, i + 1, "blank")
      BY <1>0, <1>10, ScanCases
    <3> QED
      BY <3>1, TokenIs DEF e, Plain
  <2>2. Scan(u, r) = Plain(u, r, r + 1, "blank")
    <3> HIDE DEF r
    <3> QED
      BY <1>0, <1>5, <1>10, ScanCases
  <2>3. r + 1 = e + d
    BY <2>1
  <2> QED
    BY <1>8, <2>1, <2>2, <2>3
<1>11. CASE Found(t, i, <<"-", "-">>)
  <2>1. Scan(t, i) = Plain(t, i, LineEnd(t, i), "comment") /\ i + 1 <= Len(t)
    <3>1. Scan(t, i) = Plain(t, i, LineEnd(t, i), "comment")
      BY <1>0, <1>11, ScanCases
    <3>2. i + 1 <= Len(t)
      BY <1>0, <1>11, FoundIs
    <3> QED
      BY <3>1, <3>2
  <2>2. e = LineEnd(t, i)
    BY <2>1, TokenIs DEF e, Plain
  <2>3. /\ e \in i + 2 .. Len(t) + 1
        /\ \/ e = Len(t) + 1 /\ \A k \in i + 2 .. Len(t) : t[k] # "newline"
           \/ /\ e \in i + 3 .. Len(t) + 1 /\ t[e - 1] = "newline"
              /\ \A k \in i + 2 .. e - 2 : t[k] # "newline"
    BY <1>0, <2>1, <2>2, LineEndIs
  <2>4. Found(u, r, <<"-", "-">>)
    <3>1. i + 1 < e
      BY <2>3
    <3>2. "-" \notin {DoubleQuote, ")"}
      BY DoubleQuoteIs
    <3> QED
      BY <1>6, <1>11, <3>1, <3>2
  <2>5. Scan(u, r) = Plain(u, r, LineEnd(u, r), "comment") /\ r + 1 <= Len(u)
    <3> HIDE DEF r
    <3>1. Scan(u, r) = Plain(u, r, LineEnd(u, r), "comment")
      BY <1>0, <1>5, <2>4, ScanCases
    <3>2. r + 1 <= Len(u)
      <4>1. r \in Nat
        BY <1>5
      <4> QED
        BY <1>0, <2>4, <4>1, FoundIs
    <3> QED
      BY <3>1, <3>2
  <2>6. LineEnd(u, r) = e + d
    <3>1. e + d \in r + 2 .. Len(u) + 1
      <4>1. e + d <= Len(u) + 1
        BY <1>2
      <4> QED
        BY <1>0, <1>1, <2>3, <4>1
    <3>2. CASE e = Len(t) + 1 /\ \A k \in i + 2 .. Len(t) : t[k] # "newline"
      <4>1. e + d = Len(u) + 1
        <5>1. e + d > Len(u)
          BY <1>3, <1>11, <3>2 DEF OpenLine
        <5> QED
          BY <1>0, <1>1, <3>1, <5>1
      <4>2. ASSUME NEW k \in r + 2 .. Len(u) PROVE u[k] # "newline"
        <5>1. k - d \in i + 2 .. Len(t) /\ k - d \in i .. e - 1 /\ (k - d) + d = k
          BY <1>0, <1>1, <3>2, <4>1
        <5>2. u[(k - d) + d] = t[k - d] /\ t[k - d] # "newline"
          BY <1>2, <3>2, <5>1
        <5> QED
          BY <5>1, <5>2
      <4> DEFINE E == e + d
      <4>3. E \in r + 2 .. Len(u) + 1 /\ E = Len(u) + 1
        BY <3>1, <4>1
      <4> HIDE DEF r, E
      <4>4. LineEnd(u, r) = E
        BY <1>0, <1>5, <2>5, <4>2, <4>3, LineEndOnly
      <4> QED
        BY <4>4 DEF E
    <3>3. CASE e \in i + 3 .. Len(t) + 1 /\ t[e - 1] = "newline" /\ \A k \in i + 2 .. e - 2 : t[k] # "newline"
      <4>1. u[(e + d) - 1] = "newline"
        <5>1. e - 1 \in i .. e - 1 /\ (e - 1) + d = (e + d) - 1
          BY <1>1
        <5>2. u[(e - 1) + d] = t[e - 1]
          BY <1>2, <5>1
        <5> QED
          BY <3>3, <5>1, <5>2
      <4>2. ASSUME NEW k \in r + 2 .. (e + d) - 2 PROVE u[k] # "newline"
        <5>1. k - d \in i + 2 .. e - 2 /\ k - d \in i .. e - 1 /\ (k - d) + d = k
          BY <1>0, <1>1, <3>3
        <5>2. u[(k - d) + d] = t[k - d] /\ t[k - d] # "newline"
          BY <1>2, <3>3, <5>1
        <5> QED
          BY <5>1, <5>2
      <4> DEFINE E == e + d
      <4>3. E \in r + 2 .. Len(u) + 1 /\ E > r + 2 /\ u[E - 1] = "newline" /\ \A k \in r + 2 .. E - 2 : u[k] # "newline"
        BY <1>1, <3>1, <3>3, <4>1, <4>2
      <4> HIDE DEF r, E
      <4>4. LineEnd(u, r) = E
        BY <1>0, <1>5, <2>5, <4>3, LineEndOnly
      <4> QED
        BY <4>4 DEF E
    <3> QED
      BY <2>3, <3>2, <3>3
  <2> QED
    BY <1>8, <2>1, <2>2, <2>5, <2>6
<1>12. CASE Found(t, i, <<"/", "*">>)
  <2>1. Scan(t, i) = Plain(t, i, CommentEnd(t, i), "comment")
    BY <1>0, <1>12, ScanCases
  <2>2. e = CommentEnd(t, i)
    BY <2>1, TokenIs DEF e, Plain
  <2>3. CommentEnd(u, r) = e + d
    <3>1. e # 0
      BY <1>1
    <3> QED
      BY <1>0, <1>4, <1>12, <2>2, <3>1, CommentCopied
  <2>4. Found(u, r, <<"/", "*">>)
    <3>1. PICK f : CommentEnds(f, t) /\ e = f[i + 2][1]
      BY <1>0, <2>2, CommentEndIs
    <3>2. \A j \in 1 .. Len(t) + 1 : \A depth \in Nat \ {0} :
            f[j][depth] = 0 \/ f[j][depth] \in j + 2 .. Len(t) + 1
      BY <1>0, <3>1, CommentRange
    <3>3. i + 1 <= Len(t)
      BY <1>0, <1>12, FoundIs
    <3>4. i + 2 \in 1 .. Len(t) + 1 /\ 1 \in Nat \ {0} /\ (i + 2) + 2 = i + 4
      BY <1>0, <3>3
    <3>5. i + 1 < e
      BY <1>1, <3>1, <3>2, <3>4
    <3>6. "*" \notin {DoubleQuote, ")"}
      BY DoubleQuoteIs
    <3> QED
      BY <1>6, <1>12, <3>5, <3>6
  <2>5. Scan(u, r) = Plain(u, r, e + d, "comment")
    <3> HIDE DEF r
    <3> QED
      BY <1>0, <1>5, <2>3, <2>4, ScanCases
  <2> QED
    BY <1>8, <2>1, <2>2, <2>5
<1>13. CASE MarkerEnd(t, i) # 0
  <2>1. Scan(t, i) = Dollar(t, i)
    BY <1>0, <1>13, ScanCases
  <2> DEFINE m == MarkerEnd(t, i)
             M == m + d
             v == SubSeq(t, m, e - (m - i) - 1)
             w == SubSeq(u, M, (e + d) - (M - r) - 1)
  <2>2. Scan(t, i) = Token(i, DollarEnd(t, i), "string", SubSeq(t, m, DollarEnd(t, i) - (m - i) - 1))
    BY <2>1 DEF Dollar
  <2>3. DollarEnd(t, i) = e
    BY <2>2, TokenIs DEF e
  <2>4. e # 0
    BY <1>1
  <2>5. m \in i + 2 .. Len(t) + 1 /\ e \in m + (m - i) .. Len(t) + 1
    BY <1>13, <2>3, <2>4, DollarEndIs
  <2>6. MarkerEnd(u, r) = M /\ DollarEnd(u, r) = e + d
    BY <1>4, <1>13, <2>3, <2>4, DollarCopied
  <2>7. M # 0 /\ e + d # 0
    BY <1>1, <1>5, <2>5
  <2>8. Scan(u, r) = Dollar(u, r)
    <3> HIDE DEF r, M
    <3> QED
      BY <1>0, <1>5, <2>6, <2>7, ScanCases
  <2>9. Scan(u, r) = Token(r, e + d, "string", w)
    <3> HIDE DEF r, M
    <3> QED
      BY <2>6, <2>8 DEF Dollar
  <2>10. w = v
    <3> DEFINE b == e - (m - i) - 1
    <3>1. m \in i .. e /\ b \in m - 1 .. e - 1 /\ b + d = (e + d) - (M - r) - 1
      BY SMTT(40), <1>1, <2>5
    <3>2. SubSeq(u, m + d, b + d) = SubSeq(t, m, b)
      <4> HIDE DEF b, m
      <4> QED
        BY <1>7, <3>1
    <3> QED
      BY <3>1, <3>2
  <2>11. Scan(t, i) = Token(i, e, "string", v)
    BY <2>2, <2>3
  <2> HIDE DEF v, w, r
  <2>12. Scan(t, i) = [kind |-> "string", start |-> i, end |-> e, value |-> v]
    BY <2>4, <2>11 DEF Token
  <2>13. Scan(u, r) = [kind |-> "string", start |-> r, end |-> e + d, value |-> w]
    BY <2>7, <2>9 DEF Token
  <2> QED
    BY <2>10, <2>12, <2>13 DEF Moved, r
<1>14. CASE Found(t, i, <<"e", "'">>)
  <2>1. i + 1 <= Len(t) /\ t[i] = "e" /\ t[i + 1] = "'"
    BY <1>0, <1>14, FoundIs
  <2>2. Scan(t, i) = Quoted(t, i, i + 1, "string")
    BY <1>0, <1>14, ScanCases
  <2>3. i + 1 < e
    <3> SUFFICES ASSUME e = i + 1 PROVE FALSE
      BY <1>1
    <3> DEFINE B == IF i + 1 > i THEN {"\\"} ELSE {}
    <3>1. Scan(t, i) = Token(i, QuotedEnd(t, i + 1, B), "string", SubSeq(t, (i + 1) + 1, QuotedEnd(t, i + 1, B) - 2))
      BY <2>2 DEF Quoted
    <3> HIDE DEF B
    <3>2. QuotedEnd(t, i + 1, B) = e
      BY <3>1, TokenIs DEF e
    <3>3. PICK f : QuotedEnds(f, t, i + 1, B) /\ e = f[(i + 1) + 1]
      BY <1>0, <3>2, QuotedEndIs
    <3>4. \A j \in 1 .. Len(t) + 2 : f[j] = 0 \/ f[j] \in j + 1 .. Len(t) + 1
      BY <1>0, <3>3, QuotedRange
    <3>5. (i + 1) + 1 \in 1 .. Len(t) + 2
      BY <1>0, <2>1
    <3> QED
      BY <1>1, <3>3, <3>4, <3>5
  <2>4. Found(u, r, <<"e", "'">>)
    <3>1. "'" \notin {DoubleQuote, ")"}
      BY DoubleQuoteIs
    <3> QED
      BY <1>6, <1>14, <2>3, <3>1
  <2>5. Scan(u, r) = Quoted(u, r, r + 1, "string")
    <3> HIDE DEF r
    <3> QED
      BY <1>0, <1>5, <2>4, ScanCases
  <2>6. (i + 1) + d = r + 1 /\ i + 1 \in i .. i + 1
    OBVIOUS
  <2>7. t[i + 1] # DoubleQuote
    BY <2>1, DoubleQuoteIs
  <2>8. "string" \in {"string", "quoted_identifier"} /\ "string" # "quoted_identifier"
    OBVIOUS
  <2> QED
    BY <1>9, <2>1, <2>2, <2>5, <2>6, <2>7, <2>8
<1>15. CASE t[i] = "'"
  <2>1. Scan(t, i) = Quoted(t, i, i, "string")
    BY <1>0, <1>15, ScanCases
  <2>2. Scan(u, r) = Quoted(u, r, r, "string")
    <3> HIDE DEF r
    <3> QED
      BY <1>0, <1>5, <1>15, ScanCases
  <2>3. i \in i .. i + 1 /\ i <= Len(t)
    BY <1>0
  <2>4. t[i] # DoubleQuote
    BY <1>15, DoubleQuoteIs
  <2>5. "string" \in {"string", "quoted_identifier"} /\ "string" # "quoted_identifier"
    OBVIOUS
  <2> QED
    BY <1>9, <1>15, <2>1, <2>2, <2>3, <2>4, <2>5
<1>16. CASE t[i] = DoubleQuote
  <2>1. Scan(t, i) = Quoted(t, i, i, "quoted_identifier")
    BY <1>0, <1>16, ScanCases
  <2>2. Scan(u, r) = Quoted(u, r, r, "quoted_identifier")
    <3> HIDE DEF r
    <3> QED
      BY <1>0, <1>5, <1>16, ScanCases
  <2>3. i \in i .. i + 1 /\ (t[i] = "'" \/ t[i] = DoubleQuote) /\ i <= Len(t)
        /\ "quoted_identifier" \in {"string", "quoted_identifier"}
    BY <1>0, <1>16
  <2> QED
    BY <1>9, <1>16, <2>1, <2>2, <2>3
<1>17. CASE t[i] \in Words /\ ~ Found(t, i, <<"e", "'">>)
  <2>1. Scan(t, i) = Plain(t, i, WordEnd(t, i), "identifier")
    BY <1>0, <1>17, ScanCases
  <2>2. e = WordEnd(t, i)
    BY <2>1, TokenIs DEF e, Plain
  <2>3. /\ e > Len(t) \/ t[e] \notin WordLike
        /\ \A k \in i + 1 .. e - 1 : t[k] \in WordLike
    BY <1>0, <2>2, WordEndIs
  <2>4. u[r] \in Words /\ ~ Found(u, r, <<"e", "'">>)
    <3>1. "'" \notin {DoubleQuote, ")"}
      BY DoubleQuoteIs
    <3> QED
      BY <1>5, <1>6, <1>17, <3>1
  <2>5. Scan(u, r) = Plain(u, r, WordEnd(u, r), "identifier")
    <3> HIDE DEF r
    <3> QED
      BY <1>0, <1>5, <2>4, ScanCases
  <2>6. WordEnd(u, r) = e + d
    <3>1. e + d \in r + 1 .. Len(u) + 1
      <4>1. e + d <= Len(u) + 1
        BY <1>2
      <4> QED
        BY <1>0, <1>1, <4>1
    <3>2. e + d > Len(u) \/ u[e + d] \notin WordLike
      <4>1. DoubleQuote \notin WordLike /\ ")" \notin WordLike
        BY Symbols, DoubleQuoteIs DEF WordLike
      <4>2. e > Len(t) => ~ (e <= Len(t))
        BY <1>0, <1>1
      <4> QED
        BY <1>3, <2>3, <4>1, <4>2
    <3>3. ASSUME NEW k \in r + 1 .. (e + d) - 1 PROVE u[k] \in WordLike
      <4>1. k - d \in i + 1 .. e - 1 /\ k - d \in i .. e - 1 /\ (k - d) + d = k
        BY <1>1
      <4>2. u[(k - d) + d] = t[k - d] /\ t[k - d] \in WordLike
        BY <1>2, <2>3, <4>1
      <4> QED
        BY <4>1, <4>2
    <3> DEFINE E == e + d
    <3>4. E \in r + 1 .. Len(u) + 1 /\ (E > Len(u) \/ u[E] \notin WordLike)
          /\ \A k \in r + 1 .. E - 1 : u[k] \in WordLike
      BY <3>1, <3>2, <3>3
    <3> HIDE DEF r, E
    <3>5. WordEnd(u, r) = E
      BY <1>0, <1>5, <3>4, WordEndOnly
    <3> QED
      BY <3>5 DEF E
  <2> QED
    BY <1>8, <2>1, <2>2, <2>5, <2>6
<1>18. CASE /\ t[i] \notin Blanks /\ ~ Found(t, i, <<"-", "-">>) /\ ~ Found(t, i, <<"/", "*">>)
            /\ MarkerEnd(t, i) = 0 /\ t[i] # "'" /\ t[i] # DoubleQuote /\ t[i] \notin Words
  <2>1. Scan(t, i) = Plain(t, i, i + 1, "symbol")
    BY <1>0, <1>18, ScanCases
  <2>2. e = i + 1
    BY <2>1, TokenIs DEF e, Plain
  <2>3. ~ Found(u, r, <<"-", "-">>) /\ ~ Found(u, r, <<"/", "*">>)
    <3>1. "-" \notin {DoubleQuote, ")"} /\ "*" \notin {DoubleQuote, ")"}
      BY DoubleQuoteIs
    <3> QED
      BY <1>6, <1>18, <3>1
  <2>4. MarkerEnd(u, r) = 0
    BY <1>3, <1>18
  <2>5. Scan(u, r) = Plain(u, r, r + 1, "symbol")
    <3> HIDE DEF r
    <3> QED
      BY <1>0, <1>5, <1>18, <2>3, <2>4, ScanCases
  <2>6. r + 1 = e + d
    BY <2>2
  <2> QED
    BY <1>8, <2>1, <2>2, <2>5, <2>6
<1> QED
  BY <1>10, <1>11, <1>12, <1>13, <1>14, <1>15, <1>16, <1>17, <1>18

(* The tokens from a place on are the one scanned there and those from its *)
(* end on.                                                                 *)
LEMMA TokensFromIs ==
  ASSUME NEW t \in Text
  PROVE  \A i \in 1 .. Len(t) + 1 :
           TokensFrom(t, i) =
             IF i > Len(t) THEN <<>>
             ELSE IF Scan(t, i).kind = "unterminated" THEN <<Scan(t, i)>>
             ELSE IF Scan(t, i).kind \in {"blank", "comment"} THEN TokensFrom(t, Scan(t, i).end)
             ELSE <<Scan(t, i)>> \o TokensFrom(t, Scan(t, i).end)
<1> DEFINE L == Len(t)
           N == L + 1
           E(g, j) == IF j > L THEN <<>>
                      ELSE IF Scan(t, j).kind = "unterminated" THEN <<Scan(t, j)>>
                      ELSE IF Scan(t, j).kind \in {"blank", "comment"} THEN g[Scan(t, j).end]
                      ELSE <<Scan(t, j)>> \o g[Scan(t, j).end]
           S == {k \in 0 .. N : \E g : g = [j \in k + 1 .. N |-> E(g, j)]}
           f == CHOOSE g : g = [j \in 1 .. N |-> E(g, j)]
<1>0. L \in Nat
  BY TextIs
<1>1. ASSUME NEW k \in 0 .. N, \A l \in k + 1 .. N : l \in S PROVE k \in S
  <2>1. CASE k = N
    <3> DEFINE g == [j \in k + 1 .. N |-> 0]
    <3>1. k + 1 .. N = {}
      BY <1>0, <2>1
    <3> HIDE DEF E
    <3>2. g = [j \in k + 1 .. N |-> E(g, j)]
      BY <3>1
    <3> QED
      BY <3>2
  <2>2. CASE k < N
    <3>1. k + 1 \in S
      <4> HIDE DEF S
      <4> QED
        BY <1>0, <1>1, <2>2
    <3>2. PICK g : g = [j \in k + 2 .. N |-> E(g, j)]
      <4>1. (k + 1) + 1 = k + 2
        BY <1>0
      <4> HIDE DEF E
      <4> QED
        BY <3>1, <4>1
    <3> DEFINE h == [j \in k + 1 .. N |-> IF j = k + 1 THEN E(g, j) ELSE g[j]]
    <3>3. \A j \in k + 2 .. N : h[j] = g[j]
      <4>1. \A j \in k + 2 .. N : j \in k + 1 .. N /\ j # k + 1
        BY <1>0
      <4> HIDE DEF E
      <4> QED
        BY <4>1
    <3>4. ASSUME NEW j \in k + 1 .. N PROVE E(h, j) = E(g, j)
      <4>1. j <= L /\ Scan(t, j).kind # "unterminated" => Scan(t, j).end \in k + 2 .. N
        <5>1. j \in 1 .. L + 1
          BY <1>0
        <5>2. j <= L => j \in 1 .. L
          BY <1>0, <5>1
        <5>3. j <= L /\ Scan(t, j).kind # "unterminated" => Scan(t, j).end \in j + 1 .. L + 1
          BY <5>2, ScanRange
        <5> QED
          BY <1>0, <5>1, <5>3
      <4> HIDE DEF h, S
      <4>2. j <= L /\ Scan(t, j).kind # "unterminated" => h[Scan(t, j).end] = g[Scan(t, j).end]
        BY <3>3, <4>1
      <4>3. j <= L \/ j > L
        BY <1>0
      <4> QED
        BY <4>2, <4>3
    <3>5. h = [j \in k + 1 .. N |-> E(h, j)]
      <4>1. \A j \in k + 1 .. N : h[j] = E(g, j)
        <5>1. \A j \in k + 1 .. N : j = k + 1 \/ j \in k + 2 .. N
          BY <1>0
        <5> HIDE DEF E
        <5>2. \A j \in k + 2 .. N : g[j] = E(g, j)
          BY <3>2
        <5> QED
          BY <5>1, <5>2
      <4> HIDE DEF E
      <4> QED
        BY <3>4, <4>1
    <3> HIDE DEF h, E
    <3> QED
      BY <3>5
  <2> HIDE DEF S
  <2> QED
    BY <1>0, <2>1, <2>2
<1>2. 0 \in S
  <2>1. N \in Nat
    BY <1>0
  <2> HIDE DEF S, N
  <2>2. 0 .. N \subseteq S
    BY <1>1, <2>1, Downwards
  <2> QED
    BY <2>1, <2>2
<1>3. f = [j \in 1 .. N |-> E(f, j)]
  <2> HIDE DEF E
  <2>1. \E g : g = [j \in 1 .. N |-> E(g, j)]
    BY <1>2
  <2> QED
    BY <2>1
<1>4. \A i : TokensFrom(t, i) = f[i]
  BY DEF TokensFrom
<1> HIDE DEF f
<1>5. \A j \in 1 .. N : f[j] = E(f, j)
  <2> HIDE DEF E
  <2> QED
    BY <1>3
<1> QED
  BY <1>4, <1>5

(* A token is its four fields. *)
LEMMA ScanRecord ==
  ASSUME NEW t, Len(t) \in Nat, NEW i \in 1 .. Len(t)
  PROVE  Scan(t, i) = [kind |-> Scan(t, i).kind, start |-> Scan(t, i).start,
                       end |-> Scan(t, i).end, value |-> Scan(t, i).value]
<1> DEFINE R(s) == s = [kind |-> s.kind, start |-> s.start, end |-> s.end, value |-> s.value]
<1>1. \A a, b, c, v : R(Token(a, b, c, v))
  BY DEF Token
<1>2. \E a, b, c, v : Scan(t, i) = Token(a, b, c, v)
  <2>1. \/ Scan(t, i) = Plain(t, i, i + 1, "blank")
        \/ Scan(t, i) = Plain(t, i, LineEnd(t, i), "comment")
        \/ Scan(t, i) = Plain(t, i, CommentEnd(t, i), "comment")
        \/ Scan(t, i) = Dollar(t, i)
        \/ Scan(t, i) = Quoted(t, i, i + 1, "string")
        \/ Scan(t, i) = Quoted(t, i, i, "string")
        \/ Scan(t, i) = Quoted(t, i, i, "quoted_identifier")
        \/ Scan(t, i) = Plain(t, i, WordEnd(t, i), "identifier")
        \/ Scan(t, i) = Plain(t, i, i + 1, "symbol")
    BY ScanCases
  <2>2. \A j, k : \E a, b, c, v : Plain(t, i, j, k) = Token(a, b, c, v)
    BY DEF Plain
  <2>3. \A j, k : \E a, b, c, v : Quoted(t, i, j, k) = Token(a, b, c, v)
    BY DEF Quoted
  <2>4. \E a, b, c, v : Dollar(t, i) = Token(a, b, c, v)
    BY DEF Dollar
  <2> QED
    BY <2>1, <2>2, <2>3, <2>4
<1> HIDE DEF R
<1>3. R(Scan(t, i))
  BY <1>1, <1>2
<1> QED
  BY <1>3 DEF R

(* A sequence with one element more in front. *)
LEMMA ConsIs ==
  ASSUME NEW S, NEW a \in S, NEW s \in Seq(S)
  PROVE  /\ <<a>> \o s \in Seq(S) /\ Len(<<a>> \o s) = Len(s) + 1 /\ (<<a>> \o s)[1] = a
         /\ \A k \in 1 .. Len(s) : (<<a>> \o s)[k + 1] = s[k]
         /\ Len(s) \in Nat
<1>1. <<a>> \in Seq(S) /\ Len(<<a>>) = 1 /\ <<a>>[1] = a
  OBVIOUS
<1>2. Len(s) \in Nat
  BY LenProperties
<1> DEFINE c == <<a>>
<1> HIDE DEF c
<1>3. c \o s \in Seq(S) /\ Len(c \o s) = Len(c) + Len(s)
      /\ \A k \in 1 .. Len(c) + Len(s) : (c \o s)[k] = IF k <= Len(c) THEN c[k] ELSE s[k - Len(c)]
  BY <1>1, ConcatProperties DEF c
<1>4. Len(c) = 1 /\ c[1] = a
  BY <1>1 DEF c
<1>5. ASSUME NEW k \in 1 .. Len(s) PROVE (c \o s)[k + 1] = s[k]
  <2>1. k + 1 \in 1 .. Len(c) + Len(s) /\ ~ (k + 1 <= Len(c)) /\ (k + 1) - Len(c) = k
    BY <1>2, <1>4
  <2> QED
    BY <1>3, <2>1
<1>6. (c \o s)[1] = a
  <2>1. 1 \in 1 .. Len(c) + Len(s) /\ 1 <= Len(c)
    BY <1>2, <1>4
  <2> QED
    BY <1>3, <1>4, <2>1
<1> QED
  BY <1>2, <1>3, <1>4, <1>5, <1>6 DEF c

(* Every token was scanned at a place from where the tokens are taken. *)
LEMMA TokensFromTyped ==
  ASSUME NEW t \in Text
  PROVE  \A q \in 1 .. Len(t) + 1 :
           /\ TokensFrom(t, q) \in Seq({Scan(t, j) : j \in q .. Len(t)})
           /\ Len(TokensFrom(t, q)) \in Nat
<1> DEFINE N == Len(t) + 1
           C(q) == {Scan(t, j) : j \in q .. Len(t)}
           F(q) == TokensFrom(t, q)
           S == {q \in 0 .. N : q # 0 => F(q) \in Seq(C(q))}
<1>0. Len(t) \in Nat
  BY TextIs
<1>1. ASSUME NEW q \in 0 .. N, \A l \in q + 1 .. N : l \in S PROVE q \in S
  <2> SUFFICES ASSUME q # 0 PROVE F(q) \in Seq(C(q))
    OBVIOUS
  <2>1. q \in 1 .. N
    BY <1>0
  <2>2. F(q) = IF q > Len(t) THEN <<>>
               ELSE IF Scan(t, q).kind = "unterminated" THEN <<Scan(t, q)>>
               ELSE IF Scan(t, q).kind \in {"blank", "comment"} THEN F(Scan(t, q).end)
               ELSE <<Scan(t, q)>> \o F(Scan(t, q).end)
    BY <2>1, TokensFromIs
  <2>3. CASE q > Len(t)
    <3>1. F(q) = <<>>
      BY <2>2, <2>3
    <3> HIDE DEF C, F
    <3> QED
      BY <3>1
  <2>4. CASE q <= Len(t)
    <3>0. q \in 1 .. Len(t) /\ ~ (q > Len(t))
      BY <1>0, <2>1, <2>4
    <3>1. Scan(t, q) \in C(q)
      BY <3>0
    <3>2. CASE Scan(t, q).kind = "unterminated"
      <4>1. F(q) = <<Scan(t, q)>>
        BY <2>2, <3>0, <3>2
      <4> HIDE DEF C, F
      <4> QED
        BY <3>1, <4>1
    <3>3. CASE Scan(t, q).kind # "unterminated"
      <4> DEFINE e == Scan(t, q).end
      <4>1. e \in q + 1 .. N /\ e # 0
        BY <3>0, <3>3, ScanRange
      <4>2. F(e) \in Seq(C(e))
        <5> HIDE DEF e, F, C
        <5> QED
          BY <1>1, <4>1
      <4>3. C(e) \subseteq C(q)
        <5> HIDE DEF e
        <5>1. \A j \in e .. Len(t) : j \in q .. Len(t)
          BY <1>0, <3>0, <4>1
        <5> QED
          BY <5>1
      <4> HIDE DEF C
      <4>4. F(e) \in Seq(C(q))
        BY <4>2, <4>3, SeqMonotonic
      <4> HIDE DEF F
      <4>5. <<Scan(t, q)>> \o F(e) \in Seq(C(q))
        BY <3>1, <4>4, ConsIs
      <4>6. F(q) = F(e) \/ F(q) = <<Scan(t, q)>> \o F(e)
        BY <2>2, <3>0, <3>3
      <4> QED
        BY <4>4, <4>5, <4>6
    <3> QED
      BY <3>2, <3>3
  <2> QED
    BY <1>0, <2>1, <2>3, <2>4
<1>2. 0 .. N \subseteq S
  <2>1. N \in Nat
    BY <1>0
  <2> HIDE DEF S, N
  <2> QED
    BY <1>1, <2>1, Downwards
<1>3. ASSUME NEW q \in 1 .. Len(t) + 1 PROVE F(q) \in Seq(C(q)) /\ Len(F(q)) \in Nat
  <2>1. F(q) \in Seq(C(q))
    BY <1>0, <1>2
  <2> HIDE DEF F, C
  <2> QED
    BY <2>1, LenProperties
<1> QED
  BY <1>3

(* The tokens from q on are those of the text from its i-th on. *)
At(t, i, q) ==
  /\ q \in 1 .. Len(t) + 1 /\ i \in 1 .. Len(Tokens(t)) + 1
  /\ Len(TokensFrom(t, q)) = (Len(Tokens(t)) + 1) - i
  /\ \A k \in 1 .. (Len(Tokens(t)) + 1) - i : TokensFrom(t, q)[k] = Tokens(t)[(i + k) - 1]

(* All tokens are those from the first place on. *)
LEMMA AtFirst ==
  ASSUME NEW t \in Text
  PROVE  At(t, 1, 1) /\ Len(Tokens(t)) \in Nat
<1> DEFINE K == Tokens(t)
<1>0. Len(t) \in Nat /\ 1 \in 1 .. Len(t) + 1
  BY TextIs
<1>1. K = TokensFrom(t, 1)
  BY DEF Tokens
<1>2. Len(K) \in Nat
  BY <1>0, <1>1, TokensFromTyped
<1> HIDE DEF K
<1>3. (Len(K) + 1) - 1 = Len(K) /\ 1 \in 1 .. Len(K) + 1 /\ \A k \in 1 .. Len(K) : (1 + k) - 1 = k
  BY <1>2
<1>4. \A k \in 1 .. Len(K) : TokensFrom(t, 1)[k] = K[(1 + k) - 1]
  BY <1>1, <1>3
<1> QED
  BY <1>0, <1>1, <1>2, <1>3, <1>4 DEF At, K

(* The i-th token is the next that is scanned; after it comes the one      *)
(* after i.                                                                *)
LEMMA AtNext ==
  ASSUME NEW t \in Text, Terminated(Tokens(t)), NEW i, NEW q, At(t, i, q)
  PROVE  /\ q = Len(t) + 1 => i = Len(Tokens(t)) + 1
         /\ q <= Len(t) =>
              /\ Scan(t, q).kind # "unterminated"
              /\ Scan(t, q).kind \in {"blank", "comment"} => At(t, i, Scan(t, q).end)
              /\ Scan(t, q).kind \notin {"blank", "comment"} =>
                   /\ i <= Len(Tokens(t)) /\ Tokens(t)[i] = Scan(t, q)
                   /\ At(t, i + 1, Scan(t, q).end)
<1> DEFINE K == Tokens(t)
           L == Len(K)
           F(p) == TokensFrom(t, p)
           s == Scan(t, q)
<1>0. Len(t) \in Nat
  BY TextIs
<1>1. L \in Nat
  BY AtFirst
<1>2. q \in 1 .. Len(t) + 1 /\ i \in 1 .. L + 1 /\ Len(F(q)) = (L + 1) - i
      /\ \A k \in 1 .. (L + 1) - i : F(q)[k] = K[(i + k) - 1]
  BY DEF At
<1>3. F(q) = IF q > Len(t) THEN <<>>
             ELSE IF s.kind = "unterminated" THEN <<s>>
             ELSE IF s.kind \in {"blank", "comment"} THEN F(s.end)
             ELSE <<s>> \o F(s.end)
  BY <1>2, TokensFromIs
<1>4. DOMAIN K = 1 .. L
  <2>1. 1 \in 1 .. Len(t) + 1
    BY <1>0
  <2>2. K \in Seq({Scan(t, j) : j \in 1 .. Len(t)})
    BY <2>1, TokensFromTyped DEF Tokens
  <2> HIDE DEF K
  <2> QED
    BY <2>2, LenProperties
<1>5. \A k \in 1 .. L : K[k].kind # "unterminated"
  BY <1>4 DEF Terminated
<1>6. CASE q = Len(t) + 1
  <2>1. F(q) = <<>>
    BY <1>0, <1>3, <1>6
  <2>2. Len(F(q)) = 0
    <3> HIDE DEF F
    <3> QED
      BY <2>1
  <2>3. i = L + 1 /\ ~ (q <= Len(t))
    <3> HIDE DEF F, K, L
    <3> QED
      BY <1>0, <1>1, <1>2, <1>6, <2>2
  <2> QED
    BY <2>3
<1>7. CASE q <= Len(t)
  <2>0. q \in 1 .. Len(t) /\ ~ (q > Len(t)) /\ q # Len(t) + 1
    BY <1>0, <1>2, <1>7
  <2>1. s.kind # "unterminated"
    <3> SUFFICES ASSUME s.kind = "unterminated" PROVE FALSE
      OBVIOUS
    <3> DEFINE c == <<s>>
    <3>1. F(q) = c
      BY <1>3, <2>0
    <3> HIDE DEF s, F, K, L
    <3>5. Len(c) = 1 /\ c[1] = s
      OBVIOUS
    <3> HIDE DEF c
    <3>2. Len(F(q)) = 1 /\ F(q)[1] = s
      BY <3>1, <3>5
    <3>3. i \in 1 .. L /\ 1 \in 1 .. (L + 1) - i /\ (i + 1) - 1 = i
      <4>1. i \in 1 .. L + 1 /\ (L + 1) - i = 1
        BY <1>2, <3>2
      <4> QED
        BY <1>1, <4>1
    <3>4. K[i] = s
      BY <1>2, <3>2, <3>3
    <3> QED
      BY <1>5, <3>3, <3>4
  <2> DEFINE e == s.end
  <2>2. e \in q + 1 .. Len(t) + 1 /\ e \in 1 .. Len(t) + 1
    <3>1. e \in q + 1 .. Len(t) + 1
      BY <2>0, <2>1, ScanRange
    <3> HIDE DEF s, e
    <3> QED
      BY <1>0, <2>0, <3>1
  <2>3. ASSUME s.kind \in {"blank", "comment"} PROVE At(t, i, e)
    <3>1. F(e) = F(q)
      BY <1>3, <2>0, <2>1, <2>3
    <3> HIDE DEF s, e
    <3> QED
      BY <1>2, <2>2, <3>1 DEF At
  <2>4. ASSUME s.kind \notin {"blank", "comment"}
        PROVE  i <= L /\ K[i] = s /\ At(t, i + 1, e)
    <3>1. F(q) = <<s>> \o F(e)
      BY <1>3, <2>0, <2>1, <2>4
    <3>2. Len(F(q)) = Len(F(e)) + 1 /\ F(q)[1] = s /\ (\A k \in 1 .. Len(F(e)) : F(q)[k + 1] = F(e)[k])
          /\ Len(F(e)) \in Nat
      <4> DEFINE C == {Scan(t, j) : j \in e .. Len(t)} \cup {s}
                 D == {Scan(t, j) : j \in e .. Len(t)}
      <4>1. F(e) \in Seq(D)
        <5> HIDE DEF e, s
        <5> QED
          BY <2>2, TokensFromTyped
      <4>2. D \subseteq C /\ s \in C
        OBVIOUS
      <4> HIDE DEF C, D, s, e, F
      <4>3. F(e) \in Seq(C)
        BY <4>1, <4>2, SeqMonotonic
      <4> QED
        BY <3>1, <4>2, <4>3, ConsIs
    <3> HIDE DEF s, e, F, K, L
    <3>3. i \in 1 .. L /\ Len(F(e)) = (L + 1) - (i + 1) /\ i + 1 \in 1 .. L + 1
      BY <1>1, <1>2, <3>2
    <3>4. K[i] = s
      <4>1. 1 \in 1 .. (L + 1) - i /\ (i + 1) - 1 = i
        BY <1>1, <3>3
      <4> QED
        BY <1>2, <3>2, <4>1
    <3>5. ASSUME NEW k \in 1 .. (L + 1) - (i + 1) PROVE F(e)[k] = K[((i + 1) + k) - 1]
      <4>1. k + 1 \in 1 .. (L + 1) - i /\ (i + (k + 1)) - 1 = ((i + 1) + k) - 1 /\ k \in 1 .. Len(F(e))
        BY <1>1, <3>3
      <4> QED
        BY <1>2, <3>2, <4>1
    <3>6. i <= L
      BY <3>3
    <3>7. At(t, i + 1, e)
      BY <2>2, <3>3, <3>5 DEF At, F, K, L
    <3> QED
      BY <3>4, <3>6, <3>7
  <2> QED
    BY <2>0, <2>1, <2>3, <2>4
<1> QED
  BY <1>0, <1>2, <1>6, <1>7

(* The next token is found past blanks and comments. *)
LEMMA AtReach ==
  ASSUME NEW t \in Text, Terminated(Tokens(t)),
         NEW G, \A p \in G : p \in 1 .. Len(t) /\ Scan(t, p).kind # "unterminated" => Scan(t, p).end \in G
  PROVE  \A q \in 1 .. Len(t) + 1 : \A i \in 1 .. Len(Tokens(t)) : At(t, i, q) =>
           /\ Tokens(t)[i].start \in q .. Len(t) /\ Tokens(t)[i] = Scan(t, Tokens(t)[i].start)
           /\ Tokens(t)[i].kind \notin {"blank", "comment", "unterminated"}
           /\ Tokens(t)[i].end \in Tokens(t)[i].start + 1 .. Len(t) + 1
           /\ At(t, i + 1, Tokens(t)[i].end)
           /\ q \in G => Tokens(t)[i].end \in G
<1> DEFINE K == Tokens(t)
           N == Len(t) + 1
           Q(q, s) == /\ s.start \in q .. Len(t) /\ s = Scan(t, s.start)
                      /\ s.kind \notin {"blank", "comment", "unterminated"}
                      /\ s.end \in s.start + 1 .. Len(t) + 1
           P(q) == \A i \in 1 .. Len(K) : At(t, i, q) =>
                     /\ Q(q, K[i]) /\ At(t, i + 1, K[i].end)
                     /\ q \in G => K[i].end \in G
           S == {q \in 0 .. N : q # 0 => P(q)}
<1>0. Len(t) \in Nat /\ Len(K) \in Nat
  BY TextIs, AtFirst
<1>1. ASSUME NEW q \in 0 .. N, \A l \in q + 1 .. N : l \in S PROVE q \in S
  <2> SUFFICES ASSUME q # 0, NEW i \in 1 .. Len(K), At(t, i, q)
               PROVE  Q(q, K[i]) /\ At(t, i + 1, K[i].end) /\ (q \in G => K[i].end \in G)
    OBVIOUS
  <2> DEFINE s == Scan(t, q)
             e == s.end
  <2>1. /\ q = Len(t) + 1 => i = Len(K) + 1
        /\ q <= Len(t) =>
              /\ s.kind # "unterminated"
              /\ s.kind \in {"blank", "comment"} => At(t, i, e)
              /\ s.kind \notin {"blank", "comment"} => K[i] = s /\ At(t, i + 1, e)
    BY AtNext
  <2>2. q \in 1 .. Len(t)
    <3> HIDE DEF s, e, P
    <3> QED
      BY <1>0, <2>1
  <2>3. s.kind # "unterminated" /\ e \in q + 1 .. N /\ s.start = q
    <3>1. s.kind # "unterminated"
      BY <2>1, <2>2
    <3> QED
      BY <2>2, <3>1, ScanRange
  <2>4. q \in G => e \in G
    BY <2>2, <2>3
  <2>5. CASE s.kind \in {"blank", "comment"}
    <3>1. At(t, i, e) /\ e # 0 /\ P(e)
      <4>1. At(t, i, e)
        BY <2>1, <2>2, <2>5
      <4>2. e \in S /\ e # 0
        <5> HIDE DEF e, S
        <5> QED
          BY <1>0, <1>1, <2>2, <2>3
      <4> HIDE DEF e
      <4> QED
        BY <4>1, <4>2
    <3> HIDE DEF s, e, K
    <3>2. Q(e, K[i]) /\ At(t, i + 1, K[i].end) /\ (e \in G => K[i].end \in G)
      BY <3>1
    <3>3. Q(q, K[i])
      <4>1. \A x \in e .. Len(t) : x \in q .. Len(t)
        BY <1>0, <2>2, <2>3
      <4> QED
        BY <3>2, <4>1
    <3> QED
      BY <2>4, <3>2, <3>3
  <2>6. CASE s.kind \notin {"blank", "comment"}
    <3>1. K[i] = s /\ At(t, i + 1, e)
      BY <2>1, <2>2, <2>6
    <3>2. q \in q .. Len(t)
      BY <2>2
    <3>3. Q(q, s)
      BY <2>2, <2>3, <2>6, <3>2
    <3> HIDE DEF s, Q
    <3> QED
      BY <2>4, <3>1, <3>3
  <2> QED
    BY <2>5, <2>6
<1>2. 0 .. N \subseteq S
  <2>1. N \in Nat
    BY <1>0
  <2> HIDE DEF S, N
  <2> QED
    BY <1>1, <2>1, Downwards
<1>3. ASSUME NEW q \in 1 .. Len(t) + 1 PROVE P(q)
  <2>1. q \in 0 .. N /\ q # 0
    BY <1>0
  <2> HIDE DEF P
  <2> QED
    BY <1>2, <2>1
<1> QED
  BY <1>3

(* The tokens of a text, in their order. *)
LEMMA AtEach ==
  ASSUME NEW t \in Text, Terminated(Tokens(t))
  PROVE  \A i \in 1 .. Len(Tokens(t)) :
           /\ Tokens(t)[i].start \in 1 .. Len(t) /\ Tokens(t)[i] = Scan(t, Tokens(t)[i].start)
           /\ Tokens(t)[i].kind \notin {"blank", "comment", "unterminated"}
           /\ Tokens(t)[i].end \in Tokens(t)[i].start + 1 .. Len(t) + 1
           /\ At(t, i + 1, Tokens(t)[i].end)
<1> DEFINE K == Tokens(t)
           L == Len(K)
           S == {k \in Nat : k <= L => \E q \in 1 .. Len(t) + 1 : At(t, k + 1, q)}
           R(q, s) == /\ s.start \in q .. Len(t) /\ s = Scan(t, s.start)
                      /\ s.kind \notin {"blank", "comment", "unterminated"}
                      /\ s.end \in s.start + 1 .. Len(t) + 1
<1>0. Len(t) \in Nat /\ L \in Nat /\ At(t, 1, 1)
  BY TextIs, AtFirst
<1>1. ASSUME NEW q \in 1 .. Len(t) + 1, NEW i \in 1 .. L, At(t, i, q)
      PROVE  R(q, K[i]) /\ At(t, i + 1, K[i].end)
  <2> DEFINE G == {}
  <2>1. \A p \in G : p \in 1 .. Len(t) /\ Scan(t, p).kind # "unterminated" => Scan(t, p).end \in G
    OBVIOUS
  <2> HIDE DEF G
  <2>2. \A p \in 1 .. Len(t) + 1 : \A k \in 1 .. L : At(t, k, p) =>
          R(p, K[k]) /\ At(t, k + 1, K[k].end)
    BY ZenonT(60), <2>1, AtReach
  <2> QED
    BY <1>1, <2>2
<1> HIDE DEF K, L
<1>2. 0 \in S
  <2>1. 1 \in 1 .. Len(t) + 1 /\ 0 + 1 = 1
    BY <1>0
  <2> QED
    BY <1>0, <2>1
<1>3. ASSUME NEW k \in Nat, k \in S PROVE k + 1 \in S
  <2>0. CASE ~ (k + 1 <= L)
    BY <2>0
  <2> SUFFICES ASSUME k + 1 <= L PROVE \E q \in 1 .. Len(t) + 1 : At(t, (k + 1) + 1, q)
    BY <2>0
  <2>1. k <= L /\ k + 1 \in 1 .. L
    BY <1>0
  <2>2. PICK q \in 1 .. Len(t) + 1 : At(t, k + 1, q)
    BY <1>3, <2>1
  <2> DEFINE e == K[k + 1].end
  <2>3. R(q, K[k + 1]) /\ At(t, (k + 1) + 1, e)
    <3> HIDE DEF R
    <3> QED
      BY <1>1, <2>1, <2>2
  <2>4. e \in 1 .. Len(t) + 1
    BY <2>3 DEF At
  <2> HIDE DEF e
  <2> QED
    BY <2>3, <2>4
<1>4. Nat \subseteq S
  <2> HIDE DEF S
  <2> QED
    BY <1>2, <1>3, Induct
<1>5. ASSUME NEW i \in 1 .. L
      PROVE  /\ K[i].start \in 1 .. Len(t) /\ K[i] = Scan(t, K[i].start)
             /\ K[i].kind \notin {"blank", "comment", "unterminated"}
             /\ K[i].end \in K[i].start + 1 .. Len(t) + 1
             /\ At(t, i + 1, K[i].end)
  <2>1. i - 1 \in Nat /\ i - 1 <= L /\ (i - 1) + 1 = i
    BY <1>0
  <2>2. PICK q \in 1 .. Len(t) + 1 : At(t, i, q)
    BY <1>4, <2>1
  <2>3. R(q, K[i]) /\ At(t, i + 1, K[i].end)
    <3> HIDE DEF R
    <3> QED
      BY <1>1, <2>2
  <2>4. \A x \in q .. Len(t) : x \in 1 .. Len(t)
    BY <1>0
  <2> QED
    BY <2>3, <2>4
<1> QED
  BY <1>5 DEF K, L

(* The tokens from q on start at q or later. *)
LEMMA AtStarts ==
  ASSUME NEW t \in Text, NEW i, NEW q, At(t, i, q)
  PROVE  \A r \in i .. Len(Tokens(t)) : Tokens(t)[r].start >= q
<1> DEFINE K == Tokens(t)
           L == Len(K)
           F == TokensFrom(t, q)
<1>0. Len(t) \in Nat /\ L \in Nat
  BY TextIs, AtFirst
<1>1. q \in 1 .. Len(t) + 1 /\ i \in 1 .. L + 1 /\ Len(F) = (L + 1) - i
      /\ \A k \in 1 .. (L + 1) - i : F[k] = K[(i + k) - 1]
  BY DEF At
<1>2. F \in Seq({Scan(t, j) : j \in q .. Len(t)})
  BY <1>1, TokensFromTyped
<1>3. \A k \in 1 .. Len(F) : F[k] \in {Scan(t, j) : j \in q .. Len(t)}
  <2> DEFINE C == {Scan(t, j) : j \in q .. Len(t)}
  <2> HIDE DEF C, F
  <2>1. F \in Seq(C)
    BY <1>2 DEF C
  <2>2. \A k \in 1 .. Len(F) : F[k] \in C
    BY <2>1, LenProperties
  <2> QED
    BY <2>2 DEF C
<1> SUFFICES ASSUME NEW r \in i .. L PROVE K[r].start >= q
  OBVIOUS
<1> HIDE DEF F, K, L
<1>4. (r - i) + 1 \in 1 .. (L + 1) - i /\ (i + ((r - i) + 1)) - 1 = r
  BY <1>0, <1>1
<1>5. F[(r - i) + 1] = K[r] /\ (r - i) + 1 \in 1 .. Len(F)
  BY <1>1, <1>4
<1>6. PICK j \in q .. Len(t) : K[r] = Scan(t, j)
  BY <1>3, <1>5
<1>7. j \in 1 .. Len(t)
  BY <1>0, <1>1
<1>8. Scan(t, j).start = j
  BY <1>7, ScanRange
<1> QED
  BY <1>1, <1>6, <1>8

(* A quoted identifier ends with a quote that is not doubled. *)
LEMMA QuotedScan ==
  ASSUME NEW t \in Text, NEW i \in 1 .. Len(t), Scan(t, i).kind = "quoted_identifier"
  PROVE  /\ t[Scan(t, i).end - 1] = DoubleQuote
         /\ ~ (Scan(t, i).end <= Len(t) /\ t[Scan(t, i).end] = DoubleQuote)
<1>0. Len(t) \in Nat
  BY TextIs
<1>1. t[i] = DoubleQuote
  <2> SUFFICES ASSUME t[i] # DoubleQuote PROVE FALSE
    OBVIOUS
  <2>1. \A k, j : k # "quoted_identifier" => Plain(t, i, j, k).kind # "quoted_identifier"
    BY TokenIs DEF Plain
  <2>2. \A j : Quoted(t, i, j, "string").kind # "quoted_identifier"
    BY TokenIs DEF Quoted
  <2>3. Dollar(t, i).kind # "quoted_identifier"
    BY TokenIs DEF Dollar
  <2>4. \/ Scan(t, i) = Plain(t, i, i + 1, "blank")
        \/ Scan(t, i) = Plain(t, i, LineEnd(t, i), "comment")
        \/ Scan(t, i) = Plain(t, i, CommentEnd(t, i), "comment")
        \/ Scan(t, i) = Dollar(t, i)
        \/ Scan(t, i) = Quoted(t, i, i + 1, "string")
        \/ Scan(t, i) = Quoted(t, i, i, "string")
        \/ Scan(t, i) = Plain(t, i, WordEnd(t, i), "identifier")
        \/ Scan(t, i) = Plain(t, i, i + 1, "symbol")
    BY <1>0, ScanCases
  <2> QED
    BY <2>1, <2>2, <2>3, <2>4
<1> DEFINE B == IF i > i THEN {"\\"} ELSE {}
           e == QuotedEnd(t, i, B)
<1>2. Scan(t, i) = Quoted(t, i, i, "quoted_identifier")
  BY <1>0, <1>1, ScanCases
<1>3. Scan(t, i) = Token(i, e, "quoted_identifier", SubSeq(t, i + 1, e - 2))
  BY <1>2 DEF Quoted
<1> HIDE DEF B, e
<1>4. Scan(t, i).end = e /\ e # 0
  <2>1. Scan(t, i).end = e /\ Scan(t, i).kind = IF e = 0 THEN "unterminated" ELSE "quoted_identifier"
    BY <1>3, TokenIs
  <2> QED
    BY <2>1
<1>5. PICK f : QuotedEnds(f, t, i, B) /\ e = f[i + 1]
  BY <1>0, QuotedEndIs DEF e
<1>6. \A j \in 1 .. Len(t) + 2 :
           \/ f[j] = 0
           \/ /\ f[j] \in j + 1 .. Len(t) + 1 /\ t[f[j] - 1] = t[i]
              /\ ~ (f[j] <= Len(t) /\ t[f[j]] = t[i])
  BY <1>0, <1>5, QuotedRange
<1>7. i + 1 \in 1 .. Len(t) + 2
  BY <1>0
<1>8. t[e - 1] = t[i] /\ ~ (e <= Len(t) /\ t[e] = t[i])
  BY <1>4, <1>5, <1>6, <1>7
<1> QED
  BY <1>1, <1>4, <1>8

(* u goes on as t does from q to before b, and ends or has a view there. *)
Like(t, q, b, u, d) ==
  /\ Copied(t, q, b, u, d) /\ b \in q .. Len(t) + 1 /\ b + d <= Len(u)
  /\ \/ u[b + d] = ")" /\ b = Len(t) + 1
     \/ u[b + d] = DoubleQuote /\ (b > q => t[b - 1] # DoubleQuote)

(* A copy has no marker where the text has none. *)
LEMMA MarkerLike ==
  ASSUME NEW t \in Text, NEW u \in Text, NEW i \in 1 .. Len(t), NEW d \in Int, NEW b, Like(t, i, b, u, d),
         i < b, MarkerEnd(t, i) = 0
  PROVE  MarkerEnd(u, i + d) = 0
<1> DEFINE r == i + d
           j == MarkerEnd(u, r) - 1
           B == b + d
<1>0. Len(t) \in Nat /\ Len(u) \in Nat
  BY TextIs
<1>1. i + d >= 1 /\ b \in i + 1 .. Len(t) + 1 /\ b + d <= Len(u) /\ \A k \in i .. b - 1 : u[k + d] = t[k]
  <2>1. b \in i .. Len(t) + 1 /\ i + d >= 1 /\ b + d <= Len(u) /\ \A k \in i .. b - 1 : u[k + d] = t[k]
    BY DEF Like, Copied
  <2> QED
    BY <2>1
<1>2. u[B] \notin Words /\ u[B] # "$"
  BY Symbols, DoubleQuoteIs DEF Like
<1>3. r \in 1 .. Len(u)
  BY <1>0, <1>1
<1> SUFFICES ASSUME MarkerEnd(u, r) # 0 PROVE FALSE
  OBVIOUS
<1>4. MarkerEnd(u, r) \in Nat /\ Marker(u, r, j)
  <2> HIDE DEF r
  <2> QED
    BY <1>0, <1>3, MarkerEndIs
<1>5. u[r] = "$" /\ j \in r + 1 .. Len(u) /\ u[j] = "$" /\ \A k \in r + 1 .. j - 1 : u[k] \in Words
  <2> HIDE DEF r, j
  <2> QED
    BY <1>4 DEF Marker
<1> HIDE DEF j
<1>6. j < B
  <2> SUFFICES ASSUME ~ (j < B) PROVE FALSE
    OBVIOUS
  <2>1. j = B \/ B \in r + 1 .. j - 1
    BY <1>0, <1>1, <1>5
  <2> HIDE DEF B
  <2> QED
    BY <1>2, <1>5, <2>1
<1>7. j - d \in i + 1 .. Len(t) /\ j - d \in i .. b - 1 /\ (j - d) + d = j /\ i \in i .. b - 1
  BY <1>0, <1>1, <1>5, <1>6
<1>8. t[i] = "$" /\ t[j - d] = "$"
  BY <1>1, <1>5, <1>7
<1>9. ASSUME NEW k \in i + 1 .. (j - d) - 1 PROVE t[k] \in Words
  <2>1. k \in i .. b - 1 /\ k + d \in r + 1 .. j - 1
    BY <1>1, <1>5, <1>7
  <2> HIDE DEF r
  <2> QED
    BY <1>1, <1>5, <2>1
<1>10. Marker(t, i, j - d)
  BY <1>7, <1>8, <1>9 DEF Marker
<1>11. MarkerEnd(t, i) = (j - d) + 1
  BY <1>0, <1>7, <1>10, MarkerEndIs
<1> QED
  BY <1>7, <1>11

(* What is scanned before the copy ends is scanned in the copy. *)
LEMMA ScanLike ==
  ASSUME NEW t \in Text, NEW u \in Text, NEW i \in 1 .. Len(t), NEW d \in Int, NEW b, Like(t, i, b, u, d),
         Scan(t, i).kind # "unterminated", Scan(t, i).end <= b, ~ OpenLine(t, i)
  PROVE  Scan(u, i + d) = Moved(Scan(t, i), d)
<1> DEFINE e == Scan(t, i).end
<1>0. Len(t) \in Nat /\ Len(u) \in Nat
  BY TextIs
<1>1. e \in i + 1 .. Len(t) + 1 /\ e <= b
  BY ScanRange
<1>2. /\ i + d >= 1 /\ b \in i .. Len(t) + 1 /\ b + d <= Len(u) /\ \A k \in i .. b - 1 : u[k + d] = t[k]
      /\ \/ u[b + d] = ")" /\ b = Len(t) + 1
         \/ u[b + d] = DoubleQuote /\ (b > i => t[b - 1] # DoubleQuote)
  BY DEF Like, Copied
<1>3. Copied(t, i, e, u, d)
  <2> HIDE DEF e
  <2>1. \A k \in i .. e - 1 : k \in i .. b - 1
    BY <1>0, <1>1, <1>2
  <2>2. e + d <= Len(u) + 1
    BY <1>0, <1>1, <1>2
  <2> QED
    BY <1>2, <2>1, <2>2 DEF Copied
<1>4. (e <= Len(t) /\ u[e + d] = t[e]) \/ u[e + d] \in {DoubleQuote, ")"}
  <2> HIDE DEF e
  <2>1. CASE e < b
    <3>1. e \in i .. b - 1 /\ e <= Len(t)
      BY <1>0, <1>1, <1>2, <2>1
    <3> QED
      BY <1>2, <3>1
  <2>2. CASE e = b
    BY <1>2, <2>2
  <2> QED
    BY <1>0, <1>1, <1>2, <2>1, <2>2
<1>5. ASSUME Scan(t, i).kind = "quoted_identifier", e + d <= Len(u), u[e + d] = DoubleQuote PROVE FALSE
  <2>1. t[e - 1] = DoubleQuote /\ ~ (e <= Len(t) /\ t[e] = DoubleQuote)
    BY <1>5, QuotedScan
  <2> HIDE DEF e
  <2>2. CASE e < b
    <3>1. e \in i .. b - 1 /\ e <= Len(t)
      BY <1>0, <1>1, <1>2, <2>2
    <3> QED
      BY <1>2, <1>5, <2>1, <3>1
  <2>3. CASE e = b
    <3>1. b > i
      BY <1>1, <2>3
    <3>2. DoubleQuote # ")"
      BY DoubleQuoteIs
    <3> QED
      BY <1>2, <1>5, <2>1, <2>3, <3>1, <3>2
  <2> QED
    BY <1>0, <1>1, <1>2, <2>2, <2>3
<1>6. MarkerEnd(t, i) = 0 => MarkerEnd(u, i + d) = 0
  <2>1. i < b
    <3> HIDE DEF e
    <3> QED
      BY <1>1, <1>2
  <2> QED
    BY <2>1, MarkerLike
<1>7. Ahead(t, i, u, d)
  <2> HIDE DEF e
  <2>1. /\ e + d > Len(u) \/ (e <= Len(t) /\ u[e + d] = t[e]) \/ u[e + d] \in {DoubleQuote, ")"}
        /\ Scan(t, i).kind = "quoted_identifier" => ~ (e + d <= Len(u) /\ u[e + d] = DoubleQuote)
        /\ MarkerEnd(t, i) = 0 => MarkerEnd(u, i + d) = 0
        /\ OpenLine(t, i) => e + d > Len(u)
    BY <1>4, <1>5, <1>6
  <2> QED
    BY <2>1 DEF Ahead, e
<1> QED
  BY <1>3, <1>7, ScanCopied

(* The tokens from q on: the one that starts there, and those that follow. *)
LEMMA FromStep ==
  ASSUME NEW t \in Text, NEW q \in 1 .. Len(t), Scan(t, q).kind # "unterminated"
  PROVE  /\ Scan(t, q).end \in q + 1 .. Len(t) + 1
         /\ Len(TokensFrom(t, Scan(t, q).end)) \in Nat /\ Len(TokensFrom(t, q)) \in Nat
         /\ Scan(t, q).kind \in {"blank", "comment"} => TokensFrom(t, q) = TokensFrom(t, Scan(t, q).end)
         /\ Scan(t, q).kind \notin {"blank", "comment"} =>
              /\ Len(TokensFrom(t, q)) = Len(TokensFrom(t, Scan(t, q).end)) + 1
              /\ TokensFrom(t, q)[1] = Scan(t, q)
              /\ \A k \in 1 .. Len(TokensFrom(t, Scan(t, q).end)) :
                   TokensFrom(t, q)[k + 1] = TokensFrom(t, Scan(t, q).end)[k]
<1> DEFINE s == Scan(t, q)
           e == s.end
           F(p) == TokensFrom(t, p)
<1>0. Len(t) \in Nat
  BY TextIs
<1>1. e \in q + 1 .. Len(t) + 1 /\ e \in 1 .. Len(t) + 1 /\ q \in 1 .. Len(t) + 1 /\ ~ (q > Len(t))
  <2>1. e \in q + 1 .. Len(t) + 1
    BY ScanRange
  <2> HIDE DEF s, e
  <2> QED
    BY <1>0, <2>1
<1>2. F(q) = IF s.kind \in {"blank", "comment"} THEN F(e) ELSE <<s>> \o F(e)
  BY <1>1, TokensFromIs
<1>3. F(e) \in Seq({Scan(t, j) : j \in e .. Len(t)}) /\ Len(F(e)) \in Nat /\ Len(F(q)) \in Nat
  <2> HIDE DEF s, e
  <2> QED
    BY <1>1, TokensFromTyped
<1>4. ASSUME s.kind \notin {"blank", "comment"}
      PROVE  Len(F(q)) = Len(F(e)) + 1 /\ F(q)[1] = s /\ \A k \in 1 .. Len(F(e)) : F(q)[k + 1] = F(e)[k]
  <2>1. F(q) = <<s>> \o F(e)
    BY <1>2, <1>4
  <2> DEFINE C == {Scan(t, j) : j \in e .. Len(t)} \cup {s}
             D == {Scan(t, j) : j \in e .. Len(t)}
  <2>2. D \subseteq C /\ s \in C /\ F(e) \in Seq(D)
    BY <1>3
  <2> HIDE DEF C, D, s, e, F
  <2>3. F(e) \in Seq(C)
    BY <2>2, SeqMonotonic
  <2> QED
    BY <2>1, <2>2, <2>3, ConsIs
<1> QED
  BY <1>1, <1>2, <1>3, <1>4

(* There are no tokens after the end. *)
LEMMA FromEnd ==
  ASSUME NEW t \in Text
  PROVE  TokensFrom(t, Len(t) + 1) = <<>> /\ Len(TokensFrom(t, Len(t) + 1)) = 0
<1>1. Len(t) \in Nat /\ Len(t) + 1 \in 1 .. Len(t) + 1 /\ Len(t) + 1 > Len(t)
  BY TextIs
<1> DEFINE p == Len(t) + 1
<1>2. p \in 1 .. Len(t) + 1 /\ p > Len(t)
  BY <1>1
<1> HIDE DEF p
<1>3. TokensFrom(t, p) = <<>>
  BY <1>2, TokensFromIs
<1> QED
  BY <1>3 DEF p

(* From q on, t ends outside a comment. *)
Good(t, q) == Len(TokensFrom(t \o <<")">>, q)) # Len(TokensFrom(t, q))

(* A text with a closing parenthesis after it. *)
LEMMA ClosedIs ==
  ASSUME NEW t \in Text
  PROVE  /\ t \o <<")">> \in Text /\ Len(t \o <<")">>) = Len(t) + 1
         /\ (\A k \in 1 .. Len(t) : (t \o <<")">>)[k] = t[k]) /\ (t \o <<")">>)[Len(t) + 1] = ")"
<1>0. Len(t) \in Nat /\ t \in Seq(Sym)
  BY TextIs DEF Text
<1> DEFINE c == <<")">>
<1>1. c \in Seq(Sym) /\ Len(c) = 1 /\ c[1] = ")"
  BY DEF Sym
<1> HIDE DEF c
<1>2. /\ t \o c \in Seq(Sym) /\ Len(t \o c) = Len(t) + Len(c)
      /\ \A k \in 1 .. Len(t) + Len(c) : (t \o c)[k] = IF k <= Len(t) THEN t[k] ELSE c[k - Len(t)]
  BY <1>0, <1>1, ConcatProperties
<1>3. \A k \in 1 .. Len(t) : k \in 1 .. Len(t) + Len(c) /\ k <= Len(t)
  BY <1>0, <1>1
<1>4. Len(t) + 1 \in 1 .. Len(t) + Len(c) /\ ~ (Len(t) + 1 <= Len(t)) /\ (Len(t) + 1) - Len(t) = 1
  BY <1>0, <1>1
<1>5. (t \o c)[Len(t) + 1] = ")"
  BY <1>1, <1>2, <1>4
<1> QED
  BY <1>1, <1>2, <1>3, <1>5 DEF Text, c

(* An open comment takes what comes next. *)
LEMMA OpenLineEnds ==
  ASSUME NEW t \in Text, NEW q \in 1 .. Len(t), OpenLine(t, q)
  PROVE  Len(TokensFrom(t, q)) = 0
<1>0. Len(t) \in Nat
  BY TextIs
<1>1. Found(t, q, <<"-", "-">>) /\ \A k \in q + 2 .. Len(t) : t[k] # "newline"
  BY DEF OpenLine
<1>2. q + 1 <= Len(t)
  BY <1>0, <1>1, FoundIs
<1> DEFINE p == Len(t) + 1
<1>3. p \in q + 2 .. Len(t) + 1 /\ p # 0 /\ p = Len(t) + 1
  BY <1>0, <1>2
<1>4. LineEnd(t, q) = p
  <2> HIDE DEF p
  <2> QED
    BY <1>0, <1>1, <1>2, <1>3, LineEndOnly
<1>5. Scan(t, q) = Plain(t, q, p, "comment")
  BY <1>0, <1>1, <1>4, ScanCases
<1> HIDE DEF p
<1>6. Scan(t, q).kind = "comment" /\ Scan(t, q).end = p
  BY <1>3, <1>5, TokenIs DEF Plain
<1>7. TokensFrom(t, q) = TokensFrom(t, p)
  BY <1>6, FromStep
<1>8. Len(TokensFrom(t, p)) = 0
  BY FromEnd DEF p
<1> QED
  BY <1>7, <1>8

(* If the parenthesis counts as a token after q, it does after the token   *)
(* at q.                                                                   *)
LEMMA GoodNext ==
  ASSUME NEW t \in Text, NEW q \in 1 .. Len(t), Scan(t, q).kind # "unterminated", Good(t, q)
  PROVE  ~ OpenLine(t, q) /\ Good(t, Scan(t, q).end)
<1> DEFINE u == t \o <<")">>
           s == Scan(t, q)
           e == s.end
<1>0. Len(t) \in Nat
  BY TextIs
<1>1. u \in Text /\ Len(u) = Len(t) + 1 /\ (\A k \in 1 .. Len(t) : u[k] = t[k]) /\ u[Len(t) + 1] = ")"
  BY ClosedIs
<1>2. \A p : Good(t, p) <=> Len(TokensFrom(u, p)) # Len(TokensFrom(t, p))
  BY DEF Good
<1> HIDE DEF u
<1>3. q \in 1 .. Len(u)
  BY <1>0, <1>1
<1>4. ~ OpenLine(t, q)
  <2> SUFFICES ASSUME OpenLine(t, q) PROVE FALSE
    OBVIOUS
  <2>1. Found(t, q, <<"-", "-">>) /\ \A k \in q + 2 .. Len(t) : t[k] # "newline"
    BY DEF OpenLine
  <2>2. q + 1 <= Len(t) /\ t[q] = "-" /\ t[q + 1] = "-"
    BY <1>0, <2>1, FoundIs
  <2>3. q + 1 <= Len(u) /\ u[q] = "-" /\ u[q + 1] = "-"
    <3>1. q + 1 \in 1 .. Len(t)
      BY <2>2
    <3> QED
      BY <1>0, <1>1, <2>2, <3>1
  <2>4. Found(u, q, <<"-", "-">>)
    <3>1. Len(u) \in Nat /\ q \in Nat
      BY <1>0, <1>1
    <3> QED
      BY <2>3, <3>1, FoundIs
  <2>5. ASSUME NEW k \in q + 2 .. Len(u) PROVE u[k] # "newline"
    <3>1. k \in q + 2 .. Len(t) \/ k = Len(t) + 1
      BY <1>0, <1>1
    <3>2. k \in q + 2 .. Len(t) => k \in 1 .. Len(t)
      BY <1>0
    <3> QED
      BY <1>1, <2>1, <3>1, <3>2
  <2>6. OpenLine(u, q)
    BY <2>4, <2>5 DEF OpenLine
  <2>7. Len(TokensFrom(u, q)) = 0 /\ Len(TokensFrom(t, q)) = 0
    BY <1>1, <1>3, <2>6, OpenLineEnds
  <2> QED
    BY <1>2, <2>7
<1>5. e \in q + 1 .. Len(t) + 1
  BY ScanRange
<1>6. Scan(u, q) = s
  <2> DEFINE b == Len(t) + 1
  <2>1. b \in q .. Len(t) + 1 /\ b = Len(t) + 1 /\ e <= b /\ 0 \in Int /\ q + 0 = q /\ b + 0 = b /\ b + 0 <= Len(u)
    <3> HIDE DEF e
    <3> QED
      BY <1>0, <1>1, <1>5
  <2>2. \A k \in q .. b - 1 : k + 0 = k /\ k \in 1 .. Len(t)
    BY <1>0
  <2>3. Copied(t, q, b, u, 0)
    <3>1. q + 0 >= 1 /\ b + 0 <= Len(u) + 1
      BY <1>0, <1>1
    <3> QED
      BY <1>1, <2>2, <3>1 DEF Copied
  <2> HIDE DEF b
  <2>4. Like(t, q, b, u, 0)
    BY <1>1, <2>1, <2>3 DEF Like
  <2>5. Scan(u, q + 0) = Moved(s, 0)
    BY <1>1, <1>4, <2>1, <2>4, ScanLike
  <2>6. s = [kind |-> s.kind, start |-> s.start, end |-> e, value |-> s.value]
    BY <1>0, ScanRecord
  <2>7. s.start + 0 = s.start /\ e + 0 = e
    <3>1. s.start = q
      BY ScanRange
    <3> HIDE DEF s, e
    <3> QED
      BY <1>5, <3>1
  <2>8. Moved(s, 0) = [kind |-> s.kind, start |-> s.start, end |-> e, value |-> s.value]
    BY <2>7 DEF Moved
  <2> QED
    BY <2>1, <2>5, <2>6, <2>8
<1>7. Len(TokensFrom(u, e)) # Len(TokensFrom(t, e))
  <2>1. /\ Len(TokensFrom(t, e)) \in Nat /\ Len(TokensFrom(t, q)) \in Nat
        /\ s.kind \in {"blank", "comment"} => TokensFrom(t, q) = TokensFrom(t, e)
        /\ s.kind \notin {"blank", "comment"} => Len(TokensFrom(t, q)) = Len(TokensFrom(t, e)) + 1
    BY FromStep
  <2>2. /\ Len(TokensFrom(u, e)) \in Nat /\ Len(TokensFrom(u, q)) \in Nat
        /\ s.kind \in {"blank", "comment"} => TokensFrom(u, q) = TokensFrom(u, e)
        /\ s.kind \notin {"blank", "comment"} => Len(TokensFrom(u, q)) = Len(TokensFrom(u, e)) + 1
    BY SMTT(40), <1>1, <1>3, <1>6, FromStep
  <2>3. Len(TokensFrom(u, q)) # Len(TokensFrom(t, q))
    BY <1>2
  <2> HIDE DEF s, e
  <2> QED
    BY <2>1, <2>2, <2>3
<1> QED
  BY <1>2, <1>4, <1>7

(* What a reference is, token by token. *)
LEMMA ReferenceIs ==
  ASSUME NEW K
  PROVE  \A i : i \in References(K) <=>
           /\ i \in 1 .. Len(K) - 3
           /\ K[i].kind \in {"identifier", "quoted_identifier"} /\ K[i].value = <<"source">>
           /\ K[i + 1].value = <<"(">> /\ K[i + 3].value = <<")">>
           /\ K[i + 2].kind \in {"string", "quoted_identifier"}
           /\ K[i + 2].value \in {<<id>> : id \in SourceIds}
  BY DEF References

(* The tokens of a reference are no other reference. *)
LEMMA ReferencesApart ==
  ASSUME NEW K, Len(K) \in Nat, NEW i, i \in References(K)
  PROVE  /\ i \in 1 .. Len(K) /\ i + 3 \in 1 .. Len(K)
         /\ i + 1 \notin References(K) /\ i + 2 \notin References(K) /\ i + 3 \notin References(K)
         /\ K[i + 2].value[1] \in SourceIds
<1>1. /\ i \in 1 .. Len(K) - 3
      /\ K[i + 1].value = <<"(">> /\ K[i + 3].value = <<")">>
      /\ K[i + 2].value \in {<<id>> : id \in SourceIds}
  BY ReferenceIs
<1>2. \A j : j \in References(K) => K[j].value = <<"source">>
  BY ReferenceIs
<1>3. PICK id \in SourceIds : K[i + 2].value = <<id>>
  BY <1>1
<1>4. <<"(">> # <<"source">> /\ <<")">> # <<"source">> /\ <<id>> # <<"source">> /\ <<id>>[1] = id
  BY <1>3, Symbols
<1>5. i \in 1 .. Len(K) /\ i + 3 \in 1 .. Len(K)
  BY <1>1
<1>6. i + 1 \notin References(K) /\ i + 2 \notin References(K) /\ i + 3 \notin References(K)
  BY <1>1, <1>2, <1>3, <1>4
<1>7. K[i + 2].value[1] \in SourceIds
  BY <1>3, <1>4
<1> QED
  BY <1>5, <1>6, <1>7

(* A function over the places of a sequence that looks only ahead. *)
LEMMA RewrittenIs ==
  ASSUME NEW t \in Text
  PROVE  \A i \in 1 .. Len(Tokens(t)) + 1 :
           RewrittenFrom(t, i) =
             IF i > Len(Tokens(t)) THEN t
             ELSE IF i \in References(Tokens(t)) THEN Replaced(RewrittenFrom(t, i + 1), Tokens(t), i)
             ELSE RewrittenFrom(t, i + 1)
<1> DEFINE K == Tokens(t)
           L == Len(K)
           N == L + 1
           E(g, j) == IF j > L THEN t
                      ELSE IF j \in References(K) THEN Replaced(g[j + 1], K, j)
                      ELSE g[j + 1]
           S == {k \in 0 .. N : \E g : g = [j \in k + 1 .. N |-> E(g, j)]}
           f == CHOOSE g : g = [j \in 1 .. N |-> E(g, j)]
<1>0. L \in Nat
  BY AtFirst
<1>1. ASSUME NEW k \in 0 .. N, \A l \in k + 1 .. N : l \in S PROVE k \in S
  <2>1. CASE k = N
    <3> DEFINE g == [j \in k + 1 .. N |-> 0]
    <3>1. k + 1 .. N = {}
      <4> HIDE DEF L, K
      <4> QED
        BY <1>0, <2>1
    <3> HIDE DEF E, L, N
    <3>2. g = [j \in k + 1 .. N |-> E(g, j)]
      BY <3>1
    <3> QED
      BY <3>2
  <2>2. CASE k < N
    <3> HIDE DEF L, K
    <3>1. k + 1 \in S
      <4> HIDE DEF S
      <4> QED
        BY <1>0, <1>1, <2>2
    <3>2. PICK g : g = [j \in k + 2 .. N |-> E(g, j)]
      <4>1. (k + 1) + 1 = k + 2
        BY <1>0
      <4> HIDE DEF E
      <4> QED
        BY <3>1, <4>1
    <3> DEFINE h == [j \in k + 1 .. N |-> IF j = k + 1 THEN E(g, j) ELSE g[j]]
    <3>3. \A j \in k + 2 .. N : h[j] = g[j]
      <4>1. \A j \in k + 2 .. N : j \in k + 1 .. N /\ j # k + 1
        BY <1>0
      <4> HIDE DEF E
      <4> QED
        BY <4>1
    <3>4. ASSUME NEW j \in k + 1 .. N PROVE E(h, j) = E(g, j)
      <4>1. j <= L => j + 1 \in k + 2 .. N
        BY <1>0
      <4> HIDE DEF h, S
      <4>2. j <= L => h[j + 1] = g[j + 1]
        BY <3>3, <4>1
      <4>3. j <= L \/ j > L
        BY <1>0
      <4> QED
        BY <4>2, <4>3
    <3>5. h = [j \in k + 1 .. N |-> E(h, j)]
      <4>1. \A j \in k + 1 .. N : h[j] = E(g, j)
        <5>1. \A j \in k + 1 .. N : j = k + 1 \/ j \in k + 2 .. N
          BY <1>0
        <5> HIDE DEF E
        <5>2. \A j \in k + 2 .. N : g[j] = E(g, j)
          BY <3>2
        <5> QED
          BY <5>1, <5>2
      <4> HIDE DEF E
      <4> QED
        BY <3>4, <4>1
    <3> HIDE DEF h, E
    <3> QED
      BY <3>5
  <2> HIDE DEF S, L, K
  <2> QED
    BY <1>0, <2>1, <2>2
<1>2. 0 \in S
  <2>1. N \in Nat
    BY <1>0
  <2> HIDE DEF S, N
  <2>2. 0 .. N \subseteq S
    BY <1>1, <2>1, Downwards
  <2> QED
    BY <2>1, <2>2
<1>3. f = [j \in 1 .. N |-> E(f, j)]
  <2> HIDE DEF E, L, N
  <2>1. \E g : g = [j \in 1 .. N |-> E(g, j)]
    BY <1>2
  <2> QED
    BY <2>1
<1>4. \A i : RewrittenFrom(t, i) = f[i]
  BY DEF RewrittenFrom
<1> HIDE DEF f
<1>5. \A j \in 1 .. N : f[j] = E(f, j)
  <2> HIDE DEF E, L, N
  <2> QED
    BY <1>3
<1> QED
  BY <1>4, <1>5

(* The substituted tokens from i on: a view for the four of a reference,   *)
(* or the token at i.                                                      *)
LEMMA SubstitutedIs ==
  ASSUME NEW K, Len(K) \in Nat
  PROVE  \A i \in 1 .. Len(K) + 1 :
           SubstitutedFrom(K, i) =
             IF i > Len(K) THEN <<>>
             ELSE IF i \in References(K)
             THEN <<[kind |-> "quoted_identifier", value |-> <<ViewNames[K[i + 2].value[1]]>>]>>
                    \o SubstitutedFrom(K, i + 4)
             ELSE <<[kind |-> K[i].kind, value |-> K[i].value]>> \o SubstitutedFrom(K, i + 1)
<1> DEFINE L == Len(K)
           N == L + 1
           V(j) == <<[kind |-> "quoted_identifier", value |-> <<ViewNames[K[j + 2].value[1]]>>]>>
           W(j) == <<[kind |-> K[j].kind, value |-> K[j].value]>>
           E(g, j) == IF j > L THEN <<>>
                      ELSE IF j \in References(K) THEN V(j) \o g[j + 4]
                      ELSE W(j) \o g[j + 1]
           S == {k \in 0 .. N : \E g : g = [j \in k + 1 .. N |-> E(g, j)]}
           f == CHOOSE g : g = [j \in 1 .. N |-> E(g, j)]
<1>0. L \in Nat
  OBVIOUS
<1>1. ASSUME NEW k \in 0 .. N, \A l \in k + 1 .. N : l \in S PROVE k \in S
  <2>1. CASE k = N
    <3> DEFINE g == [j \in k + 1 .. N |-> 0]
    <3>1. k + 1 .. N = {}
      BY <1>0, <2>1
    <3> HIDE DEF E
    <3>2. g = [j \in k + 1 .. N |-> E(g, j)]
      BY <3>1
    <3> QED
      BY <3>2
  <2>2. CASE k < N
    <3>0. \A j \in References(K) : j + 3 <= L
      <4> HIDE DEF S
      <4> QED
        BY <1>0, ReferencesApart
    <3> HIDE DEF L
    <3>1. k + 1 \in S
      <4> HIDE DEF S
      <4> QED
        BY <1>0, <1>1, <2>2
    <3>2. PICK g : g = [j \in k + 2 .. N |-> E(g, j)]
      <4>1. (k + 1) + 1 = k + 2
        BY <1>0
      <4> HIDE DEF E
      <4> QED
        BY <3>1, <4>1
    <3> DEFINE h == [j \in k + 1 .. N |-> IF j = k + 1 THEN E(g, j) ELSE g[j]]
    <3>3. \A j \in k + 2 .. N : h[j] = g[j]
      <4>1. \A j \in k + 2 .. N : j \in k + 1 .. N /\ j # k + 1
        BY <1>0
      <4> HIDE DEF E
      <4> QED
        BY <4>1
    <3>4. ASSUME NEW j \in k + 1 .. N PROVE E(h, j) = E(g, j)
      <4>1. (j <= L => j + 1 \in k + 2 .. N) /\ (j \in References(K) => j + 4 \in k + 2 .. N)
        BY <1>0, <3>0
      <4> HIDE DEF h, S, V, W
      <4>2. (j <= L => h[j + 1] = g[j + 1]) /\ (j \in References(K) => h[j + 4] = g[j + 4])
        BY <3>3, <4>1
      <4>3. j <= L \/ j > L
        BY <1>0
      <4> QED
        BY <4>2, <4>3
    <3>5. h = [j \in k + 1 .. N |-> E(h, j)]
      <4>1. \A j \in k + 1 .. N : h[j] = E(g, j)
        <5>1. \A j \in k + 1 .. N : j = k + 1 \/ j \in k + 2 .. N
          BY <1>0
        <5> HIDE DEF E
        <5>2. \A j \in k + 2 .. N : g[j] = E(g, j)
          BY <3>2
        <5> QED
          BY <5>1, <5>2
      <4> HIDE DEF E
      <4> QED
        BY <3>4, <4>1
    <3> HIDE DEF h, E
    <3> QED
      BY <3>5
  <2> HIDE DEF S, L
  <2> QED
    BY <1>0, <2>1, <2>2
<1>2. 0 \in S
  <2>1. N \in Nat
    BY <1>0
  <2> HIDE DEF S, N
  <2>2. 0 .. N \subseteq S
    BY <1>1, <2>1, Downwards
  <2> QED
    BY <2>1, <2>2
<1>3. f = [j \in 1 .. N |-> E(f, j)]
  <2> HIDE DEF E
  <2>1. \E g : g = [j \in 1 .. N |-> E(g, j)]
    BY <1>2
  <2> QED
    BY <2>1
<1>4. \A i : SubstitutedFrom(K, i) = f[i]
  BY DEF SubstitutedFrom
<1> HIDE DEF f
<1>5. \A j \in 1 .. N : f[j] = E(f, j)
  <2> HIDE DEF E
  <2> QED
    BY <1>3
<1> QED
  BY <1>4, <1>5

(* Three texts, one after the other. *)
LEMMA ThreeIs ==
  ASSUME NEW a \in Text, NEW b \in Text, NEW c \in Text
  PROVE  /\ a \o b \o c \in Text /\ Len(a \o b \o c) = (Len(a) + Len(b)) + Len(c)
         /\ \A k \in 1 .. Len(a) : (a \o b \o c)[k] = a[k]
         /\ \A k \in 1 .. Len(b) : (a \o b \o c)[Len(a) + k] = b[k]
         /\ \A k \in 1 .. Len(c) : (a \o b \o c)[(Len(a) + Len(b)) + k] = c[k]
<1>0. a \in Seq(Sym) /\ b \in Seq(Sym) /\ c \in Seq(Sym) /\ Len(a) \in Nat /\ Len(b) \in Nat /\ Len(c) \in Nat
  BY TextIs DEF Text
<1> DEFINE ab == a \o b
<1>1. /\ ab \in Seq(Sym) /\ Len(ab) = Len(a) + Len(b)
      /\ \A k \in 1 .. Len(a) + Len(b) : ab[k] = IF k <= Len(a) THEN a[k] ELSE b[k - Len(a)]
  BY <1>0, ConcatProperties
<1> HIDE DEF ab
<1>2. /\ ab \o c \in Seq(Sym) /\ Len(ab \o c) = Len(ab) + Len(c)
      /\ \A k \in 1 .. Len(ab) + Len(c) : (ab \o c)[k] = IF k <= Len(ab) THEN ab[k] ELSE c[k - Len(ab)]
  <2>1. ab \in Seq(Sym) /\ c \in Seq(Sym)
    BY <1>0, <1>1
  <2> QED
    BY <2>1, ConcatProperties
<1>3. ASSUME NEW k \in 1 .. Len(a) PROVE (ab \o c)[k] = a[k]
  <2>1. k \in 1 .. Len(ab) + Len(c) /\ k <= Len(ab) /\ k \in 1 .. Len(a) + Len(b) /\ k <= Len(a)
    BY <1>0, <1>1
  <2> QED
    BY <1>1, <1>2, <2>1
<1>4. ASSUME NEW k \in 1 .. Len(b) PROVE (ab \o c)[Len(a) + k] = b[k]
  <2> DEFINE j == Len(a) + k
  <2>1. j \in 1 .. Len(ab) + Len(c) /\ j <= Len(ab) /\ j \in 1 .. Len(a) + Len(b) /\ ~ (j <= Len(a)) /\ j - Len(a) = k
    BY <1>0, <1>1
  <2> HIDE DEF j
  <2>2. (ab \o c)[j] = b[k]
    BY <1>1, <1>2, <2>1
  <2> QED
    BY <2>2 DEF j
<1>5. ASSUME NEW k \in 1 .. Len(c) PROVE (ab \o c)[(Len(a) + Len(b)) + k] = c[k]
  <2> DEFINE j == (Len(a) + Len(b)) + k
  <2>1. j \in 1 .. Len(ab) + Len(c) /\ ~ (j <= Len(ab)) /\ j - Len(ab) = k
    BY <1>0, <1>1
  <2> HIDE DEF j
  <2>2. (ab \o c)[j] = c[k]
    BY <1>2, <2>1
  <2> QED
    BY <2>2 DEF j
<1> QED
  BY <1>1, <1>2, <1>3, <1>4, <1>5 DEF ab, Text

(* u is r with the name of a view, quoted, in place of what is from a to   *)
(* before e.                                                               *)
ReplacedAs(u, r, a, e, v) ==
  /\ u \in Text /\ Len(u) = ((a + 2) - e) + (Len(r) + 1)
  /\ \A k \in 1 .. a - 1 : u[k] = r[k]
  /\ u[a] = DoubleQuote /\ u[a + 1] = v /\ u[a + 2] = DoubleQuote
  /\ \A k \in e .. Len(r) : u[k + ((a + 3) - e)] = r[k]

(* To replace a reference puts the view between what is before and what is *)
(* after it.                                                               *)
LEMMA ReplacedIs ==
  ASSUME NEW r \in Text, NEW K, NEW i,
         K[i].start \in 1 .. Len(r) + 1, K[i + 3].end \in K[i].start .. Len(r) + 1,
         K[i + 2].value[1] \in SourceIds
  PROVE  ReplacedAs(Replaced(r, K, i), r, K[i].start, K[i + 3].end, ViewNames[K[i + 2].value[1]])
<1> DEFINE a == K[i].start
           e == K[i + 3].end
           v == ViewNames[K[i + 2].value[1]]
           A == SubSeq(r, 1, a - 1)
           B == View(K[i + 2].value[1])
           C == SubSeq(r, e, Len(r))
           R == Replaced(r, K, i)
<1>0. Len(r) \in Nat /\ a \in 1 .. Len(r) + 1 /\ e \in a .. Len(r) + 1
  BY TextIs
<1>1. R = A \o B \o C
  BY DEF Replaced
<1> HIDE DEF a, e
<1>2. A \in Text /\ Len(A) = a - 1 /\ \A k \in 1 .. a - 1 : A[k] = r[k]
  <2>1. 1 \in 1 .. Len(r) + 1 /\ a - 1 \in 1 - 1 .. Len(r) /\ ((a - 1) - 1) + 1 = a - 1
    BY <1>0
  <2>2. /\ A \in Text /\ Len(A) = ((a - 1) - 1) + 1
        /\ \A k \in 1 .. ((a - 1) - 1) + 1 : A[k] = r[(1 + k) - 1]
    BY <2>1, PartIs
  <2>3. \A k \in 1 .. a - 1 : (1 + k) - 1 = k
    BY <1>0
  <2> HIDE DEF A
  <2> QED
    BY <2>1, <2>2, <2>3
<1>3. C \in Text /\ Len(C) = (Len(r) + 1) - e /\ \A k \in 1 .. (Len(r) + 1) - e : C[k] = r[(e + k) - 1]
  <2> DEFINE m == Len(r)
  <2>1. e \in 1 .. Len(r) + 1 /\ m \in e - 1 .. Len(r) /\ (m - e) + 1 = (m + 1) - e
    BY <1>0
  <2>2. /\ C \in Text /\ Len(C) = (m - e) + 1
        /\ \A k \in 1 .. (m - e) + 1 : C[k] = r[(e + k) - 1]
    <3> HIDE DEF m
    <3>1. /\ SubSeq(r, e, m) \in Text /\ Len(SubSeq(r, e, m)) = (m - e) + 1
        /\ \A k \in 1 .. (m - e) + 1 : SubSeq(r, e, m)[k] = r[(e + k) - 1]
      BY <2>1, PartIs
    <3> QED
      BY <3>1 DEF m
  <2> QED
    BY <2>1, <2>2
<1>4. B = <<DoubleQuote, v, DoubleQuote>>
  BY DEF View
<1>5. v \in Sym /\ DoubleQuote \in Sym
  <2>1. v \in Words
    BY Symbols
  <2> QED
    BY <2>1 DEF Sym
<1> HIDE DEF A, C, R, v
<1>6. B \in Text /\ Len(B) = 3 /\ B[1] = DoubleQuote /\ B[2] = v /\ B[3] = DoubleQuote
  <2> DEFINE w == <<DoubleQuote, v, DoubleQuote>>
  <2>1. w \in Seq(Sym)
    BY <1>5
  <2>2. Len(w) = 3 /\ w[1] = DoubleQuote /\ w[2] = v /\ w[3] = DoubleQuote
    OBVIOUS
  <2>3. B = w
    BY <1>4
  <2> HIDE DEF w, B
  <2> QED
    BY <2>1, <2>2, <2>3 DEF Text
<1> HIDE DEF B
<1>7. /\ R \in Text /\ Len(R) = (Len(A) + Len(B)) + Len(C)
      /\ \A k \in 1 .. Len(A) : R[k] = A[k]
      /\ \A k \in 1 .. Len(B) : R[Len(A) + k] = B[k]
      /\ \A k \in 1 .. Len(C) : R[(Len(A) + Len(B)) + k] = C[k]
  <2>1. A \in Text /\ B \in Text /\ C \in Text
    BY <1>2, <1>3, <1>6
  <2>2. /\ A \o B \o C \in Text /\ Len(A \o B \o C) = (Len(A) + Len(B)) + Len(C)
        /\ \A k \in 1 .. Len(A) : (A \o B \o C)[k] = A[k]
        /\ \A k \in 1 .. Len(B) : (A \o B \o C)[Len(A) + k] = B[k]
        /\ \A k \in 1 .. Len(C) : (A \o B \o C)[(Len(A) + Len(B)) + k] = C[k]
    BY ZenonT(60), <2>1, ThreeIs
  <2> DEFINE D == A \o B \o C
  <2>3. R = D
    BY <1>1
  <2> HIDE DEF D
  <2> QED
    BY <2>2, <2>3 DEF D
<1>12. a \in Nat /\ e \in Nat /\ Len(A) = a - 1 /\ Len(B) = 3 /\ Len(C) = (Len(r) + 1) - e
  BY <1>0, <1>2, <1>3, <1>6
<1>8. Len(R) = ((a + 2) - e) + (Len(r) + 1)
  <2>1. Len(R) = (Len(A) + Len(B)) + Len(C)
    BY <1>7
  <2>2. Len(R) = ((a - 1) + 3) + ((Len(r) + 1) - e)
    BY <1>12, <2>1
  <2>3. \A x, y, z \in Nat : ((x - 1) + 3) + ((z + 1) - y) = ((x + 2) - y) + (z + 1)
    OBVIOUS
  <2> QED
    BY <1>0, <1>12, <2>2, <2>3
<1>9. \A k \in 1 .. a - 1 : R[k] = r[k]
  BY <1>2, <1>7
<1>10. R[a] = DoubleQuote /\ R[a + 1] = v /\ R[a + 2] = DoubleQuote
  <2>1. Len(A) + 1 = a /\ Len(A) + 2 = a + 1 /\ Len(A) + 3 = a + 2
    BY <1>0, <1>2
  <2>2. 1 \in 1 .. Len(B) /\ 2 \in 1 .. Len(B) /\ 3 \in 1 .. Len(B)
    BY <1>6
  <2>3. R[Len(A) + 1] = B[1] /\ R[Len(A) + 2] = B[2] /\ R[Len(A) + 3] = B[3]
    BY <1>7, <2>2
  <2> QED
    BY <1>6, <2>1, <2>3
<1>11. ASSUME NEW k \in e .. Len(r) PROVE R[k + ((a + 3) - e)] = r[k]
  <2> DEFINE j == (k - e) + 1
  <2>1. j \in 1 .. Len(C) /\ (Len(A) + Len(B)) + j = k + ((a + 3) - e) /\ (e + j) - 1 = k /\ j \in 1 .. (Len(r) + 1) - e
    <3>1. j \in 1 .. (Len(r) + 1) - e /\ ((a - 1) + 3) + j = k + ((a + 3) - e) /\ (e + j) - 1 = k
      <4>1. \A x, y, z \in Nat : \A l \in y .. z :
              /\ (l - y) + 1 \in 1 .. (z + 1) - y /\ ((x - 1) + 3) + ((l - y) + 1) = l + ((x + 3) - y)
              /\ (y + ((l - y) + 1)) - 1 = l
        OBVIOUS
      <4> QED
        BY <1>0, <1>12, <4>1
    <3> HIDE DEF j
    <3> QED
      BY <1>12, <3>1
  <2> HIDE DEF j
  <2>2. R[(Len(A) + Len(B)) + j] = C[j] /\ C[j] = r[(e + j) - 1]
    BY <1>3, <1>7, <2>1
  <2> QED
    BY <2>1, <2>2
<1> QED
  BY <1>7, <1>8, <1>9, <1>10, <1>11 DEF R, v, a, e, ReplacedAs

(* The tokens of a reference, and where the text goes on. *)
LEMMA ReferenceSpan ==
  ASSUME NEW t \in Text, Terminated(Tokens(t)), NEW i, i \in References(Tokens(t))
  PROVE  /\ i \in 1 .. Len(Tokens(t)) /\ i + 3 \in 1 .. Len(Tokens(t))
         /\ Tokens(t)[i].start \in 1 .. Len(t)
         /\ Tokens(t)[i + 3].end \in Tokens(t)[i].start + 1 .. Len(t) + 1
         /\ At(t, i + 4, Tokens(t)[i + 3].end)
         /\ RewrittenFrom(t, i) = Replaced(RewrittenFrom(t, i + 4), Tokens(t), i)
         /\ Tokens(t)[i + 2].value[1] \in SourceIds
<1> DEFINE K == Tokens(t)
           L == Len(K)
<1>0. Len(t) \in Nat /\ L \in Nat
  BY TextIs, AtFirst
<1>1. /\ i \in 1 .. L /\ i + 3 \in 1 .. L
      /\ i + 1 \notin References(K) /\ i + 2 \notin References(K) /\ i + 3 \notin References(K)
      /\ K[i + 2].value[1] \in SourceIds
  BY <1>0, ReferencesApart
<1>2. /\ K[i].start \in 1 .. Len(t) /\ K[i].end \in K[i].start + 1 .. Len(t) + 1 /\ At(t, i + 1, K[i].end)
      /\ K[i + 3].start \in 1 .. Len(t) /\ K[i + 3].end \in K[i + 3].start + 1 .. Len(t) + 1
      /\ At(t, (i + 3) + 1, K[i + 3].end)
  BY <1>1, AtEach
<1>3. K[i + 3].start >= K[i].end
  <2>1. \A r \in i + 1 .. L : K[r].start >= K[i].end
    BY <1>2, AtStarts
  <2>2. i + 3 \in i + 1 .. L
    BY <1>0, <1>1
  <2> QED
    BY <2>1, <2>2
<1> HIDE DEF K, L
<1>4. (i + 3) + 1 = i + 4
  BY <1>0, <1>1
<1>5. K[i + 3].end \in K[i].start + 1 .. Len(t) + 1
  BY SMTT(40), <1>0, <1>2, <1>3
<1>6. \A j \in 1 .. L + 1 :
        RewrittenFrom(t, j) = IF j > L THEN t
             ELSE IF j \in References(K) THEN Replaced(RewrittenFrom(t, j + 1), K, j)
             ELSE RewrittenFrom(t, j + 1)
  BY RewrittenIs DEF K, L
<1>7. /\ i \in 1 .. L + 1 /\ ~ (i > L)
      /\ i + 1 \in 1 .. L + 1 /\ ~ (i + 1 > L) /\ (i + 1) + 1 = i + 2
      /\ i + 2 \in 1 .. L + 1 /\ ~ (i + 2 > L) /\ (i + 2) + 1 = i + 3
      /\ i + 3 \in 1 .. L + 1 /\ ~ (i + 3 > L)
  BY <1>0, <1>1
<1>8. RewrittenFrom(t, i) = Replaced(RewrittenFrom(t, i + 1), K, i)
  BY <1>6, <1>7 DEF K
<1>9. RewrittenFrom(t, i + 1) = RewrittenFrom(t, i + 2)
  BY <1>1, <1>6, <1>7
<1>10. RewrittenFrom(t, i + 2) = RewrittenFrom(t, i + 3)
  BY <1>1, <1>6, <1>7
<1>11. RewrittenFrom(t, i + 3) = RewrittenFrom(t, i + 4)
  BY <1>1, <1>4, <1>6, <1>7
<1> QED
  BY <1>1, <1>2, <1>4, <1>5, <1>8, <1>9, <1>10, <1>11 DEF K, L

(* The text with the references from i on replaced is t up to b: the first *)
(* of them, or the end.                                                    *)
Bound(t, i, b) ==
  /\ b \in 1 .. Len(t) + 1 /\ \A k \in 1 .. b - 1 : RewrittenFrom(t, i)[k] = t[k]
  /\ \/ b = Len(t) + 1 /\ Len(RewrittenFrom(t, i)) = Len(t)
     \/ /\ b <= Len(RewrittenFrom(t, i)) /\ RewrittenFrom(t, i)[b] = DoubleQuote
        /\ \E r \in i .. Len(Tokens(t)) : r \in References(Tokens(t)) /\ b = Tokens(t)[r].start

(* What is rewritten from token i on is not before the place where that    *)
(* token is sought.                                                        *)
LEMMA BoundAfter ==
  ASSUME NEW t \in Text, NEW i, NEW q, At(t, i, q), NEW b, Bound(t, i, b)
  PROVE  b >= q
<1> DEFINE K == Tokens(t)
<1>1. q \in 1 .. Len(t) + 1
  BY DEF At
<1>2. b = Len(t) + 1 \/ \E r \in i .. Len(K) : b = K[r].start
  BY DEF Bound
<1>3. \A r \in i .. Len(K) : K[r].start >= q
  BY AtStarts
<1> HIDE DEF K
<1>4. Len(t) \in Nat
  BY TextIs
<1> QED
  BY <1>1, <1>2, <1>3, <1>4

(* The length and the symbols of the text when a reference is replaced. *)
LEMMA ReferenceText ==
  ASSUME NEW t \in Text, Terminated(Tokens(t)), NEW i, i \in References(Tokens(t)),
         RewrittenFrom(t, i + 4) \in Text, NEW c, Bound(t, i + 4, c),
         NEW a, a = Tokens(t)[i].start, NEW e, e = Tokens(t)[i + 3].end
  PROVE  /\ RewrittenFrom(t, i) \in Text
         /\ Len(RewrittenFrom(t, i)) = ((a + 2) - e) + (Len(RewrittenFrom(t, i + 4)) + 1)
         /\ e <= Len(RewrittenFrom(t, i + 4)) + 1
         /\ \A k \in 1 .. a - 1 : RewrittenFrom(t, i)[k] = t[k]
         /\ RewrittenFrom(t, i)[a] = DoubleQuote /\ RewrittenFrom(t, i)[a + 2] = DoubleQuote
         /\ RewrittenFrom(t, i)[a + 1] = ViewNames[Tokens(t)[i + 2].value[1]]
         /\ \A k \in e .. Len(RewrittenFrom(t, i + 4)) :
              RewrittenFrom(t, i)[k + ((a + 3) - e)] = RewrittenFrom(t, i + 4)[k]
<1> DEFINE K == Tokens(t)
           r == RewrittenFrom(t, i + 4)
           R == RewrittenFrom(t, i)
<1>0. Len(t) \in Nat /\ r \in Text /\ Len(r) \in Nat
  BY TextIs
<1>1. /\ a \in 1 .. Len(t) /\ e \in a + 1 .. Len(t) + 1 /\ At(t, i + 4, e)
      /\ R = Replaced(r, K, i) /\ K[i + 2].value[1] \in SourceIds
  BY ReferenceSpan
<1>2. c >= e
  BY <1>1, BoundAfter
<1>3. c \in 1 .. Len(t) + 1 /\ (\A k \in 1 .. c - 1 : r[k] = t[k]) /\ ((c = Len(t) + 1 /\ Len(r) = Len(t)) \/ c <= Len(r))
  BY DEF Bound
<1> HIDE DEF r, R
<1>4. a \in 1 .. Len(r) + 1 /\ e \in a .. Len(r) + 1
  BY SMTT(40), <1>0, <1>1, <1>2, <1>3
<1>7. ReplacedAs(R, r, a, e, ViewNames[K[i + 2].value[1]])
  BY <1>0, <1>1, <1>4, ReplacedIs
<1>5. /\ R \in Text /\ Len(R) = ((a + 2) - e) + (Len(r) + 1)
      /\ \A k \in 1 .. a - 1 : R[k] = r[k]
      /\ R[a] = DoubleQuote /\ R[a + 2] = DoubleQuote
      /\ R[a + 1] = ViewNames[K[i + 2].value[1]]
      /\ \A k \in e .. Len(r) : R[k + ((a + 3) - e)] = r[k]
  BY <1>7 DEF ReplacedAs
<1>6. \A k \in 1 .. a - 1 : R[k] = t[k]
  <2>1. \A k \in 1 .. a - 1 : k \in 1 .. c - 1
    BY SMTT(40), <1>0, <1>1, <1>2, <1>3
  <2> QED
    BY <1>3, <1>5, <2>1
<1> QED
  BY <1>0, <1>4, <1>5, <1>6 DEF r, R

(* There is such a bound for every i. *)
LEMMA BoundOf ==
  ASSUME NEW t \in Text, Terminated(Tokens(t))
  PROVE  \A i \in 1 .. Len(Tokens(t)) + 1 : RewrittenFrom(t, i) \in Text /\ \E b : Bound(t, i, b)
<1> DEFINE K == Tokens(t)
           L == Len(K)
           N == L + 1
           P(i) == RewrittenFrom(t, i) \in Text /\ \E b : Bound(t, i, b)
           S == {i \in 0 .. N : i # 0 => P(i)}
<1>0. Len(t) \in Nat /\ L \in Nat
  BY TextIs, AtFirst
<1>1. ASSUME NEW i \in 0 .. N, \A l \in i + 1 .. N : l \in S PROVE i \in S
  <2> SUFFICES ASSUME i # 0 PROVE P(i)
    OBVIOUS
  <2>0. i \in 1 .. N
    <3> HIDE DEF L
    <3> QED
      BY <1>0
  <2>1. RewrittenFrom(t, i) =
             IF i > L THEN t
             ELSE IF i \in References(K) THEN Replaced(RewrittenFrom(t, i + 1), K, i)
             ELSE RewrittenFrom(t, i + 1)
    BY <2>0, RewrittenIs
  <2>2. CASE i = N
    <3>1. RewrittenFrom(t, i) = t
      <4> HIDE DEF L, K
      <4> QED
        BY <1>0, <2>1, <2>2
    <3> DEFINE b == Len(t) + 1
    <3>2. b \in 1 .. Len(t) + 1 /\ b = Len(t) + 1
      BY <1>0
    <3> HIDE DEF b, L, K, N
    <3>3. Bound(t, i, b)
      BY <3>1, <3>2 DEF Bound
    <3> QED
      BY <3>1, <3>3
  <2>3. CASE i < N /\ i \notin References(K)
    <3>1. RewrittenFrom(t, i) = RewrittenFrom(t, i + 1) /\ i + 1 \in i + 1 .. N /\ i + 1 # 0
      <4> HIDE DEF L, K
      <4> QED
        BY <1>0, <2>0, <2>1, <2>3
    <3>2. P(i + 1)
      <4> HIDE DEF P
      <4> QED
        BY <1>1, <3>1
    <3>3. PICK b : Bound(t, i + 1, b)
      BY <3>2
    <3>4. \A r \in i + 1 .. L : r \in i .. L
      <4> HIDE DEF L
      <4> QED
        BY <1>0, <2>0
    <3>5. Bound(t, i, b)
      BY <3>1, <3>3, <3>4 DEF Bound
    <3> QED
      BY <3>1, <3>2, <3>5
  <2>4. CASE i \in References(K)
    <3> DEFINE a == K[i].start
               e == K[i + 3].end
    <3>1. /\ i \in 1 .. L /\ i + 3 \in 1 .. L /\ a \in 1 .. Len(t)
          /\ e \in a + 1 .. Len(t) + 1
      BY <2>4, ReferenceSpan
    <3>2. i + 4 \in i + 1 .. N /\ i + 4 # 0 /\ i \in i .. L
      <4> HIDE DEF L
      <4> QED
        BY <1>0, <3>1
    <3>3. P(i + 4)
      <4> HIDE DEF P
      <4> QED
        BY <1>1, <3>2
    <3>4. PICK c : Bound(t, i + 4, c)
      BY <3>3
    <3>5. /\ RewrittenFrom(t, i) \in Text
          /\ Len(RewrittenFrom(t, i)) = ((a + 2) - e) + (Len(RewrittenFrom(t, i + 4)) + 1)
          /\ e <= Len(RewrittenFrom(t, i + 4)) + 1
          /\ \A k \in 1 .. a - 1 : RewrittenFrom(t, i)[k] = t[k]
          /\ RewrittenFrom(t, i)[a] = DoubleQuote
      BY SMTT(40), <2>4, <3>3, <3>4, ReferenceText
    <3> HIDE DEF a, e
    <3>6. a <= Len(RewrittenFrom(t, i)) /\ a \in 1 .. Len(t) + 1
      <4>1. Len(RewrittenFrom(t, i + 4)) \in Nat
        BY <3>3, TextIs
      <4> QED
        BY <1>0, <3>1, <3>5, <4>1
    <3>7. Bound(t, i, a)
      <4>1. i \in References(K) /\ a = K[i].start
        BY <2>4 DEF a
      <4> QED
        BY <3>2, <3>5, <3>6, <4>1 DEF Bound
    <3> QED
      BY <3>5, <3>7
  <2> QED
    <3> HIDE DEF P, L, K
    <3> QED
      BY <1>0, <2>0, <2>2, <2>3, <2>4
<1>2. 0 .. N \subseteq S
  <2>1. N \in Nat
    BY <1>0
  <2> HIDE DEF S, N
  <2> QED
    BY <1>1, <2>1, Downwards
<1>3. ASSUME NEW i \in 1 .. N PROVE P(i)
  <2>1. i \in 0 .. N /\ i # 0
    <3> HIDE DEF L
    <3> QED
      BY <1>0
  <2> HIDE DEF P
  <2> QED
    BY <1>2, <2>1
<1> QED
  BY <1>3

(* A token without its place. *)
Pair(kind, value) == [kind |-> kind, value |-> value]

(* Bare of a sequence with one token more in front. *)
LEMMA BareCons ==
  ASSUME NEW S, NEW a \in S, NEW s \in Seq(S)
  PROVE  Bare(<<a>> \o s) = <<Pair(a.kind, a.value)>> \o Bare(s)
<1> DEFINE B == {Pair(x.kind, x.value) : x \in S}
           c == <<a>> \o s
           p == Pair(a.kind, a.value)
<1>1. /\ c \in Seq(S) /\ Len(c) = Len(s) + 1 /\ c[1] = a
      /\ \A k \in 1 .. Len(s) : c[k + 1] = s[k]
      /\ Len(s) \in Nat
  BY ConsIs
<1> HIDE DEF c
<1>2. ASSUME NEW u \in Seq(S)
      PROVE  /\ Bare(u) \in Seq(B) /\ Len(Bare(u)) = Len(u)
             /\ \A k \in 1 .. Len(u) : Bare(u)[k] = Pair(u[k].kind, u[k].value)
  <2>1. DOMAIN u = 1 .. Len(u) /\ Len(u) \in Nat /\ \A k \in 1 .. Len(u) : u[k] \in S
    BY LenProperties
  <2>2. Bare(u) = [k \in 1 .. Len(u) |-> Pair(u[k].kind, u[k].value)]
    BY <2>1 DEF Bare, Pair
  <2>3. \A k \in 1 .. Len(u) : Pair(u[k].kind, u[k].value) \in B
    BY <2>1
  <2> HIDE DEF B
  <2>4. Bare(u) \in [1 .. Len(u) -> B]
    BY <2>2, <2>3
  <2>5. Bare(u) \in Seq(B) /\ Len(Bare(u)) = Len(u)
    BY <2>1, <2>4
  <2> QED
    BY <2>2, <2>5
<1>3. p \in B
  OBVIOUS
<1> HIDE DEF B, p
<1>4. Bare(s) \in Seq(B) /\ Len(Bare(s)) = Len(s) /\ \A k \in 1 .. Len(s) : Bare(s)[k] = Pair(s[k].kind, s[k].value)
  BY <1>2
<1>5. Bare(c) \in Seq(B) /\ Len(Bare(c)) = Len(c) /\ \A k \in 1 .. Len(c) : Bare(c)[k] = Pair(c[k].kind, c[k].value)
  BY <1>1, <1>2
<1> DEFINE w == Bare(s)
           d == <<p>> \o w
<1>6. /\ d \in Seq(B) /\ Len(d) = Len(w) + 1 /\ d[1] = p
      /\ \A k \in 1 .. Len(w) : d[k + 1] = w[k]
  <2>1. w \in Seq(B)
    BY <1>4
  <2> HIDE DEF w
  <2> QED
    BY <1>3, <2>1, ConsIs
<1>7. ASSUME NEW k \in 1 .. Len(Bare(c)) PROVE Bare(c)[k] = d[k]
  <2> HIDE DEF d
  <2>1. k \in 1 .. Len(c)
    BY <1>5
  <2>2. CASE k = 1
    BY <1>1, <1>5, <1>6, <2>1, <2>2 DEF p
  <2>3. CASE k # 1
    <3> DEFINE j == k - 1
    <3>1. j \in 1 .. Len(s) /\ j + 1 = k
      BY <1>1, <2>1, <2>3
    <3> HIDE DEF j
    <3>2. c[k] = s[j] /\ d[k] = w[j]
      BY <1>1, <1>4, <1>6, <3>1
    <3>3. Bare(c)[k] = Pair(c[k].kind, c[k].value) /\ w[j] = Pair(s[j].kind, s[j].value)
      BY <1>4, <1>5, <2>1, <3>1
    <3> QED
      BY <3>2, <3>3
  <2> QED
    BY <2>2, <2>3
<1>8. Len(Bare(c)) = Len(d)
  <2> HIDE DEF d
  <2> QED
    BY <1>1, <1>4, <1>5, <1>6
<1>9. Bare(c) = d
  <2> DEFINE x == Bare(c)
  <2>1. x \in Seq(B) /\ Len(x) = Len(d) /\ d \in Seq(B) /\ \A k \in 1 .. Len(x) : x[k] = d[k]
    BY <1>5, <1>6, <1>7, <1>8
  <2> HIDE DEF x, d
  <2>2. x = d
    BY <2>1, SeqEqual
  <2> QED
    BY <2>2 DEF x
<1> QED
  BY <1>9 DEF c, d, p, w

(* What is seen of the tokens from q on. *)
LEMMA BareStep ==
  ASSUME NEW t \in Text, NEW q \in 1 .. Len(t), Scan(t, q).kind # "unterminated"
  PROVE  /\ Scan(t, q).kind \in {"blank", "comment"} =>
              Bare(TokensFrom(t, q)) = Bare(TokensFrom(t, Scan(t, q).end))
         /\ Scan(t, q).kind \notin {"blank", "comment"} =>
              Bare(TokensFrom(t, q)) =
                <<Pair(Scan(t, q).kind, Scan(t, q).value)>> \o Bare(TokensFrom(t, Scan(t, q).end))
<1> DEFINE s == Scan(t, q)
           e == s.end
           F(p) == TokensFrom(t, p)
<1>0. Len(t) \in Nat
  BY TextIs
<1>1. e \in 1 .. Len(t) + 1 /\ q \in 1 .. Len(t) + 1 /\ ~ (q > Len(t))
  <2>1. e \in q + 1 .. Len(t) + 1
    BY ScanRange
  <2> HIDE DEF s, e
  <2> QED
    BY <1>0, <2>1
<1>2. F(q) = IF s.kind \in {"blank", "comment"} THEN F(e) ELSE <<s>> \o F(e)
  BY <1>1, TokensFromIs
<1>3. F(e) \in Seq({Scan(t, j) : j \in e .. Len(t)})
  <2> HIDE DEF s, e
  <2> QED
    BY <1>1, TokensFromTyped
<1>4. ASSUME s.kind \notin {"blank", "comment"}
      PROVE  Bare(F(q)) = <<Pair(s.kind, s.value)>> \o Bare(F(e))
  <2>1. F(q) = <<s>> \o F(e)
    BY <1>2, <1>4
  <2> DEFINE C == {Scan(t, j) : j \in e .. Len(t)} \cup {s}
             D == {Scan(t, j) : j \in e .. Len(t)}
  <2>2. D \subseteq C /\ s \in C /\ F(e) \in Seq(D)
    BY <1>3
  <2> HIDE DEF C, D, s, e, F
  <2>3. F(e) \in Seq(C)
    BY <2>2, SeqMonotonic
  <2>4. Bare(<<s>> \o F(e)) = <<Pair(s.kind, s.value)>> \o Bare(F(e))
    BY <2>2, <2>3, BareCons
  <2> QED
    BY <2>1, <2>4
<1>5. ASSUME s.kind \in {"blank", "comment"} PROVE Bare(F(q)) = Bare(F(e))
  BY <1>2, <1>5
<1> QED
  BY <1>4, <1>5

(* The part of one symbol. *)
LEMMA OneIs ==
  ASSUME NEW t \in Text, NEW i \in 1 .. Len(t)
  PROVE  SubSeq(t, i, i) = <<t[i]>>
<1>0. Len(t) \in Nat
  BY TextIs
<1>1. i \in 1 .. Len(t) + 1 /\ i \in i - 1 .. Len(t) /\ (i - i) + 1 = 1 /\ (i + 1) - 1 = i
  BY <1>0
<1>2. Len(SubSeq(t, i, i)) = 1 /\ SubSeq(t, i, i)[1] = t[i] /\ SubSeq(t, i, i) \in Seq(Sym)
  <2>1. SubSeq(t, i, i) \in Text /\ Len(SubSeq(t, i, i)) = (i - i) + 1
        /\ \A k \in 1 .. (i - i) + 1 : SubSeq(t, i, i)[k] = t[(i + k) - 1]
    BY <1>1, PartIs
  <2>2. 1 \in 1 .. (i - i) + 1
    BY <1>1
  <2>3. SubSeq(t, i, i)[1] = t[(i + 1) - 1]
    BY <2>1, <2>2
  <2> QED
    BY <1>1, <2>1, <2>3 DEF Text
<1> DEFINE v == SubSeq(t, i, i)
<1>3. Len(v) = 1 /\ v[1] = t[i] /\ v \in Seq(Sym)
  BY <1>2
<1> HIDE DEF v
<1>4. v = <<v[1]>>
  BY <1>3, SeqEqual
<1> QED
  BY <1>3, <1>4 DEF v

(* A symbol of the wrapping select is scanned as a symbol. *)
LEMMA SymbolScan ==
  ASSUME NEW t \in Text, NEW i \in 1 .. Len(t), t[i] \in {"(", ")", "*"}
  PROVE  Scan(t, i).kind = "symbol" /\ Scan(t, i).end = i + 1 /\ Scan(t, i).value = <<t[i]>>
<1>0. Len(t) \in Nat
  BY TextIs
<1>1. t[i] \notin Words
  BY Symbols
<1>2. t[i] \notin Blanks /\ t[i] \notin {"'", "$", "-", "/", DoubleQuote}
  BY DoubleQuoteIs DEF Blanks
<1>3. ~ Found(t, i, <<"-", "-">>) /\ ~ Found(t, i, <<"/", "*">>)
  BY <1>0, <1>2, FoundIs
<1>4. MarkerEnd(t, i) = 0
  BY <1>0, <1>2, MarkerEndIs DEF Marker
<1>5. Scan(t, i) = Plain(t, i, i + 1, "symbol")
  BY <1>0, <1>1, <1>2, <1>3, <1>4, ScanCases
<1>6. i + 1 # 0
  OBVIOUS
<1>7. Scan(t, i).kind = "symbol"
  BY <1>5, <1>6, TokenIs DEF Plain
<1> QED
  BY <1>7, ScanRange

(* A word of the wrapping select is scanned as an identifier. *)
LEMMA WordScan ==
  ASSUME NEW t \in Text, NEW i \in 1 .. Len(t), t[i] \in {"select", "from", "x"},
         i = Len(t) \/ t[i + 1] \in {"(", "*"}
  PROVE  Scan(t, i).kind = "identifier" /\ Scan(t, i).end = i + 1 /\ Scan(t, i).value = <<t[i]>>
<1>0. Len(t) \in Nat
  BY TextIs
<1>1. t[i] \in Words /\ t[i] # "e"
  BY Symbols
<1>2. ~ Found(t, i, <<"e", "'">>)
  BY <1>0, <1>1, FoundIs
<1>3. Scan(t, i) = Plain(t, i, WordEnd(t, i), "identifier")
  BY <1>0, <1>1, <1>2, ScanCases
<1> DEFINE e == i + 1
<1>4. e \in i + 1 .. Len(t) + 1 /\ e # 0 /\ e - 1 = i
  BY <1>0
<1>5. e > Len(t) \/ t[e] \notin WordLike
  <2>1. "(" \notin WordLike /\ "*" \notin WordLike
    BY Symbols DEF WordLike
  <2>2. i = Len(t) => e > Len(t)
    BY <1>0
  <2> QED
    BY <2>1, <2>2
<1>6. i + 1 .. e - 1 = {}
  BY <1>0
<1> HIDE DEF e
<1>7. WordEnd(t, i) = e
  BY <1>0, <1>4, <1>5, <1>6, WordEndOnly
<1>8. Scan(t, i) = Token(i, e, "identifier", SubSeq(t, i, i))
  BY <1>3, <1>4, <1>7 DEF Plain
<1> DEFINE v == SubSeq(t, i, i)
<1> HIDE DEF v
<1>9. Scan(t, i).kind = "identifier" /\ Scan(t, i).end = e /\ Scan(t, i).value = v
  <2>1. Scan(t, i) = Token(i, e, "identifier", v)
    BY <1>8 DEF v
  <2> QED
    BY <1>4, <2>1, TokenIs
<1> QED
  BY <1>9, OneIs DEF e, v

(* The name of a view, quoted. *)
LEMMA ViewScan ==
  ASSUME NEW t \in Text, NEW i \in 1 .. Len(t), i + 2 <= Len(t), t[i] = DoubleQuote,
         t[i + 1] \in Words, t[i + 2] = DoubleQuote, ~ (i + 3 <= Len(t) /\ t[i + 3] = DoubleQuote)
  PROVE  /\ Scan(t, i).kind = "quoted_identifier" /\ Scan(t, i).end = i + 3
         /\ Scan(t, i).value = <<t[i + 1]>>
<1> DEFINE B == IF i > i THEN {"\\"} ELSE {}
           e == QuotedEnd(t, i, B)
           j == i + 1
           k == i + 2
<1>0. Len(t) \in Nat
  BY TextIs
<1>1. Scan(t, i) = Quoted(t, i, i, "quoted_identifier")
  BY <1>0, ScanCases
<1>2. Scan(t, i) = Token(i, e, "quoted_identifier", SubSeq(t, i + 1, e - 2))
  BY <1>1 DEF Quoted
<1>3. B = {}
  OBVIOUS
<1> HIDE DEF B, e
<1>4. PICK f : QuotedEnds(f, t, i, B) /\ e = f[i + 1]
  BY <1>0, QuotedEndIs DEF e
<1>5. t[i + 1] # t[i]
  BY Symbols
<1>6. j \in Nat \ {0} /\ j <= Len(t) /\ k \in Nat \ {0} /\ k <= Len(t) /\ j + 1 = k /\ k + 1 = i + 3
  BY <1>0
<1>7. e = f[j] /\ t[j] \in Words /\ t[j] # t[i] /\ t[k] = t[i] /\ t[i] = DoubleQuote
  BY <1>4, <1>5
<1> HIDE DEF j, k
<1>8. f[j] = f[k]
  <2>1. f[j] = IF t[j] \in B THEN f[j + 2]
               ELSE IF t[j] # t[i] THEN f[j + 1]
               ELSE IF Found(t, j, <<t[i], t[i]>>) THEN f[j + 2]
               ELSE j + 1
    BY <1>0, <1>4, <1>6, QuotedStep
  <2> QED
    BY <1>3, <1>6, <1>7, <2>1
<1>9. f[k] = k + 1
  <2>1. f[k] = IF t[k] \in B THEN f[k + 2]
               ELSE IF t[k] # t[i] THEN f[k + 1]
               ELSE IF Found(t, k, <<t[i], t[i]>>) THEN f[k + 2]
               ELSE k + 1
    BY <1>0, <1>4, <1>6, QuotedStep
  <2>2. ~ Found(t, k, <<t[i], t[i]>>)
    <3>1. ~ (k + 1 <= Len(t) /\ t[k + 1] = t[i])
      BY <1>6
    <3> QED
      BY <1>0, <1>6, <3>1, FoundIs
  <2> QED
    BY <1>3, <1>7, <2>1, <2>2
<1>10. e = i + 3 /\ e # 0 /\ e - 2 = i + 1
  BY <1>0, <1>6, <1>7, <1>8, <1>9
<1>11. SubSeq(t, i + 1, i + 1) = <<t[i + 1]>>
  <2>1. i + 1 \in 1 .. Len(t)
    BY <1>0
  <2> QED
    BY <2>1, OneIs
<1>12. Scan(t, i) = Token(i, e, "quoted_identifier", SubSeq(t, i + 1, i + 1))
  BY <1>2, <1>10
<1> DEFINE v == SubSeq(t, i + 1, i + 1)
<1> HIDE DEF v
<1>13. Scan(t, i).kind = "quoted_identifier" /\ Scan(t, i).end = e /\ Scan(t, i).value = v
  <2>1. Scan(t, i) = Token(i, e, "quoted_identifier", v)
    BY <1>12 DEF v
  <2> QED
    BY <1>10, <2>1, TokenIs
<1> QED
  BY <1>10, <1>11, <1>13 DEF v

(* The tokens from a symbol of the wrapping select on. *)
LEMMA SymbolBare ==
  ASSUME NEW t \in Text, NEW i \in 1 .. Len(t), t[i] \in {"(", ")", "*"}
  PROVE  Bare(TokensFrom(t, i)) = <<Pair("symbol", <<t[i]>>)>> \o Bare(TokensFrom(t, i + 1))
<1>1. Scan(t, i).kind = "symbol" /\ Scan(t, i).end = i + 1 /\ Scan(t, i).value = <<t[i]>>
  BY SymbolScan
<1>2. "symbol" # "unterminated" /\ "symbol" \notin {"blank", "comment"}
  OBVIOUS
<1> QED
  BY <1>1, <1>2, BareStep

(* The tokens from a word of the wrapping select on. *)
LEMMA WordBare ==
  ASSUME NEW t \in Text, NEW i \in 1 .. Len(t), t[i] \in {"select", "from", "x"},
         i = Len(t) \/ t[i + 1] \in {"(", "*"}
  PROVE  Bare(TokensFrom(t, i)) = <<Pair("identifier", <<t[i]>>)>> \o Bare(TokensFrom(t, i + 1))
<1>1. Scan(t, i).kind = "identifier" /\ Scan(t, i).end = i + 1 /\ Scan(t, i).value = <<t[i]>>
  BY WordScan
<1>2. "identifier" # "unterminated" /\ "identifier" \notin {"blank", "comment"}
  OBVIOUS
<1> QED
  BY <1>1, <1>2, BareStep

(* The end of the wrapping select, and its start. *)
Closing == <<Pair("symbol", <<")">>)>> \o (<<Pair("identifier", <<"x">>)>> \o <<>>)

(* The tokens of the wrapping select up to its parenthesis, and the rest. *)
Opening(rest) ==
  <<Pair("identifier", <<"select">>)>> \o (<<Pair("symbol", <<"*">>)>>
    \o (<<Pair("identifier", <<"from">>)>> \o (<<Pair("symbol", <<"(">>)>> \o rest)))

(* No tokens. *)
LEMMA BareEmpty == Bare(<<>>) = <<>>
BY DEF Bare

(* The statement ends with the tokens of the wrapping select. *)
LEMMA ClosingBare ==
  ASSUME NEW t \in Text, NEW i \in 1 .. Len(t), i + 1 = Len(t), t[i] = ")", t[i + 1] = "x"
  PROVE  Bare(TokensFrom(t, i)) = Closing
<1> DEFINE j == i + 1
<1>0. Len(t) \in Nat /\ j \in 1 .. Len(t) /\ j = Len(t) /\ t[j] = "x"
  BY TextIs
<1>1. Bare(TokensFrom(t, i)) = <<Pair("symbol", <<t[i]>>)>> \o Bare(TokensFrom(t, j))
  BY SymbolBare
<1> HIDE DEF j
<1>2. Bare(TokensFrom(t, j)) = <<Pair("identifier", <<t[j]>>)>> \o Bare(TokensFrom(t, j + 1))
  BY <1>0, WordBare
<1>3. TokensFrom(t, j + 1) = <<>>
  BY <1>0, FromEnd
<1> QED
  BY <1>0, <1>1, <1>2, <1>3, BareEmpty DEF Closing

(* The statement begins with the tokens of the wrapping select. *)
LEMMA OpeningBare ==
  ASSUME NEW t \in Text, Len(t) >= 4, t[1] = "select", t[2] = "*", t[3] = "from", t[4] = "("
  PROVE  Bare(Tokens(t)) = Opening(Bare(TokensFrom(t, 5)))
<1>0. Len(t) \in Nat
  BY TextIs
<1>1. /\ 1 \in 1 .. Len(t) /\ 2 \in 1 .. Len(t) /\ 3 \in 1 .. Len(t) /\ 4 \in 1 .. Len(t)
      /\ 1 + 1 = 2 /\ 2 + 1 = 3 /\ 3 + 1 = 4 /\ 4 + 1 = 5
  BY <1>0
<1>2. Bare(TokensFrom(t, 1)) = <<Pair("identifier", <<t[1]>>)>> \o Bare(TokensFrom(t, 2))
  BY <1>1, WordBare
<1>3. Bare(TokensFrom(t, 2)) = <<Pair("symbol", <<t[2]>>)>> \o Bare(TokensFrom(t, 3))
  BY <1>1, SymbolBare
<1>4. Bare(TokensFrom(t, 3)) = <<Pair("identifier", <<t[3]>>)>> \o Bare(TokensFrom(t, 4))
  BY <1>1, WordBare
<1>5. Bare(TokensFrom(t, 4)) = <<Pair("symbol", <<t[4]>>)>> \o Bare(TokensFrom(t, 5))
  BY <1>1, SymbolBare
<1> QED
  BY <1>2, <1>3, <1>4, <1>5 DEF Opening, Tokens

(* What can be seen of the tokens of a statement. *)
Items(K) ==
  {Pair(K[j].kind, K[j].value) : j \in 1 .. Len(K)}
    \cup {Pair("quoted_identifier", <<v>>) : v \in Words}
    \cup {Pair("identifier", <<s>>) : s \in {"select", "from", "x"}}
    \cup {Pair("symbol", <<s>>) : s \in {"*", "(", ")"}}

(* Substituted tokens are among these items. *)
LEMMA SubstitutedTyped ==
  ASSUME NEW K, Len(K) \in Nat
  PROVE  \A i \in 1 .. Len(K) + 1 : SubstitutedFrom(K, i) \in Seq(Items(K))
<1> DEFINE L == Len(K)
           N == L + 1
           T == Items(K)
           P(i) == SubstitutedFrom(K, i) \in Seq(T)
           S == {i \in 0 .. N : i # 0 => P(i)}
<1>0. L \in Nat
  OBVIOUS
<1>1. ASSUME NEW i \in 0 .. N, \A l \in i + 1 .. N : l \in S PROVE i \in S
  <2> SUFFICES ASSUME i # 0 PROVE P(i)
    OBVIOUS
  <2>0. i \in 1 .. N
    BY <1>0
  <2> DEFINE v == Pair("quoted_identifier", <<ViewNames[K[i + 2].value[1]]>>)
             w == Pair(K[i].kind, K[i].value)
  <2>1. SubstitutedFrom(K, i) =
             IF i > L THEN <<>>
             ELSE IF i \in References(K) THEN <<v>> \o SubstitutedFrom(K, i + 4)
             ELSE <<w>> \o SubstitutedFrom(K, i + 1)
    BY <2>0, SubstitutedIs DEF Pair
  <2>2. i \in References(K) => i + 3 \in 1 .. L /\ v \in T
    <3> SUFFICES ASSUME i \in References(K) PROVE i + 3 \in 1 .. L /\ v \in T
      OBVIOUS
    <3>1. i + 3 \in 1 .. L /\ K[i + 2].value[1] \in SourceIds
      BY <1>0, ReferencesApart
    <3>2. ViewNames[K[i + 2].value[1]] \in Words
      BY <3>1, Symbols
    <3> QED
      BY <3>1, <3>2 DEF Items
  <2>3. i <= L => w \in T
    <3>1. i <= L => i \in 1 .. L
      BY <1>0, <2>0
    <3> QED
      BY <3>1 DEF Items
  <2>4. /\ i <= L => i + 1 \in i + 1 .. N /\ i + 1 # 0
        /\ i \in References(K) => i + 4 \in i + 1 .. N /\ i + 4 # 0
    <3> HIDE DEF v, w
    <3> QED
      BY <1>0, <2>0, <2>2
  <2>5. (i <= L => P(i + 1)) /\ (i \in References(K) => P(i + 4))
    <3> HIDE DEF P, v, w
    <3> QED
      BY <1>1, <2>4
  <2> HIDE DEF v, w, T, L
  <2>6. CASE i > L
    <3>1. SubstitutedFrom(K, i) = <<>>
      BY <2>1, <2>6
    <3> QED
      BY <3>1
  <2>7. CASE i <= L /\ i \in References(K)
    <3>1. SubstitutedFrom(K, i) = <<v>> \o SubstitutedFrom(K, i + 4)
      BY <1>0, <2>0, <2>1, <2>7
    <3> QED
      BY <2>2, <2>5, <2>7, <3>1, ConsIs
  <2>8. CASE i <= L /\ i \notin References(K)
    <3>1. SubstitutedFrom(K, i) = <<w>> \o SubstitutedFrom(K, i + 1)
      BY <1>0, <2>0, <2>1, <2>8
    <3> QED
      BY <2>3, <2>5, <2>8, <3>1, ConsIs
  <2> QED
    BY <1>0, <2>0, <2>6, <2>7, <2>8
<1>2. 0 .. N \subseteq S
  <2>1. N \in Nat
    BY <1>0
  <2> HIDE DEF S, N
  <2> QED
    BY <1>1, <2>1, Downwards
<1>3. ASSUME NEW i \in 1 .. N PROVE P(i)
  <2>1. i \in 0 .. N /\ i # 0
    BY <1>0
  <2> HIDE DEF P
  <2> QED
    BY <1>2, <2>1
<1> QED
  BY <1>3

(* So is the end of the wrapping select. *)
LEMMA ClosingTyped == ASSUME NEW K PROVE Closing \in Seq(Items(K))
<1> DEFINE T == Items(K)
           a == Pair("symbol", <<")">>)
           b == Pair("identifier", <<"x">>)
<1>1. a \in T /\ b \in T
  BY DEF Items
<1>2. Closing = <<a>> \o (<<b>> \o <<>>)
  BY DEF Closing
<1>3. <<>> \in Seq(T)
  OBVIOUS
<1> HIDE DEF T, a, b
<1>4. <<b>> \o <<>> \in Seq(T)
  BY <1>1, <1>3, ConsIs
<1> QED
  BY <1>1, <1>2, <1>4, ConsIs DEF T

(* When nothing touches a reference, no quote and no other reference is    *)
(* next to it.                                                             *)
LEMMA TouchingIs ==
  ASSUME NEW t, ~ Touching(t)
  PROVE  \A i \in References(Tokens(t)) :
           /\ \A r \in References(Tokens(t)) : Tokens(t)[i + 3].end # Tokens(t)[r].start
           /\ Tokens(t)[i + 3].end <= Len(t) => t[Tokens(t)[i + 3].end] # DoubleQuote
           /\ Tokens(t)[i].start > 1 => t[Tokens(t)[i].start - 1] # DoubleQuote
<1> DEFINE K == Tokens(t)
           refs == References(K)
           ends == {K[i + 3].end : i \in refs}
           starts == {K[i].start : i \in refs}
<1>1. /\ ends \cap starts = {}
      /\ ~ \E j \in ends : j <= Len(t) /\ t[j] = DoubleQuote
      /\ ~ \E j \in starts : j > 1 /\ t[j - 1] = DoubleQuote
  BY DEF Touching
<1> HIDE DEF K, refs
<1>2. \A i \in refs : K[i + 3].end \in ends /\ K[i].start \in starts
  OBVIOUS
<1> HIDE DEF ends, starts
<1>3. \A i \in refs :
        /\ \A r \in refs : K[i + 3].end # K[r].start
        /\ K[i + 3].end <= Len(t) => t[K[i + 3].end] # DoubleQuote
        /\ K[i].start > 1 => t[K[i].start - 1] # DoubleQuote
  BY <1>1, <1>2
<1> QED
  BY <1>3 DEF K, refs

(* In u, from q + d on, comes what is in r from q on, and the end of the   *)
(* wrapping select.                                                        *)
Follows(u, d, r, q) ==
  /\ q + d >= 1 /\ q <= Len(r) + 1 /\ Len(u) = (Len(r) + d) + 2
  /\ \A k \in q .. Len(r) : u[k + d] = r[k]
  /\ u[(Len(r) + d) + 1] = ")" /\ u[(Len(r) + d) + 2] = "x"

(* The statement is like the text up to the next reference. *)
LEMMA FollowsLike ==
  ASSUME NEW t \in Text, Terminated(Tokens(t)), ~ Touching(t), NEW i, NEW q, At(t, i, q),
         NEW u \in Text, NEW d \in Int, Follows(u, d, RewrittenFrom(t, i), q)
  PROVE  \E b : /\ Bound(t, i, b) /\ Like(t, q, b, u, d) /\ b \in q .. Len(RewrittenFrom(t, i)) + 1
                /\ \/ b = Len(t) + 1 /\ u[b + d] = ")"
                   \/ /\ u[b + d] = DoubleQuote
                      /\ \E r \in i .. Len(Tokens(t)) : r \in References(Tokens(t)) /\ b = Tokens(t)[r].start
<1> DEFINE K == Tokens(t)
           R == RewrittenFrom(t, i)
<1>0. Len(t) \in Nat /\ Len(u) \in Nat /\ q \in 1 .. Len(t) + 1 /\ i \in 1 .. Len(K) + 1
  BY TextIs DEF At
<1>1. PICK b : Bound(t, i, b)
  BY <1>0, BoundOf
<1>2. R \in Text /\ Len(R) \in Nat
  <2>1. R \in Text
    BY <1>0, BoundOf
  <2> HIDE DEF R
  <2> QED
    BY <2>1, TextIs
<1>3. b >= q
  BY <1>1, BoundAfter
<1>4. /\ b \in 1 .. Len(t) + 1 /\ \A k \in 1 .. b - 1 : R[k] = t[k]
      /\ \/ b = Len(t) + 1 /\ Len(R) = Len(t)
         \/ /\ b <= Len(R) /\ R[b] = DoubleQuote
            /\ \E r \in i .. Len(K) : r \in References(K) /\ b = K[r].start
  BY <1>1 DEF Bound
<1>5. /\ q + d >= 1 /\ q <= Len(R) + 1 /\ Len(u) = (Len(R) + d) + 2
      /\ \A k \in q .. Len(R) : u[k + d] = R[k]
      /\ u[(Len(R) + d) + 1] = ")" /\ u[(Len(R) + d) + 2] = "x"
  BY DEF Follows
<1>6. ASSUME \E r \in i .. Len(K) : r \in References(K) /\ b = K[r].start, b > q PROVE t[b - 1] # DoubleQuote
  <2>1. PICK r \in References(K) : b = K[r].start
    BY <1>6
  <2>2. b > 1
    <3>1. b \in 1 .. Len(t) + 1 /\ b > q
      BY <1>4, <1>6
    <3> QED
      BY <1>0, <3>1
  <2> QED
    BY <2>1, <2>2, TouchingIs
<1> HIDE DEF R
<1>7. b - 1 <= Len(R) /\ b \in q .. Len(R) + 1
  BY <1>0, <1>2, <1>3, <1>4
<1>8. Copied(t, q, b, u, d)
  <2>1. ASSUME NEW k \in q .. b - 1 PROVE u[k + d] = t[k]
    <3>1. k \in q .. Len(R) /\ k \in 1 .. b - 1
      BY <1>0, <1>2, <1>4, <1>7
    <3> QED
      BY <1>4, <1>5, <3>1
  <2>2. q + d >= 1 /\ b + d <= Len(u) + 1
    <3>1. q + d >= 1 /\ Len(u) = (Len(R) + d) + 2
      BY <1>5
    <3> QED
      BY <1>0, <1>2, <1>7, <3>1
  <2> QED
    BY <2>1, <2>2 DEF Copied
<1>9. b \in q .. Len(t) + 1 /\ b + d <= Len(u)
  <2>1. Len(u) = (Len(R) + d) + 2
    BY <1>5
  <2> QED
    BY <1>0, <1>2, <1>3, <1>4, <1>7, <2>1
<1>10. CASE b = Len(t) + 1 /\ Len(R) = Len(t)
  <2>1. b + d = (Len(R) + d) + 1
    BY <1>2, <1>10
  <2>2. u[b + d] = ")"
    BY <1>5, <2>1
  <2>3. Like(t, q, b, u, d)
    BY <1>8, <1>9, <1>10, <2>2 DEF Like
  <2> QED
    BY <1>1, <1>7, <1>10, <2>2, <2>3 DEF R
<1>11. CASE b <= Len(R) /\ R[b] = DoubleQuote /\ \E r \in i .. Len(K) : r \in References(K) /\ b = K[r].start
  <2>1. b \in q .. Len(R)
    BY <1>2, <1>7, <1>11
  <2>2. u[b + d] = DoubleQuote
    BY <1>5, <1>11, <2>1
  <2>3. Like(t, q, b, u, d)
    BY <1>6, <1>8, <1>9, <1>11, <2>2 DEF Like
  <2> QED
    BY <1>1, <1>7, <1>11, <2>2, <2>3 DEF R
<1> QED
  BY <1>4, <1>10, <1>11

(* A token, a comment or a blank of t that is no part of a reference. *)
LEMMA StepCopied ==
  ASSUME NEW t \in Text, Terminated(Tokens(t)), ~ Touching(t), NEW i, NEW q \in 1 .. Len(t), At(t, i, q), Good(t, q),
         NEW u \in Text, NEW d \in Int, Follows(u, d, RewrittenFrom(t, i), q),
         NEW b, Bound(t, i, b), Like(t, q, b, u, d), b <= Len(RewrittenFrom(t, i)) + 1, Scan(t, q).end <= b
  PROVE  /\ Scan(u, q + d) = Moved(Scan(t, q), d) /\ Good(t, Scan(t, q).end)
         /\ Scan(t, q).kind # "unterminated" /\ q + d \in 1 .. Len(u)
         /\ Follows(u, d, RewrittenFrom(t, i), Scan(t, q).end)
<1> DEFINE e == Scan(t, q).end
           R == RewrittenFrom(t, i)
<1>0. Len(t) \in Nat /\ Len(u) \in Nat
  BY TextIs
<1>1. Scan(t, q).kind # "unterminated"
  BY AtNext
<1>2. e \in q + 1 .. Len(t) + 1
  BY <1>1, ScanRange
<1>3. ~ OpenLine(t, q) /\ Good(t, e)
  BY <1>1, GoodNext
<1>4. Scan(u, q + d) = Moved(Scan(t, q), d)
  BY <1>1, <1>3, ScanLike
<1>5. Len(R) \in Nat
  <2>1. i \in 1 .. Len(Tokens(t)) + 1
    BY DEF At
  <2>2. R \in Text
    BY <2>1, BoundOf
  <2> HIDE DEF R
  <2> QED
    BY <2>2, TextIs
<1>6. /\ q + d >= 1 /\ q <= Len(R) + 1 /\ Len(u) = (Len(R) + d) + 2
      /\ \A k \in q .. Len(R) : u[k + d] = R[k]
      /\ u[(Len(R) + d) + 1] = ")" /\ u[(Len(R) + d) + 2] = "x"
  BY DEF Follows
<1>7. b \in q .. Len(t) + 1 /\ b <= Len(R) + 1 /\ e <= b
  BY DEF Like
<1> HIDE DEF e, R
<1>8. e <= Len(R) + 1 /\ e + d >= 1 /\ \A k \in e .. Len(R) : k \in q .. Len(R)
  <2>1. q + d >= 1
    BY <1>6
  <2> QED
    BY <1>0, <1>2, <1>5, <1>7, <2>1
<1>9. Follows(u, d, R, e)
  BY <1>6, <1>8 DEF Follows
<1>10. q + d \in 1 .. Len(u)
  <2>1. q + d >= 1 /\ Len(u) = (Len(R) + d) + 2
    BY <1>6
  <2> QED
    BY <1>0, <1>2, <1>5, <1>8, <2>1
<1> QED
  BY <1>1, <1>3, <1>4, <1>9, <1>10 DEF e, R

(* If the parenthesis counts before a reference, it does after it. *)
LEMMA GoodReference ==
  ASSUME NEW t \in Text, Terminated(Tokens(t)), NEW i, i \in References(Tokens(t)), Good(t, Tokens(t)[i].start)
  PROVE  Good(t, Tokens(t)[i + 3].end)
<1> DEFINE K == Tokens(t)
           L == Len(K)
           G == {p \in 1 .. Len(t) + 1 : Good(t, p)}
<1>0. Len(t) \in Nat /\ L \in Nat
  BY TextIs, AtFirst
<1>1. i \in 1 .. L /\ i + 3 \in 1 .. L /\ K[i].start \in 1 .. Len(t)
  BY ReferenceSpan
<1>2. \A p \in G : p \in 1 .. Len(t) /\ Scan(t, p).kind # "unterminated" => Scan(t, p).end \in G
  <2> SUFFICES ASSUME NEW p \in G, p \in 1 .. Len(t), Scan(t, p).kind # "unterminated" PROVE Scan(t, p).end \in G
    OBVIOUS
  <2>1. Good(t, Scan(t, p).end)
    BY GoodNext
  <2>2. Scan(t, p).end \in p + 1 .. Len(t) + 1
    BY ScanRange
  <2> DEFINE e == Scan(t, p).end
  <2>3. e \in 1 .. Len(t) + 1 /\ Good(t, e)
    <3>1. e \in p + 1 .. Len(t) + 1 /\ Good(t, e)
      BY <2>1, <2>2
    <3> HIDE DEF e
    <3> QED
      BY <1>0, <3>1
  <2> QED
    BY <2>3
<1>3. \A q \in 1 .. Len(t) + 1 : \A j \in 1 .. L : At(t, j, q) =>
        /\ K[j].end \in K[j].start + 1 .. Len(t) + 1 /\ At(t, j + 1, K[j].end)
        /\ q \in G => K[j].end \in G
  <2> HIDE DEF G
  <2> QED
    BY <1>2, AtReach
<1>4. K[i].end \in G /\ At(t, i + 1, K[i].end) /\ K[i].end \in 1 .. Len(t) + 1
  <2>1. /\ K[i] = Scan(t, K[i].start) /\ K[i].kind \notin {"blank", "comment", "unterminated"}
        /\ K[i].end \in K[i].start + 1 .. Len(t) + 1 /\ At(t, i + 1, K[i].end)
    BY <1>1, AtEach
  <2>2. K[i].start \in G
    BY <1>0, <1>1
  <2>3. K[i].end \in G
    <3> HIDE DEF G, K, L
    <3>1. Scan(t, K[i].start).end \in G
      BY <1>1, <1>2, <2>1, <2>2
    <3> QED
      BY <2>1, <3>1
  <2> QED
    BY <2>1, <2>3
<1>5. \A p \in G : p \in 1 .. Len(t) + 1 /\ Good(t, p)
  OBVIOUS
<1> HIDE DEF G, K, L
<1>6. i + 1 \in 1 .. L /\ i + 2 \in 1 .. L /\ (i + 1) + 1 = i + 2 /\ (i + 2) + 1 = i + 3
  BY <1>0, <1>1
<1>7. K[i + 1].end \in G /\ At(t, i + 2, K[i + 1].end)
  BY <1>3, <1>4, <1>6
<1>8. K[i + 2].end \in G /\ At(t, i + 3, K[i + 2].end)
  BY <1>3, <1>5, <1>6, <1>7
<1>9. K[i + 3].end \in G
  BY <1>1, <1>3, <1>5, <1>8
<1> QED
  BY <1>5, <1>9 DEF K

(* The statement has a view's name where t has a reference, from q to e.   *)
InPlace(t, u, i, q, e, d) ==
  /\ Follows(u, d + ((q + 3) - e), RewrittenFrom(t, i + 4), e)
  /\ q + d \in 1 .. Len(u)
  /\ Scan(u, q + d).kind = "quoted_identifier" /\ Scan(u, q + d).end = (q + d) + 3
  /\ Scan(u, q + d).value = <<ViewNames[Tokens(t)[i + 2].value[1]]>>

(* A reference in t is the name of its view in u; what comes next follows. *)
LEMMA StepReplaced ==
  ASSUME NEW t \in Text, Terminated(Tokens(t)), ~ Touching(t), NEW i, i \in References(Tokens(t)),
         NEW q, q = Tokens(t)[i].start, NEW e, e = Tokens(t)[i + 3].end,
         NEW u \in Text, NEW d \in Int, Follows(u, d, RewrittenFrom(t, i), q)
  PROVE  InPlace(t, u, i, q, e, d)
<1> DEFINE K == Tokens(t)
           v == ViewNames[K[i + 2].value[1]]
           r == RewrittenFrom(t, i + 4)
           R == RewrittenFrom(t, i)
           D == d + ((q + 3) - e)
           p == q + d
<1>0. Len(t) \in Nat /\ Len(u) \in Nat
  BY TextIs
<1>1. /\ q \in 1 .. Len(t) /\ e \in q + 1 .. Len(t) + 1 /\ At(t, i + 4, e)
      /\ K[i + 2].value[1] \in SourceIds /\ i + 4 \in 1 .. Len(K) + 1
  <2>1. At(t, i + 4, e)
    BY ReferenceSpan
  <2> QED
    BY <2>1, ReferenceSpan DEF At
<1>2. r \in Text /\ \E b : Bound(t, i + 4, b)
  BY <1>1, BoundOf
<1>3. Len(r) \in Nat
  <2> HIDE DEF r
  <2> QED
    BY <1>2, TextIs
<1>4. PICK c : Bound(t, i + 4, c)
  BY <1>2
<1>5. /\ Len(R) = ((q + 2) - e) + (Len(r) + 1)
      /\ e <= Len(r) + 1
      /\ R[q] = DoubleQuote /\ R[q + 2] = DoubleQuote
      /\ R[q + 1] = v
      /\ \A k \in e .. Len(r) : R[k + ((q + 3) - e)] = r[k]
  BY <1>2, <1>4, ReferenceText
<1>6. /\ p >= 1 /\ Len(u) = (Len(R) + d) + 2
      /\ \A k \in q .. Len(R) : u[k + d] = R[k]
      /\ u[(Len(R) + d) + 1] = ")" /\ u[(Len(R) + d) + 2] = "x"
  BY DEF Follows
<1> HIDE DEF r, R
<1>7. /\ e + D = p + 3 /\ Len(R) + d = Len(r) + D /\ q + 2 <= Len(R) /\ Len(R) \in Nat /\ D \in Int
      /\ \A k \in e .. Len(r) : k + ((q + 3) - e) \in q .. Len(R) /\ (k + ((q + 3) - e)) + d = k + D
  <2> DEFINE Q(x, y, m, n) ==
        /\ y + (d + ((x + 3) - y)) = (x + d) + 3 /\ n + d = m + (d + ((x + 3) - y)) /\ x + 2 <= n /\ n \in Nat
        /\ d + ((x + 3) - y) \in Int
        /\ \A k \in y .. m : k + ((x + 3) - y) \in x .. n /\ (k + ((x + 3) - y)) + d = k + (d + ((x + 3) - y))
  <2>1. \A x, y, m \in Nat : \A n \in Int : n = ((x + 2) - y) + (m + 1) /\ y <= m + 1 => Q(x, y, m, n)
    OBVIOUS
  <2>2. Len(R) = ((q + 2) - e) + (Len(r) + 1) /\ e <= Len(r) + 1
    BY <1>5
  <2>3. q \in Nat /\ e \in Nat
    BY SMTT(40), <1>0, <1>1
  <2>4. Len(R) \in Int
    BY <1>3, <2>2, <2>3
  <2> HIDE DEF Q
  <2>5. Q(q, e, Len(r), Len(R))
    BY <1>3, <2>1, <2>2, <2>3, <2>4
  <2> QED
    BY <2>5 DEF Q
<1>8. ASSUME NEW k \in e .. Len(r) PROVE u[k + D] = r[k]
  <2> DEFINE j == k + ((q + 3) - e)
  <2>1. j \in q .. Len(R) /\ j + d = k + D
    <3> HIDE DEF D
    <3> QED
      BY <1>7, <1>8
  <2>2. R[j] = r[k]
    BY <1>5
  <2> HIDE DEF j, D
  <2> QED
    BY <1>6, <2>1, <2>2
<1>9. Follows(u, D, r, e)
  <2>1. e + D >= 1 /\ Len(u) = (Len(r) + D) + 2
    <3>1. p >= 1 /\ Len(u) = (Len(R) + d) + 2 /\ p \in Int
      BY <1>1, <1>6
    <3> HIDE DEF D, p
    <3> QED
      BY <1>7, <3>1
  <2>2. u[(Len(r) + D) + 1] = ")" /\ u[(Len(r) + D) + 2] = "x"
    <3> HIDE DEF D, p
    <3> QED
      BY <1>6, <1>7
  <2> HIDE DEF D, p
  <2> QED
    BY <1>5, <1>8, <2>1, <2>2 DEF Follows
<1>10. p \in 1 .. Len(u) /\ p + 2 <= Len(u)
  <2>1. p >= 1 /\ Len(u) = (Len(R) + d) + 2 /\ q \in Nat
    BY <1>1, <1>6
  <2>2. q + 2 <= Len(R) /\ Len(R) \in Nat
    BY <1>7
  <2>3. \A x, n \in Nat : x + d >= 1 /\ x + 2 <= n =>
          x + d \in 1 .. (n + d) + 2 /\ (x + d) + 2 <= (n + d) + 2
    OBVIOUS
  <2> QED
    BY <2>1, <2>2, <2>3
<1>11. u[p] = DoubleQuote /\ u[p + 1] = v /\ u[p + 2] = DoubleQuote
  <2>0. q + 2 <= Len(R) /\ Len(R) \in Nat /\ q \in Nat
    BY SMTT(40), <1>1, <1>7
  <2>1. q \in q .. Len(R) /\ q + 1 \in q .. Len(R) /\ q + 2 \in q .. Len(R) /\ (q + 1) + d = p + 1 /\ (q + 2) + d = p + 2
    <3>1. \A x, n \in Nat : x + 2 <= n =>
            /\ x \in x .. n /\ x + 1 \in x .. n /\ x + 2 \in x .. n
            /\ (x + 1) + d = (x + d) + 1 /\ (x + 2) + d = (x + d) + 2
      OBVIOUS
    <3> QED
      BY <2>0, <3>1
  <2>2. u[q + d] = R[q] /\ u[(q + 1) + d] = R[q + 1] /\ u[(q + 2) + d] = R[q + 2]
    BY <1>6, <2>1
  <2> QED
    BY <1>5, <2>1, <2>2
<1>12. u[p + 3] # DoubleQuote
  <2>1. /\ \A s \in References(K) : e # K[s].start
        /\ e <= Len(t) => t[e] # DoubleQuote
    BY TouchingIs
  <2>2. PICK b : /\ Like(t, e, b, u, D)
                 /\ \/ b = Len(t) + 1 /\ u[b + D] = ")"
                    \/ /\ u[b + D] = DoubleQuote
                       /\ \E s \in i + 4 .. Len(K) : s \in References(K) /\ b = K[s].start
    <3> DEFINE j == i + 4
    <3>1. At(t, j, e) /\ Follows(u, D, RewrittenFrom(t, j), e)
      BY <1>1, <1>9 DEF r
    <3> HIDE DEF j, D
    <3>2. \E b : /\ Bound(t, j, b) /\ Like(t, e, b, u, D) /\ b \in e .. Len(RewrittenFrom(t, j)) + 1
                 /\ \/ b = Len(t) + 1 /\ u[b + D] = ")"
                    \/ /\ u[b + D] = DoubleQuote
                       /\ \E s \in j .. Len(Tokens(t)) : s \in References(Tokens(t)) /\ b = Tokens(t)[s].start
      BY <1>7, <3>1, FollowsLike
    <3> QED
      BY <3>2 DEF j
  <2>3. b \in e .. Len(t) + 1 /\ \A k \in e .. b - 1 : u[k + D] = t[k]
    BY <2>2 DEF Like, Copied
  <2> HIDE DEF D, K, p
  <2>4. CASE b = e
    <3>1. ")" # DoubleQuote
      BY DoubleQuoteIs
    <3> QED
      BY <1>7, <2>1, <2>2, <2>4, <3>1
  <2>5. CASE b > e
    <3>1. e \in e .. b - 1 /\ e <= Len(t)
      BY SMTT(40), <1>0, <1>1, <2>3, <2>5
    <3> QED
      BY <1>7, <2>1, <2>3, <3>1
  <2> QED
    BY <1>0, <1>1, <2>3, <2>4, <2>5
<1>13. v \in Words
  BY <1>1, Symbols
<1> HIDE DEF p, v, D
<1>14. Scan(u, p).kind = "quoted_identifier" /\ Scan(u, p).end = p + 3 /\ Scan(u, p).value = <<v>>
  BY <1>10, <1>11, <1>12, <1>13, ViewScan
<1> QED
  BY <1>9, <1>10, <1>14 DEF p, v, D, r, InPlace

(* What the statement tokenizes to after q: the tokens of t from the i-th  *)
(* on, with views for references, and the end of the wrapping select.      *)
LEMMA TokensFollow ==
  ASSUME NEW t \in Text, Terminated(Tokens(t)), ~ Touching(t)
  PROVE  \A q \in 1 .. Len(t) + 1 : \A i \in 1 .. Len(Tokens(t)) + 1 : \A u \in Text : \A d \in Int :
           At(t, i, q) /\ Good(t, q) /\ Follows(u, d, RewrittenFrom(t, i), q) =>
             Bare(TokensFrom(u, q + d)) = SubstitutedFrom(Tokens(t), i) \o Closing
<1> DEFINE K == Tokens(t)
           L == Len(K)
           N == Len(t) + 1
           Sub(i) == SubstitutedFrom(K, i)
           C(q, i, u, d) == Bare(TokensFrom(u, q + d)) = Sub(i) \o Closing
           P(q) == \A i \in 1 .. L + 1 : \A u \in Text : \A d \in Int :
                     At(t, i, q) /\ Good(t, q) /\ Follows(u, d, RewrittenFrom(t, i), q) => C(q, i, u, d)
           S == {q \in 0 .. N : q # 0 => P(q)}
<1>0. Len(t) \in Nat /\ L \in Nat
  BY TextIs, AtFirst
<1>1. \A i \in 1 .. L + 1 : Sub(i) \in Seq(Items(K)) /\ Closing \in Seq(Items(K))
  BY <1>0, SubstitutedTyped, ClosingTyped
<1>2. \A i \in 1 .. L + 1 :
        Sub(i) = IF i > L THEN <<>>
                 ELSE IF i \in References(K)
                 THEN <<Pair("quoted_identifier", <<ViewNames[K[i + 2].value[1]]>>)>> \o Sub(i + 4)
                 ELSE <<Pair(K[i].kind, K[i].value)>> \o Sub(i + 1)
  BY <1>0, SubstitutedIs DEF Pair
<1>3. ASSUME NEW w \in Items(K), NEW x \in Seq(Items(K)), Closing \in Seq(Items(K))
      PROVE  <<w>> \o (x \o Closing) = (<<w>> \o x) \o Closing
  <2> DEFINE T == Items(K)
             y == <<w>>
             z == Closing
  <2>1. y \in Seq(T) /\ x \in Seq(T) /\ z \in Seq(T)
    BY <1>3
  <2> HIDE DEF T, y, z
  <2>2. (y \o x) \o z = y \o (x \o z)
    BY <2>1, ConcatAssociative
  <2> QED
    BY <2>2 DEF y, z
<1>4. ASSUME NEW q \in 0 .. N, \A l \in q + 1 .. N : l \in S PROVE q \in S
  <2> SUFFICES ASSUME q # 0, NEW i \in 1 .. L + 1, NEW u \in Text, NEW d \in Int, At(t, i, q), Good(t, q),
                      Follows(u, d, RewrittenFrom(t, i), q)
               PROVE  C(q, i, u, d)
    OBVIOUS
  <2>0. q \in 1 .. Len(t) + 1 /\ Len(u) \in Nat
    BY <1>0, TextIs
  <2>1. \A l \in q + 1 .. N : P(l)
    <3> HIDE DEF P
    <3>1. \A l \in q + 1 .. N : l # 0
      BY <2>0
    <3> QED
      BY <1>4, <3>1
  <2> HIDE DEF S
  <2>2. CASE q = Len(t) + 1
    <3>1. i = L + 1
      BY <2>2, AtNext
    <3>2. RewrittenFrom(t, i) = t
      <4>1. RewrittenFrom(t, i) = IF i > L THEN t
             ELSE IF i \in References(K) THEN Replaced(RewrittenFrom(t, i + 1), K, i)
             ELSE RewrittenFrom(t, i + 1)
        BY RewrittenIs
      <4> HIDE DEF K, L
      <4> QED
        BY <1>0, <3>1, <4>1
    <3>3. Sub(i) = <<>>
      <4> HIDE DEF K, L, Sub
      <4>1. i > L
        BY <1>0, <3>1
      <4> QED
        BY <1>2, <4>1
    <3> DEFINE p == q + d
    <3>4. /\ p >= 1 /\ Len(u) = (Len(t) + d) + 2
          /\ u[(Len(t) + d) + 1] = ")" /\ u[(Len(t) + d) + 2] = "x"
      BY <3>2 DEF Follows
    <3>5. p \in 1 .. Len(u) /\ p + 1 = Len(u) /\ p = (Len(t) + d) + 1 /\ p + 1 = (Len(t) + d) + 2
      <4>1. p >= 1 /\ Len(u) = (Len(t) + d) + 2
        BY <3>4
      <4> QED
        BY <1>0, <2>2, <4>1
    <3> HIDE DEF p
    <3>6. Bare(TokensFrom(u, p)) = Closing
      BY <3>4, <3>5, ClosingBare
    <3>7. <<>> \o Closing = Closing
      BY ClosingTyped, ConcatEmptySeq
    <3> QED
      BY <3>3, <3>6, <3>7 DEF p
  <2>3. CASE q <= Len(t)
    <3> DEFINE s == Scan(t, q)
               e == s.end
               p == q + d
               R == RewrittenFrom(t, i)
    <3>0. q \in 1 .. Len(t)
      BY <2>0, <2>3
    <3>1. /\ s.kind # "unterminated"
          /\ s.kind \in {"blank", "comment"} => At(t, i, e)
          /\ s.kind \notin {"blank", "comment"} => i <= L /\ K[i] = s /\ At(t, i + 1, e)
      BY <2>3, AtNext
    <3>2. e \in q + 1 .. Len(t) + 1 /\ s.start = q
      BY <3>0, <3>1, ScanRange
    <3>3. PICK b : Bound(t, i, b) /\ Like(t, q, b, u, d) /\ b \in q .. Len(R) + 1
      BY FollowsLike
    <3>4. ASSUME e <= b
          PROVE  /\ Good(t, e) /\ p \in 1 .. Len(u) /\ Follows(u, d, R, e)
                 /\ Scan(u, p).kind = s.kind /\ Scan(u, p).end = e + d /\ Scan(u, p).value = s.value
      <4>1. b <= Len(R) + 1
        BY <3>3
      <4>2. /\ Scan(u, p) = Moved(s, d) /\ Good(t, e)
            /\ p \in 1 .. Len(u) /\ Follows(u, d, R, e)
        BY <3>0, <3>3, <3>4, <4>1, StepCopied
      <4>3. Moved(s, d).kind = s.kind /\ Moved(s, d).end = e + d /\ Moved(s, d).value = s.value
        BY DEF Moved
      <4> QED
        BY <4>2, <4>3
    <3>5. CASE s.kind \in {"blank", "comment"}
      <4>1. At(t, i, e)
        BY <3>1, <3>5
      <4>2. e <= b
        <5>1. b >= e
          BY <3>3, <4>1, BoundAfter
        <5>2. b \in Int /\ e \in Int
          BY <3>2, <3>3 DEF Like
        <5> HIDE DEF e
        <5> QED
          BY <5>1, <5>2
      <4>3. C(e, i, u, d)
        <5>1. P(e)
          <6> HIDE DEF P, e
          <6> QED
            BY <2>1, <3>2
        <5> HIDE DEF C, e, s
        <5> QED
          BY <3>4, <4>1, <4>2, <5>1
      <4>4. Bare(TokensFrom(u, p)) = Bare(TokensFrom(u, e + d))
        <5> HIDE DEF p
        <5>1. p \in 1 .. Len(u) /\ Scan(u, p).kind \in {"blank", "comment"} /\ Scan(u, p).end = e + d
              /\ Scan(u, p).kind # "unterminated"
          BY <3>1, <3>4, <3>5, <4>2
        <5> QED
          BY <5>1, BareStep
      <4> QED
        BY <4>3, <4>4
    <3>6. CASE s.kind \notin {"blank", "comment"} /\ i \in References(K)
      <4> DEFINE a == K[i].start
                 f == K[i + 3].end
                 D == d + ((q + 3) - f)
                 v == ViewNames[K[i + 2].value[1]]
      <4>0. K[i] = s /\ q = a
        BY <3>1, <3>2, <3>6
      <4>1. /\ Follows(u, D, RewrittenFrom(t, i + 4), f) /\ p \in 1 .. Len(u)
            /\ Scan(u, p).kind = "quoted_identifier" /\ Scan(u, p).end = p + 3
            /\ Scan(u, p).value = <<v>>
        <5> HIDE DEF a, f
        <5>1. q = Tokens(t)[i].start /\ f = Tokens(t)[i + 3].end /\ i \in References(Tokens(t))
          BY <3>6, <4>0 DEF a, f
        <5>2. InPlace(t, u, i, q, f, d)
          BY <5>1, StepReplaced
        <5> QED
          BY <5>2 DEF InPlace
      <4>2. Good(t, f)
        BY <3>6, <4>0, GoodReference
      <4>3. /\ i + 3 \in 1 .. L /\ f \in a + 1 .. Len(t) + 1 /\ At(t, i + 4, f)
            /\ K[i + 2].value[1] \in SourceIds
        BY <3>6, ReferenceSpan
      <4> HIDE DEF a, f, v
      <4>4. i + 4 \in 1 .. L + 1 /\ f \in q + 1 .. N /\ D \in Int /\ f + D = p + 3
        <5> HIDE DEF K, L
        <5>1. i + 4 \in 1 .. L + 1
          BY <1>0, <4>3
        <5>2. f \in q + 1 .. N
          BY <4>0, <4>3
        <5>3. \A x \in q + 1 .. N : d + ((q + 3) - x) \in Int /\ x + (d + ((q + 3) - x)) = p + 3
          BY <3>0
        <5> QED
          BY <5>1, <5>2, <5>3
      <4>5. C(f, i + 4, u, D)
        <5>1. P(f)
          <6> HIDE DEF P
          <6> QED
            BY <2>1, <4>4
        <5> HIDE DEF C, D
        <5> QED
          BY <4>1, <4>2, <4>3, <4>4, <5>1
      <4>6. Bare(TokensFrom(u, p)) = <<Pair("quoted_identifier", <<v>>)>> \o Bare(TokensFrom(u, p + 3))
        <5> HIDE DEF p
        <5>1. Scan(u, p).kind # "unterminated" /\ Scan(u, p).kind \notin {"blank", "comment"}
          BY <4>1
        <5> QED
          BY <4>1, <5>1, BareStep
      <4> DEFINE w == Pair("quoted_identifier", <<v>>)
      <4>7. Bare(TokensFrom(u, p)) = <<w>> \o (Sub(i + 4) \o Closing)
        <5> HIDE DEF Sub, w, p, D
        <5> QED
          BY <4>4, <4>5, <4>6 DEF w
      <4>8. Sub(i) = <<w>> \o Sub(i + 4)
        <5>1. i \in 1 .. L + 1 /\ ~ (i > L)
          <6> HIDE DEF K, L
          <6> QED
            BY <1>0, <4>3
        <5> HIDE DEF Sub, K, L
        <5> QED
          BY <1>2, <3>6, <5>1 DEF v
      <4>9. w \in Items(K)
        <5>1. v \in Words
          BY <4>3, Symbols DEF v
        <5> QED
          BY <5>1 DEF Items
      <4>10. Sub(i + 4) \in Seq(Items(K)) /\ Closing \in Seq(Items(K))
        <5> HIDE DEF Sub, K, L
        <5> QED
          BY <1>1, <4>4
      <4> HIDE DEF w, Sub, K
      <4>11. <<w>> \o (Sub(i + 4) \o Closing) = (<<w>> \o Sub(i + 4)) \o Closing
        BY <1>3, <4>9, <4>10
      <4> QED
        BY <4>7, <4>8, <4>11
    <3>7. CASE s.kind \notin {"blank", "comment"} /\ i \notin References(K)
      <4>1. i <= L /\ K[i] = s /\ At(t, i + 1, e)
        BY <3>1, <3>7
      <4>2. e <= b
        <5>1. b = Len(t) + 1 \/ \E r \in i .. L : r \in References(K) /\ b = K[r].start
          BY <3>3 DEF Bound
        <5>2. \A r \in i + 1 .. L : K[r].start >= e
          BY <4>1, AtStarts
        <5>3. \A r \in i .. L : r = i \/ r \in i + 1 .. L
          <6> HIDE DEF K, L
          <6> QED
            BY <1>0
        <5> HIDE DEF s, e, K, L
        <5> QED
          BY <1>0, <3>2, <3>7, <5>1, <5>2, <5>3
      <4>3. RewrittenFrom(t, i + 1) = R
        <5>1. RewrittenFrom(t, i) = IF i > L THEN t
             ELSE IF i \in References(K) THEN Replaced(RewrittenFrom(t, i + 1), K, i)
             ELSE RewrittenFrom(t, i + 1)
          BY RewrittenIs
        <5>2. ~ (i > L)
          <6> HIDE DEF K, L
          <6> QED
            BY <1>0, <4>1
        <5> QED
          BY <3>7, <5>1, <5>2
      <4>4. i + 1 \in 1 .. L + 1 /\ i \in 1 .. L /\ ~ (i > L)
        <5> HIDE DEF K, L
        <5> QED
          BY <1>0, <4>1
      <4>5. C(e, i + 1, u, d)
        <5>1. P(e)
          <6> HIDE DEF P, e
          <6> QED
            BY <2>1, <3>2
        <5> HIDE DEF C, e, s, R
        <5> QED
          BY <3>4, <4>1, <4>2, <4>3, <4>4, <5>1
      <4> DEFINE w == Pair(s.kind, s.value)
      <4>6. Bare(TokensFrom(u, p)) = <<w>> \o Bare(TokensFrom(u, e + d))
        <5> HIDE DEF p
        <5>1. /\ p \in 1 .. Len(u) /\ Scan(u, p).kind = s.kind /\ Scan(u, p).end = e + d
              /\ Scan(u, p).value = s.value
              /\ Scan(u, p).kind # "unterminated" /\ Scan(u, p).kind \notin {"blank", "comment"}
          BY <3>1, <3>4, <3>7, <4>2
        <5>2. Bare(TokensFrom(u, p)) = <<Pair(Scan(u, p).kind, Scan(u, p).value)>> \o Bare(TokensFrom(u, Scan(u, p).end))
          BY <5>1, BareStep
        <5> QED
          BY <5>1, <5>2
      <4>7. Bare(TokensFrom(u, p)) = <<w>> \o (Sub(i + 1) \o Closing)
        <5> HIDE DEF Sub, w, p, e
        <5> QED
          BY <4>5, <4>6
      <4>8. Sub(i) = <<w>> \o Sub(i + 1) /\ w \in Items(K)
        <5>1. K[i].kind = s.kind /\ K[i].value = s.value
          BY <4>1
        <5>2. w = Pair(K[i].kind, K[i].value)
          BY <5>1
        <5>3. w \in Items(K)
          BY <4>4, <5>2 DEF Items
        <5> HIDE DEF Sub, K, L, w
        <5> QED
          BY <1>2, <3>7, <4>4, <5>2, <5>3
      <4>9. Sub(i + 1) \in Seq(Items(K)) /\ Closing \in Seq(Items(K))
        <5> HIDE DEF Sub, K, L
        <5> QED
          BY <1>1, <4>4
      <4> HIDE DEF w, Sub, K
      <4>10. <<w>> \o (Sub(i + 1) \o Closing) = (<<w>> \o Sub(i + 1)) \o Closing
        BY <1>3, <4>8, <4>9
      <4> QED
        BY <4>7, <4>8, <4>10
    <3> QED
      BY <3>5, <3>6, <3>7
  <2> QED
    BY SMTT(40), <1>0, <2>0, <2>2, <2>3
<1>5. 0 .. N \subseteq S
  <2>1. N \in Nat
    BY <1>0
  <2> HIDE DEF S, N
  <2> QED
    BY <1>4, <2>1, Downwards
<1>6. ASSUME NEW q \in 1 .. N PROVE P(q)
  <2>1. q \in 0 .. N /\ q # 0
    BY <1>0
  <2> HIDE DEF P
  <2> QED
    BY <1>5, <2>1
<1> QED
  BY <1>6

(* Max is the greatest of a set of numbers with a bound. *)
LEMMA MaxIn ==
  ASSUME NEW N \in Nat, NEW S \in SUBSET (0 .. N), S # {}
  PROVE  Max(S) \in S /\ \A k \in S : k <= Max(S)
<1> DEFINE D == {x \in Nat : \E k \in S : x = N - k}
<1>1. D \in SUBSET Nat /\ D # {}
  <2>1. PICK k \in S : TRUE
    OBVIOUS
  <2>2. N - k \in D
    BY <2>1
  <2> QED
    BY <2>2
<1>2. PICK x \in D : \A y \in D : x <= y
  <2> HIDE DEF D
  <2> QED
    BY <1>1, Least
<1>3. PICK k \in S : x = N - k
  BY <1>2
<1>4. ASSUME NEW y \in S PROVE k >= y
  <2>1. N - y \in D
    OBVIOUS
  <2>2. x <= N - y
    BY <1>2, <2>1
  <2> QED
    BY <1>3, <2>2
<1>5. \E z \in S : \A y \in S : z >= y
  BY <1>4
<1>6. Max(S) \in S /\ \A y \in S : Max(S) >= y
  BY <1>5 DEF Max
<1> QED
  BY <1>6

(* s is t from a to b, and what is around it in t is blank. *)
Inside(s, t, a, b) ==
  /\ a \in 1 .. Len(t) + 1 /\ b \in a - 1 .. Len(t)
  /\ s \in Text /\ Len(s) = (b - a) + 1 /\ \A k \in 1 .. (b - a) + 1 : s[k] = t[(a + k) - 1]
  /\ (\A k \in 1 .. a - 1 : t[k] \in Blanks) /\ \A k \in b + 1 .. Len(t) : t[k] \in Blanks

(* strip removes the blanks on both sides and nothing else. *)
LEMMA StripIs ==
  ASSUME NEW t \in Text
  PROVE  \E a, b : /\ Inside(Strip(t), t, a, b)
                   /\ b < a => a = 1
                   /\ b >= a => t[a] \notin Blanks /\ t[b] \notin Blanks
<1> DEFINE kept == {i \in DOMAIN t : t[i] \notin Blanks}
<1>0. Len(t) \in Nat /\ DOMAIN t = 1 .. Len(t)
  BY TextIs
<1>1. CASE kept = {}
  <2>1. Strip(t) = <<>>
    BY <1>1 DEF Strip
  <2>2. <<>> \in Text /\ Len(<<>>) = 0
    BY DEF Text
  <2>3. \A k \in 0 + 1 .. Len(t) : t[k] \in Blanks
    BY <1>0, <1>1
  <2>4. 1 \in 1 .. Len(t) + 1 /\ 0 \in 1 - 1 .. Len(t) /\ (0 - 1) + 1 = 0
    BY <1>0
  <2>5. Inside(Strip(t), t, 1, 0)
    BY <2>1, <2>2, <2>3, <2>4 DEF Inside
  <2>6. 0 < 1 /\ ~ (0 >= 1)
    OBVIOUS
  <2> QED
    BY <2>5, <2>6
<1>2. CASE kept # {}
  <2> DEFINE a == Min(kept)
             b == Max(kept)
  <2>1. a \in kept /\ \A k \in kept : a <= k
    <3>1. kept \in SUBSET Nat
      BY <1>0
    <3> HIDE DEF kept
    <3> QED
      BY <1>2, <3>1, MinIs
  <2>2. b \in kept /\ \A k \in kept : k <= b
    <3>1. kept \in SUBSET (0 .. Len(t))
      BY <1>0
    <3> HIDE DEF kept
    <3> QED
      BY <1>0, <1>2, <3>1, MaxIn
  <2>3. Strip(t) = SubSeq(t, a, b)
    BY <1>2 DEF Strip
  <2> HIDE DEF a, b
  <2>4. a \in 1 .. Len(t) /\ b \in 1 .. Len(t) /\ a <= b /\ t[a] \notin Blanks /\ t[b] \notin Blanks
    BY <1>0, <2>1, <2>2
  <2>5. a \in 1 .. Len(t) + 1 /\ b \in a - 1 .. Len(t)
    BY <1>0, <2>4
  <2>6. /\ Strip(t) \in Text /\ Len(Strip(t)) = (b - a) + 1
        /\ \A k \in 1 .. (b - a) + 1 : Strip(t)[k] = t[(a + k) - 1]
    BY <2>3, <2>5, PartIs
  <2>7. (\A k \in 1 .. a - 1 : t[k] \in Blanks) /\ \A k \in b + 1 .. Len(t) : t[k] \in Blanks
    BY <1>0, <2>1, <2>2, <2>4
  <2>8. Inside(Strip(t), t, a, b)
    BY <2>5, <2>6, <2>7 DEF Inside
  <2> QED
    BY <2>4, <2>8
<1> QED
  BY <1>1, <1>2

(* A stripped text does not begin with a blank. *)
LEMMA StripTyped ==
  ASSUME NEW t \in Text
  PROVE  Strip(t) \in Text /\ (Len(Strip(t)) >= 1 => Strip(t)[1] \notin Blanks)
<1>1. PICK a, b : Inside(Strip(t), t, a, b) /\ (b >= a => t[a] \notin Blanks)
  BY StripIs
<1> DEFINE s == Strip(t)
<1>2. /\ a \in 1 .. Len(t) + 1 /\ b \in a - 1 .. Len(t)
      /\ s \in Text /\ Len(s) = (b - a) + 1 /\ \A k \in 1 .. (b - a) + 1 : s[k] = t[(a + k) - 1]
  BY <1>1 DEF Inside
<1>3. Len(t) \in Nat
  BY TextIs
<1> HIDE DEF s
<1>4. ASSUME Len(s) >= 1 PROVE s[1] \notin Blanks
  <2>1. b >= a /\ 1 \in 1 .. (b - a) + 1 /\ (a + 1) - 1 = a
    BY <1>2, <1>3, <1>4
  <2> QED
    BY <1>1, <1>2, <2>1
<1> QED
  BY <1>2, <1>4 DEF s

(* n is the text before p without the blanks at its end. *)
Prefix(t, n, m, p) ==
  /\ n \in Text /\ Len(n) = m /\ m \in 0 .. p - 1
  /\ (\A k \in 1 .. m : n[k] = t[k]) /\ \A k \in m + 1 .. p - 1 : t[k] \in Blanks

(* To strip what is before p removes only blanks at its end, in a text     *)
(* that begins with none.                                                  *)
LEMMA PrefixOf ==
  ASSUME NEW t \in Text, NEW p \in 1 .. Len(t), t[1] \notin Blanks
  PROVE  \E m : Prefix(t, Strip(SubSeq(t, 1, p - 1)), m, p)
<1> DEFINE V == SubSeq(t, 1, p - 1)
           n == Strip(V)
<1>0. Len(t) \in Nat
  BY TextIs
<1>1. V \in Text /\ Len(V) = p - 1 /\ \A k \in 1 .. p - 1 : V[k] = t[k]
  <2> DEFINE b == p - 1
  <2>1. 1 \in 1 .. Len(t) + 1 /\ b \in 1 - 1 .. Len(t) /\ (b - 1) + 1 = b
        /\ \A k \in 1 .. b : (1 + k) - 1 = k
    BY <1>0
  <2> HIDE DEF b
  <2>2. /\ SubSeq(t, 1, b) \in Text /\ Len(SubSeq(t, 1, b)) = (b - 1) + 1
        /\ \A k \in 1 .. (b - 1) + 1 : SubSeq(t, 1, b)[k] = t[(1 + k) - 1]
    BY <2>1, PartIs
  <2> QED
    BY <2>1, <2>2 DEF b
<1> HIDE DEF V
<1>2. PICK a, b : Inside(Strip(V), V, a, b) /\ (b < a => a = 1)
  BY <1>1, StripIs
<1> HIDE DEF n
<1>3. /\ a \in 1 .. Len(V) + 1 /\ b \in a - 1 .. Len(V)
      /\ n \in Text /\ Len(n) = (b - a) + 1 /\ \A k \in 1 .. (b - a) + 1 : n[k] = V[(a + k) - 1]
      /\ (\A k \in 1 .. a - 1 : V[k] \in Blanks) /\ \A k \in b + 1 .. Len(V) : V[k] \in Blanks
  BY <1>2 DEF Inside, n
<1>4. a = 1
  <2> SUFFICES ASSUME a # 1 PROVE FALSE
    OBVIOUS
  <2>1. b >= a /\ 1 \in 1 .. a - 1 /\ 1 \in 1 .. p - 1
    BY <1>0, <1>1, <1>2, <1>3
  <2> QED
    BY <1>1, <1>3, <2>1
<1>5. b \in 0 .. p - 1 /\ Len(n) = b /\ \A k \in 1 .. b : k \in 1 .. p - 1 /\ k \in 1 .. (b - a) + 1 /\ (a + k) - 1 = k
  BY <1>0, <1>1, <1>3, <1>4
<1>6. \A k \in 1 .. b : n[k] = t[k]
  BY <1>1, <1>3, <1>5
<1>7. \A k \in b + 1 .. p - 1 : k \in b + 1 .. Len(V) /\ k \in 1 .. p - 1
  BY <1>0, <1>1, <1>5
<1>8. \A k \in b + 1 .. p - 1 : t[k] \in Blanks
  BY <1>1, <1>3, <1>7
<1>9. Prefix(t, n, b, p)
  BY <1>3, <1>5, <1>6, <1>8 DEF Prefix
<1> QED
  BY <1>9 DEF n, V

(* A semicolon at p. *)
Ended(t, p) == t[p] = ";"

(* What is scanned before the semicolon is scanned the same without it,    *)
(* except a line comment, which then runs to the end.                      *)
LEMMA PrefixScan ==
  ASSUME NEW t \in Text, NEW n, NEW m \in Nat, NEW p \in 1 .. Len(t), Ended(t, p), Prefix(t, n, m, p),
         NEW q \in 1 .. m, Scan(t, q).kind # "unterminated", Scan(t, q).end <= p, ~ OpenLine(t, q)
  PROVE  \/ OpenLine(n, q) /\ Scan(t, q).kind = "comment" /\ Scan(t, q).end > m
         \/ Scan(t, q).end <= m + 1 /\ Scan(n, q) = Scan(t, q)
<1> DEFINE s == Scan(t, q)
           e == s.end
<1>0. Len(t) \in Nat /\ p \in Nat /\ q \in Nat /\ m \in Nat /\ q \in 1 .. Len(t)
  <2>1. Len(t) \in Nat /\ m \in 0 .. p - 1
    BY TextIs DEF Prefix
  <2> QED
    BY <2>1
<1>1. /\ n \in Text /\ Len(n) = m /\ m \in 0 .. p - 1
      /\ (\A k \in 1 .. m : n[k] = t[k]) /\ \A k \in m + 1 .. p - 1 : t[k] \in Blanks
  BY DEF Prefix
<1>2. /\ e \in q + 1 .. Len(t) + 1
      /\ s.kind # "blank" /\ ~ Found(t, q, <<"-", "-">>) => t[e - 1] \notin Blanks
      /\ s.kind = "blank" => e = q + 1
  <2>1. /\ s.kind # "unterminated" => e \in q + 1 .. Len(t) + 1
        /\ s.kind \notin {"unterminated", "blank"} /\ ~ Found(t, q, <<"-", "-">>) => t[e - 1] \notin Blanks
        /\ t[q] \in Blanks => e = q + 1
        /\ s.kind = "blank" => t[q] \in Blanks
    BY <1>0, ScanRange
  <2> HIDE DEF s, e
  <2> QED
    BY <2>1 DEF s
<1>3. CASE Found(t, q, <<"-", "-">>) /\ e > m + 1
  <2>1. q + 1 <= Len(t) /\ t[q] = "-" /\ t[q + 1] = "-"
    BY <1>0, <1>3, FoundIs
  <2>2. s = Plain(t, q, LineEnd(t, q), "comment")
    BY <1>0, <1>3, ScanCases
  <2>3. /\ LineEnd(t, q) \in q + 2 .. Len(t) + 1
        /\ \/ LineEnd(t, q) = Len(t) + 1 /\ \A k \in q + 2 .. Len(t) : t[k] # "newline"
           \/ /\ LineEnd(t, q) \in q + 3 .. Len(t) + 1 /\ t[LineEnd(t, q) - 1] = "newline"
              /\ \A k \in q + 2 .. LineEnd(t, q) - 2 : t[k] # "newline"
    BY <1>0, <2>1, LineEndIs
  <2> DEFINE v == SubSeq(t, q, LineEnd(t, q) - 1)
             l == LineEnd(t, q)
  <2>4. s = Token(q, l, "comment", v)
    BY <2>2 DEF Plain
  <2> HIDE DEF v, l
  <2>5. e = l /\ s.kind = IF l = 0 THEN "unterminated" ELSE "comment"
    BY <2>4, TokenIs
  <2>6. e = LineEnd(t, q) /\ s.kind = "comment"
    <3>1. s.kind # "unterminated"
      OBVIOUS
    <3> HIDE DEF s, e
    <3> QED
      BY <2>5, <3>1 DEF l
  <2> HIDE DEF s, e
  <2>7. \A k \in q + 2 .. m : t[k] # "newline"
    <3>1. \A k \in q + 2 .. m : k \in q + 2 .. Len(t) /\ k \in q + 2 .. e - 2
      BY <1>0, <1>1, <1>2, <1>3
    <3> QED
      BY <2>3, <2>6, <3>1
  <2>8. q + 1 <= m
    <3> SUFFICES ASSUME ~ (q + 1 <= m) PROVE FALSE
      OBVIOUS
    <3>1. q + 1 = p \/ q + 1 \in m + 1 .. p - 1
      BY <1>0, <1>1
    <3>2. t[p] # "-" /\ "-" \notin Blanks
      BY DEF Blanks, Ended
    <3> QED
      BY <1>1, <2>1, <3>1, <3>2
  <2>9. q \in 1 .. m /\ q + 1 \in 1 .. m /\ q + 1 <= Len(n) /\ Len(n) \in Nat
    BY <1>0, <1>1, <2>8
  <2>10. n[q] = "-" /\ n[q + 1] = "-"
    BY <1>1, <2>1, <2>9
  <2>11. Found(n, q, <<"-", "-">>)
    BY <1>0, <2>9, <2>10, FoundIs
  <2>12. \A k \in q + 2 .. Len(n) : n[k] # "newline"
    <3>1. \A k \in q + 2 .. Len(n) : k \in q + 2 .. m /\ k \in 1 .. m
      BY <1>0, <1>1
    <3> QED
      BY <1>1, <2>7, <3>1
  <2>13. e > m
    BY <1>0, <1>2, <1>3
  <2> QED
    BY <2>6, <2>11, <2>12, <2>13 DEF OpenLine, s, e
<1>4. CASE e <= m + 1
  <2>0. 0 \in Int /\ q + 0 = q /\ e + 0 = e
    <3> HIDE DEF e
    <3> QED
      BY <1>0, <1>2
  <2>1. Copied(t, q, e, n, 0)
    <3>1. q + 0 >= 1 /\ e + 0 <= Len(n) + 1 /\ \A k \in q .. e - 1 : k + 0 = k /\ k \in 1 .. m
      <4> HIDE DEF e
      <4> QED
        BY <1>0, <1>1, <1>2, <1>4
    <3> HIDE DEF e
    <3> QED
      BY <1>1, <3>1 DEF Copied
  <2>2. e > Len(n) \/ (e <= Len(t) /\ n[e] = t[e])
    <3> HIDE DEF e
    <3>1. e > Len(n) \/ (e \in 1 .. m /\ e <= Len(t))
      BY <1>0, <1>1, <1>2
    <3> QED
      BY <1>1, <3>1
  <2>3. s.kind = "quoted_identifier" => ~ (e <= Len(n) /\ n[e] = DoubleQuote)
    <3>1. s.kind = "quoted_identifier" => ~ (e <= Len(t) /\ t[e] = DoubleQuote)
      BY <1>0, QuotedScan
    <3> HIDE DEF s, e
    <3>2. e <= Len(n) => e <= Len(t) /\ e \in 1 .. m
      BY <1>0, <1>1, <1>2
    <3> QED
      BY <1>1, <3>1, <3>2
  <2>4. ASSUME MarkerEnd(n, q) # 0 PROVE MarkerEnd(t, q) # 0
    <3> DEFINE x == MarkerEnd(n, q)
    <3>1. Len(n) \in Nat /\ q \in 1 .. Len(n)
      BY <1>0, <1>1
    <3>2. x \in Nat /\ Marker(n, q, x - 1)
      BY <2>4, <3>1, MarkerEndIs
    <3>3. x # 0 /\ x = MarkerEnd(n, q)
      BY <2>4
    <3> HIDE DEF x
    <3>4. x - 1 \in q + 1 .. Len(n)
      BY <3>2 DEF Marker
    <3>5. q + 0 >= 1 /\ x + 0 <= Len(t) + 1 /\ \A k \in q .. x - 1 : k + 0 = k /\ k \in 1 .. m
      BY <1>0, <1>1, <3>1, <3>2, <3>4
    <3>6. Copied(n, q, x, t, 0)
      BY <1>1, <3>5 DEF Copied
    <3>7. MarkerEnd(t, q + 0) = x + 0
      BY <1>0, <2>0, <3>1, <3>3, <3>6, MarkerCopied
    <3> QED
      BY <2>0, <3>2, <3>3, <3>7
  <2>5. Ahead(t, q, n, 0)
    <3> HIDE DEF s
    <3> QED
      BY <2>0, <2>2, <2>3, <2>4 DEF Ahead, s
  <2>6. Scan(n, q + 0) = Moved(s, 0)
    BY <1>0, <1>1, <2>0, <2>1, <2>5, ScanCopied
  <2>7. s = [kind |-> s.kind, start |-> s.start, end |-> e, value |-> s.value]
    BY <1>0, ScanRecord
  <2>8. s.start + 0 = s.start
    <3>1. s.start = q
      BY <1>0, ScanRange
    <3> HIDE DEF s
    <3> QED
      BY <1>0, <3>1
  <2>9. Moved(s, 0) = [kind |-> s.kind, start |-> s.start, end |-> e, value |-> s.value]
    BY <2>0, <2>8 DEF Moved
  <2> QED
    BY <1>4, <2>0, <2>6, <2>7, <2>9
<1>5. CASE ~ Found(t, q, <<"-", "-">>) /\ e > m + 1
  <2> HIDE DEF e
  <2>1. s.kind # "blank"
    BY <1>0, <1>2, <1>5
  <2>2. e - 1 \in m + 1 .. p - 1
    <3>1. e <= p
      BY DEF e
    <3> QED
      BY <1>0, <1>2, <1>5, <3>1
  <2> QED
    BY <1>1, <1>2, <1>5, <2>1, <2>2
<1>6. e <= m + 1 \/ e > m + 1
  <2> HIDE DEF e
  <2> QED
    BY <1>0, <1>2
<1> QED
  BY <1>3, <1>4, <1>5, <1>6

(* From each place on, n has the tokens of t but the last. *)
BeforeLast(t, n, m, L) ==
  \A q \in 1 .. m + 1 : \A i \in 1 .. L : At(t, i, q) =>
    /\ Len(TokensFrom(n, q)) = L - i
    /\ \A k \in 1 .. L - i : TokensFrom(n, q)[k] = Tokens(t)[(i + k) - 1]

(* The tokens of the text before a last semicolon are those before it. *)
LEMMA PrefixTokens ==
  ASSUME NEW t \in Text, Terminated(Tokens(t)), NEW L, L = Len(Tokens(t)), L >= 1,
         NEW p, p = Tokens(t)[L].start, Ended(t, p), NEW n, NEW m \in Nat, Prefix(t, n, m, p)
  PROVE  BeforeLast(t, n, m, L)
<1> DEFINE K == Tokens(t)
           N == m + 1
           C(q, i) == /\ Len(TokensFrom(n, q)) = L - i
                      /\ \A k \in 1 .. L - i : TokensFrom(n, q)[k] = K[(i + k) - 1]
           P(q) == \A i \in 1 .. L : At(t, i, q) => C(q, i)
           S == {q \in 0 .. N : q # 0 => P(q)}
<1>0. Len(t) \in Nat /\ L \in Nat
  BY TextIs, AtFirst
<1>1. p \in 1 .. Len(t)
  <2>1. \A i \in 1 .. L : K[i].start \in 1 .. Len(t)
    BY AtEach
  <2>2. L \in 1 .. L
    BY <1>0
  <2> QED
    BY <2>1, <2>2
<1>2. /\ n \in Text /\ Len(n) = m /\ m \in 0 .. p - 1
      /\ \A k \in m + 1 .. p - 1 : t[k] \in Blanks
  BY DEF Prefix
<1>3. \A i \in 1 .. L : /\ K[i].start \in 1 .. Len(t) /\ t[K[i].start] \notin Blanks
                        /\ K[i].end >= K[i].start + 1
                        /\ At(t, i + 1, K[i].end)
  <2> SUFFICES ASSUME NEW i \in 1 .. L
               PROVE  /\ K[i].start \in 1 .. Len(t) /\ t[K[i].start] \notin Blanks
                      /\ K[i].end >= K[i].start + 1
                      /\ At(t, i + 1, K[i].end)
    OBVIOUS
  <2>1. /\ K[i].start \in 1 .. Len(t) /\ K[i] = Scan(t, K[i].start)
        /\ K[i].kind \notin {"blank", "comment", "unterminated"}
        /\ K[i].end \in K[i].start + 1 .. Len(t) + 1
        /\ At(t, i + 1, K[i].end)
    BY AtEach
  <2> DEFINE a == K[i].start
  <2>2. a \in 1 .. Len(t) /\ Scan(t, a).kind # "blank"
    BY <2>1
  <2>3. t[a] \notin Blanks
    <3> HIDE DEF a
    <3> QED
      BY <2>2, ScanRange
  <2>4. K[i].end >= a + 1
    <3> DEFINE b == K[i].end
    <3>1. a \in Int /\ b \in a + 1 .. Len(t) + 1
      BY <2>1
    <3> HIDE DEF a, b
    <3> QED
      BY <1>0, <3>1 DEF b
  <2> QED
    BY <2>1, <2>3, <2>4
<1>4. \A i \in 1 .. L : \A q : At(t, i, q) =>
        /\ q \in 1 .. Len(t) + 1 /\ \A r \in i .. L : K[r].start >= q
  BY AtStarts DEF At
<1>5. \A i \in 1 .. L : K[i].start >= p => i = L
  <2> SUFFICES ASSUME NEW i \in 1 .. L, i # L PROVE ~ (K[i].start >= p)
    OBVIOUS
  <2> DEFINE a == K[i].start
             b == K[i].end
             j == i + 1
  <2>1. At(t, j, b) /\ j \in 1 .. L /\ L \in j .. L /\ b >= a + 1 /\ a \in Int
    <3>1. j \in 1 .. L /\ L \in j .. L
      BY <1>0
    <3>2. a \in 1 .. Len(t)
      BY <1>3
    <3> QED
      BY <1>3, <3>1, <3>2
  <2>2. b \in 1 .. Len(t) + 1 /\ K[L].start >= b
    <3> HIDE DEF b, j
    <3> QED
      BY <1>4, <2>1
  <2> HIDE DEF a, b, j, K
  <2>3. p >= b
    BY <2>2 DEF K
  <2> QED
    BY <1>0, <1>1, <2>1, <2>2, <2>3 DEF a
<1>6. \A i \in 1 .. L : \A q : At(t, i, q) /\ q > m => i = L
  <2> SUFFICES ASSUME NEW i \in 1 .. L, NEW q, At(t, i, q), q > m PROVE i = L
    OBVIOUS
  <2> DEFINE a == K[i].start
  <2>1. q \in 1 .. Len(t) + 1 /\ a >= q /\ a \in 1 .. Len(t) /\ t[a] \notin Blanks
    <3>1. i \in i .. L
      BY <1>0
    <3> QED
      BY <1>3, <1>4, <3>1
  <2>2. ~ (a \in m + 1 .. p - 1)
    <3> HIDE DEF a
    <3> QED
      BY <1>2, <2>1
  <2>3. a >= p
    <3> HIDE DEF a
    <3> QED
      BY <1>0, <1>1, <2>1, <2>2
  <2> QED
    BY <1>5, <2>3
<1>7. ASSUME NEW q \in 0 .. N, \A l \in q + 1 .. N : l \in S PROVE q \in S
  <2> SUFFICES ASSUME q # 0, NEW i \in 1 .. L, At(t, i, q) PROVE C(q, i)
    OBVIOUS
  <2>0. q \in 1 .. m + 1
    OBVIOUS
  <2>1. \A l \in q + 1 .. N : P(l)
    <3> HIDE DEF P
    <3>1. \A l \in q + 1 .. N : l # 0
      BY <2>0
    <3> QED
      BY <1>7, <3>1
  <2> HIDE DEF S
  <2>2. ASSUME i = L, Len(TokensFrom(n, q)) = 0 PROVE C(q, i)
    <3> HIDE DEF K
    <3> QED
      BY <1>0, <2>2
  <2>3. CASE q = m + 1
    <3>1. i = L
      <4>1. q > m
        BY <2>3
      <4> QED
        BY <1>6, <4>1
    <3>2. Len(TokensFrom(n, m + 1)) = 0
      BY <1>2, FromEnd
    <3> QED
      BY <2>2, <2>3, <3>1, <3>2
  <2>4. CASE q <= m
    <3> DEFINE s == Scan(t, q)
               e == s.end
    <3>0. q \in 1 .. m /\ q <= Len(t) /\ q \in 1 .. Len(t) /\ q < p
      BY <1>0, <1>1, <1>2, <2>0, <2>4
    <3>1. /\ s.kind # "unterminated"
          /\ s.kind \in {"blank", "comment"} => At(t, i, e)
          /\ s.kind \notin {"blank", "comment"} => i <= L /\ K[i] = s /\ At(t, i + 1, e)
      BY <3>0, AtNext
    <3>2. e \in q + 1 .. Len(t) + 1 /\ s.start = q
      BY <3>0, <3>1, ScanRange
    <3>3. s.kind \notin {"blank", "comment"} => i + 1 \in 1 .. L /\ i < L
      <4> SUFFICES ASSUME i = L, s.kind \notin {"blank", "comment"} PROVE FALSE
        BY <1>0
      <4>1. K[L].start = q
        BY <3>1, <3>2
      <4>2. p = q
        BY <4>1
      <4> QED
        BY <1>1, <3>0, <4>2
    <3>4. e <= p
      <4>1. PICK j \in 1 .. L : At(t, j, e)
        BY <3>1, <3>3
      <4>2. L \in j .. L
        BY <1>0
      <4>3. K[L].start >= e
        BY <1>4, <4>1, <4>2
      <4> HIDE DEF e, K
      <4>4. p >= e
        BY <4>3 DEF K
      <4> QED
        BY <1>1, <3>2, <4>4
    <3>5. ~ OpenLine(t, q)
      <4> SUFFICES ASSUME OpenLine(t, q) PROVE FALSE
        OBVIOUS
      <4>1. Len(TokensFrom(t, q)) = 0
        BY <3>0, OpenLineEnds
      <4>2. Len(TokensFrom(t, q)) = (L + 1) - i
        BY DEF At
      <4> QED
        BY <1>0, <4>1, <4>2
    <3>6. \/ OpenLine(n, q) /\ s.kind = "comment" /\ e > m
          \/ e <= m + 1 /\ Scan(n, q) = s
      BY <1>1, <3>0, <3>1, <3>4, <3>5, PrefixScan
    <3>7. CASE OpenLine(n, q) /\ s.kind = "comment" /\ e > m
      <4>1. i = L
        BY <1>6, <3>1, <3>7
      <4>2. q \in 1 .. Len(n)
        BY <1>2, <3>0
      <4>3. Len(TokensFrom(n, q)) = 0
        BY <1>2, <3>7, <4>2, OpenLineEnds
      <4> QED
        BY <2>2, <4>1, <4>3
    <3>8. CASE e <= m + 1 /\ Scan(n, q) = s
      <4> DEFINE F == TokensFrom(n, q)
                 G == TokensFrom(n, e)
      <4>1. e \in q + 1 .. N /\ q \in 1 .. Len(n)
        <5> HIDE DEF e
        <5> QED
          BY <1>0, <1>2, <3>0, <3>2, <3>8
      <4>2. P(e)
        <5> HIDE DEF P, e
        <5> QED
          BY <2>1, <4>1
      <4>3. /\ Scan(n, q).end \in q + 1 .. Len(n) + 1
            /\ Len(TokensFrom(n, Scan(n, q).end)) \in Nat /\ Len(TokensFrom(n, q)) \in Nat
            /\ Scan(n, q).kind \in {"blank", "comment"} => TokensFrom(n, q) = TokensFrom(n, Scan(n, q).end)
            /\ Scan(n, q).kind \notin {"blank", "comment"} =>
                 /\ Len(TokensFrom(n, q)) = Len(TokensFrom(n, Scan(n, q).end)) + 1
                 /\ TokensFrom(n, q)[1] = Scan(n, q)
                 /\ \A k \in 1 .. Len(TokensFrom(n, Scan(n, q).end)) :
                      TokensFrom(n, q)[k + 1] = TokensFrom(n, Scan(n, q).end)[k]
        BY <1>2, <3>1, <3>8, <4>1, FromStep
      <4>4. /\ s.kind \in {"blank", "comment"} => F = G
            /\ s.kind \notin {"blank", "comment"} =>
                 /\ Len(F) = Len(G) + 1 /\ F[1] = s
                 /\ \A k \in 1 .. Len(G) : F[k + 1] = G[k]
        BY <3>8, <4>3
      <4>5. CASE s.kind \in {"blank", "comment"}
        <5>1. C(e, i)
          <6> HIDE DEF C, e, s, K
          <6> QED
            BY <3>1, <4>2, <4>5
        <5> QED
          BY <4>4, <4>5, <5>1
      <4>6. CASE s.kind \notin {"blank", "comment"}
        <5> DEFINE j == i + 1
        <5>0. j \in 1 .. L /\ i < L /\ K[i] = s /\ At(t, j, e)
          BY <3>1, <3>3, <4>6
        <5>1. C(e, j)
          <6> HIDE DEF C, e, s, K, j
          <6> QED
            BY <4>2, <5>0
        <5>2. Len(G) = L - j /\ \A k \in 1 .. L - j : G[k] = K[(j + k) - 1]
          BY <5>1
        <5>3. Len(F) = Len(G) + 1 /\ F[1] = K[i] /\ \A k \in 1 .. Len(G) : F[k + 1] = G[k]
          BY <4>4, <4>6, <5>0
        <5> HIDE DEF F, G, K, s, e
        <5>4. Len(F) = L - i
          BY <1>0, <5>2, <5>3
        <5>5. ASSUME NEW k \in 1 .. L - i PROVE F[k] = K[(i + k) - 1]
          <6>1. CASE k = 1
            <7>1. (i + k) - 1 = i
              BY <6>1
            <7> QED
              BY <5>3, <6>1, <7>1
          <6>2. CASE k # 1
            <7> DEFINE h == k - 1
            <7>1. h \in 1 .. L - j /\ h \in 1 .. Len(G) /\ h + 1 = k /\ (j + h) - 1 = (i + k) - 1
              BY <1>0, <5>2, <6>2
            <7> HIDE DEF h, j
            <7> QED
              BY <5>2, <5>3, <7>1
          <6> QED
            BY <6>1, <6>2
        <5> QED
          BY <5>4, <5>5 DEF F
      <4> QED
        BY <4>5, <4>6
    <3> QED
      BY <3>6, <3>7, <3>8
  <2> QED
    BY <1>0, <2>0, <2>3, <2>4
<1>8. 0 .. N \subseteq S
  <2>1. N \in Nat
    OBVIOUS
  <2> HIDE DEF S, N
  <2> QED
    BY <1>7, <2>1, Downwards
<1>9. ASSUME NEW q \in 1 .. N PROVE P(q)
  <2>1. q \in 0 .. N /\ q # 0
    OBVIOUS
  <2> HIDE DEF P
  <2> QED
    BY <1>8, <2>1
<1> QED
  BY <1>9 DEF BeforeLast

(* The tokens of the normalized text are the ones that were checked. *)
LEMMA CheckedIs ==
  ASSUME NEW t \in Text, Terminated(Tokens(Strip(t)))
  PROVE  /\ Normalized(t) \in Text /\ Tokens(Normalized(t)) = Checked(t)
         /\ Terminated(Tokens(Normalized(t)))
<1> DEFINE T == Strip(t)
           K == Tokens(T)
           L == Len(K)
           p == K[L].start
           n == Strip(SubSeq(T, 1, p - 1))
<1>0. T \in Text /\ (Len(T) >= 1 => T[1] \notin Blanks) /\ Terminated(K)
  BY StripTyped
<1>1. CASE ~ Semicolon(K)
  <2>1. Normalized(t) = T /\ Checked(t) = K
    BY <1>1 DEF Normalized, WithoutSemicolon, Checked
  <2> QED
    BY <1>0, <2>1
<1>2. CASE Semicolon(K)
  <2>1. Normalized(t) = n /\ Checked(t) = SubSeq(K, 1, L - 1)
    BY <1>2 DEF Normalized, WithoutSemicolon, Checked
  <2> HIDE DEF T
  <2>2. K # <<>> /\ K[L].kind = "symbol" /\ K[L].value = <<";">>
    BY <1>2 DEF Semicolon, IsSymbol
  <2>3. K \in Seq({Scan(T, j) : j \in 1 .. Len(T)}) /\ L \in Nat
    <3>1. Len(T) \in Nat
      BY <1>0, TextIs
    <3>2. 1 \in 1 .. Len(T) + 1
      BY <3>1
    <3> QED
      BY <1>0, <3>2, TokensFromTyped DEF Tokens
  <2> DEFINE X == {Scan(T, j) : j \in 1 .. Len(T)}
  <2> HIDE DEF X
  <2>4. K \in Seq(X)
    BY <2>3 DEF X
  <2>5. L >= 1
    <3> SUFFICES ASSUME ~ (L >= 1) PROVE FALSE
      OBVIOUS
    <3>1. L = 0
      <4> HIDE DEF L
      <4> QED
        BY <2>3
    <3> HIDE DEF K
    <3>2. K = <<>>
      BY <2>4, <3>1, EmptySeq
    <3> QED
      BY <2>2, <3>2
  <2>6. p \in 1 .. Len(T) /\ K[L] = Scan(T, p) /\ At(T, 1, 1)
    <3>1. \A i \in 1 .. L : K[i].start \in 1 .. Len(T) /\ K[i] = Scan(T, K[i].start)
      BY <1>0, AtEach
    <3>2. L \in 1 .. L
      <4> HIDE DEF L
      <4> QED
        BY <2>3, <2>5
    <3> QED
      BY <1>0, <3>1, <3>2, AtFirst
  <2>7. Ended(T, p)
    <3>1. Scan(T, p).kind = "symbol" => Scan(T, p).value = <<T[p]>>
      BY <1>0, <2>6, ScanRange
    <3>2. <<T[p]>> = <<";">>
      BY <2>2, <2>6, <3>1
    <3> QED
      BY <3>2 DEF Ended
  <2>8. PICK m : Prefix(T, n, m, p)
    <3>1. T[1] \notin Blanks
      <4>1. Len(T) \in Nat
        BY <1>0, TextIs
      <4> HIDE DEF p
      <4> QED
        BY <1>0, <2>6, <4>1
    <3> HIDE DEF p
    <3> QED
      BY <1>0, <2>6, <3>1, PrefixOf
  <2> HIDE DEF n
  <2>9. n \in Text /\ m \in Nat
    <3>1. n \in Text /\ m \in 0 .. p - 1
      BY <2>8 DEF Prefix
    <3> QED
      BY <3>1
  <2> DEFINE F == Tokens(n)
  <2>10. Len(F) = L - 1 /\ \A k \in 1 .. L - 1 : F[k] = K[(1 + k) - 1]
    <3>1. p = Tokens(T)[L].start /\ L = Len(Tokens(T)) /\ Terminated(Tokens(T))
      BY <1>0
    <3> HIDE DEF p, L, K
    <3>2. BeforeLast(T, n, m, L)
      BY <1>0, <2>5, <2>7, <2>8, <2>9, <3>1, PrefixTokens
    <3>3. 1 \in 1 .. m + 1 /\ 1 \in 1 .. L
      BY <2>3, <2>5, <2>9
    <3>4. /\ Len(TokensFrom(n, 1)) = L - 1
          /\ \A k \in 1 .. L - 1 : TokensFrom(n, 1)[k] = Tokens(T)[(1 + k) - 1]
      BY <2>6, <3>2, <3>3 DEF BeforeLast
    <3> QED
      BY <3>4 DEF Tokens, K
  <2>11. F \in Seq({Scan(n, j) : j \in 1 .. Len(n)})
    <3>1. Len(n) \in Nat
      BY <2>9, TextIs
    <3>2. 1 \in 1 .. Len(n) + 1
      BY <3>1
    <3> QED
      BY <2>9, <3>2, TokensFromTyped DEF Tokens
  <2> DEFINE Y == {Scan(n, j) : j \in 1 .. Len(n)}
             G == SubSeq(K, 1, L - 1)
  <2>12. F \in Seq(Y)
    BY <2>11
  <2> HIDE DEF F, Y, K, L, p
  <2>13. G \in Seq(X) /\ Len(G) = L - 1 /\ \A k \in 1 .. L - 1 : G[k] = K[k]
    <3>0. L \in Nat /\ Len(K) = L
      BY <2>3 DEF L
    <3>1. /\ L - 1 \in Int /\ L - 1 - 1 + 1 = L - 1 /\ (1 <= L - 1 \/ L - 1 = 0)
          /\ \A k \in 1 .. L - 1 : 1 + k - 1 = k /\ k \in 1 .. Len(K)
      BY <2>5, <3>0
    <3>3. \A k \in 1 .. L - 1 : K[k] \in X
      BY <2>4, <3>1, ElementOfSeq
    <3>2. /\ G \in Seq(X) /\ Len(G) = IF 1 <= L - 1 THEN L - 1 - 1 + 1 ELSE 0
          /\ \A k \in 1 .. L - 1 - 1 + 1 : G[k] = K[1 + k - 1]
      BY <3>1, <3>3, SubSeqProperties
    <3> QED
      BY <3>1, <3>2
  <2> HIDE DEF G
  <2>14. \A k \in 1 .. L - 1 : F[k] = G[k] /\ F[k] = K[k] /\ k \in 1 .. L
    <3>1. \A k \in 1 .. L - 1 : (1 + k) - 1 = k /\ k \in 1 .. L
      BY <2>3
    <3> QED
      BY <2>10, <2>13, <3>1
  <2>15. F = G
    <3>1. F \in Seq(X \cup Y) /\ G \in Seq(X \cup Y)
      BY <2>12, <2>13
    <3> QED
      BY <2>10, <2>13, <2>14, <3>1, SeqEqual
  <2>16. Terminated(F)
    <3>1. DOMAIN F = 1 .. L - 1 /\ DOMAIN K = 1 .. L
      BY <2>4, <2>10, <2>12, LenProperties DEF L
    <3> QED
      BY <1>0, <2>14, <3>1 DEF Terminated
  <2> QED
    BY <2>1, <2>9, <2>15, <2>16 DEF F, G
<1> QED
  BY <1>1, <1>2

(* What follows the opening of the select may be put after it. *)
LEMMA OpeningIs ==
  ASSUME NEW K, NEW x \in Seq(Items(K))
  PROVE  Opening(<<>>) \in Seq(Items(K)) /\ Opening(x) = Opening(<<>>) \o x
<1> DEFINE T == Items(K)
           a == <<Pair("identifier", <<"select">>)>>
           b == <<Pair("symbol", <<"*">>)>>
           c == <<Pair("identifier", <<"from">>)>>
           d == <<Pair("symbol", <<"(">>)>>
<1>1. a \in Seq(T) /\ b \in Seq(T) /\ c \in Seq(T) /\ d \in Seq(T)
  <2>1. /\ Pair("identifier", <<"select">>) \in T /\ Pair("identifier", <<"from">>) \in T
        /\ Pair("symbol", <<"*">>) \in T /\ Pair("symbol", <<"(">>) \in T
    BY DEF Items
  <2> HIDE DEF T
  <2> QED
    BY <2>1
<1>2. \A y : Opening(y) = a \o (b \o (c \o (d \o y)))
  BY DEF Opening
<1> HIDE DEF T, a, b, c, d
<1>3. x \in Seq(T) /\ <<>> \in Seq(T)
  BY EmptySeq DEF T
<1>4. d \o <<>> = d
  BY <1>1, ConcatEmptySeq
<1>5. \A y, z \in Seq(T) : y \o z \in Seq(T)
  BY ConcatProperties
<1>6. \A y, z, w \in Seq(T) : (y \o z) \o w = y \o (z \o w)
  BY ConcatAssociative
<1>7. c \o d \in Seq(T) /\ c \o (d \o x) = (c \o d) \o x
  <2>1. c \in Seq(T) /\ d \in Seq(T) /\ x \in Seq(T)
    BY <1>1, <1>3
  <2>2. c \o d \in Seq(T)
    BY <1>5, <2>1, Zenon
  <2>3. (c \o d) \o x = c \o (d \o x)
    BY <1>6, <2>1, Zenon
  <2> QED
    BY <2>2, <2>3
<1> DEFINE e == c \o d
<1>8. e \in Seq(T)
  BY <1>7
<1> HIDE DEF e
<1>9. b \o e \in Seq(T) /\ b \o (e \o x) = (b \o e) \o x
  <2>1. b \in Seq(T) /\ e \in Seq(T) /\ x \in Seq(T)
    BY <1>1, <1>3, <1>8
  <2>2. b \o e \in Seq(T)
    BY <1>5, <2>1, Zenon
  <2>3. (b \o e) \o x = b \o (e \o x)
    BY <1>6, <2>1, Zenon
  <2> QED
    BY <2>2, <2>3
<1> DEFINE f == b \o e
<1>10. f \in Seq(T)
  BY <1>9
<1> HIDE DEF f
<1>11. a \o f \in Seq(T) /\ a \o (f \o x) = (a \o f) \o x
  <2>1. a \in Seq(T) /\ f \in Seq(T) /\ x \in Seq(T)
    BY <1>1, <1>3, <1>10
  <2>2. a \o f \in Seq(T)
    BY <1>5, <2>1, Zenon
  <2>3. (a \o f) \o x = a \o (f \o x)
    BY <1>6, <2>1, Zenon
  <2> QED
    BY <2>2, <2>3
<1>12. Opening(<<>>) = a \o f
  BY <1>2, <1>4 DEF e, f
<1>13. Opening(x) = a \o (f \o x)
  BY <1>2, <1>7, <1>9 DEF e, f
<1> QED
  BY <1>11, <1>12, <1>13 DEF T

(* The tokens of the statement are those of the text with the names of the *)
(* views for the references, in the wrapping select.                       *)
LEMMA WrappedTokens ==
  ASSUME NEW t \in Text, Terminated(Tokens(t)), ~ Touching(t), ~ OpenComment(t)
  PROVE  Bare(Tokens(Wrapped(Rewritten(t))))
           = Bare(Tokens(<<"select", "*", "from", "(">>)) \o Substituted(Tokens(t))
               \o Bare(Tokens(<<")", "x">>))
<1> DEFINE K == Tokens(t)
           R == RewrittenFrom(t, 1)
           A == <<"select", "*", "from", "(">>
           Z == <<")", "x">>
           X == A \o R \o Z
           s == SubstitutedFrom(K, 1)
<1>0. Len(t) \in Nat /\ Len(K) \in Nat /\ At(t, 1, 1)
  BY TextIs, AtFirst
<1>1. 1 \in 1 .. Len(t) + 1 /\ 1 \in 1 .. Len(K) + 1
  BY <1>0
<1>2. R \in Text
  BY <1>1, BoundOf
<1>3. /\ A \in Text /\ Len(A) = 4 /\ A[1] = "select" /\ A[2] = "*" /\ A[3] = "from" /\ A[4] = "("
      /\ Z \in Text /\ Len(Z) = 2 /\ Z[1] = ")" /\ Z[2] = "x"
  <2>1. "select" \in Sym /\ "*" \in Sym /\ "from" \in Sym /\ "(" \in Sym /\ ")" \in Sym /\ "x" \in Sym
    BY DEF Sym
  <2> QED
    BY <2>1 DEF Text
<1>4. Wrapped(Rewritten(t)) = X
  BY DEF Wrapped, Rewritten
<1> HIDE DEF R, A, Z
<1>5. /\ X \in Text /\ Len(X) = (Len(A) + Len(R)) + Len(Z)
      /\ \A k \in 1 .. Len(A) : X[k] = A[k]
      /\ \A k \in 1 .. Len(R) : X[Len(A) + k] = R[k]
      /\ \A k \in 1 .. Len(Z) : X[(Len(A) + Len(R)) + k] = Z[k]
  BY ZenonT(60), <1>2, <1>3, ThreeIs
<1> HIDE DEF X
<1>6. Len(R) \in Nat
  BY <1>2, TextIs
<1>7. /\ 1 \in 1 .. Len(A) /\ 2 \in 1 .. Len(A) /\ 3 \in 1 .. Len(A) /\ 4 \in 1 .. Len(A)
      /\ 1 \in 1 .. Len(Z) /\ 2 \in 1 .. Len(Z)
  BY <1>3
<1>8. X[1] = "select" /\ X[2] = "*" /\ X[3] = "from" /\ X[4] = "("
  BY <1>3, <1>5, <1>7
<1>9. Follows(X, 4, R, 1)
  <2>1. /\ 1 + 4 >= 1 /\ 1 <= Len(R) + 1 /\ Len(X) = (Len(R) + 4) + 2
        /\ \A k \in 1 .. Len(R) : k + 4 = Len(A) + k
        /\ (Len(R) + 4) + 1 = (Len(A) + Len(R)) + 1 /\ (Len(R) + 4) + 2 = (Len(A) + Len(R)) + 2
    BY <1>3, <1>5, <1>6
  <2>2. \A k \in 1 .. Len(R) : X[k + 4] = R[k]
    BY <1>5, <2>1
  <2>3. X[(Len(R) + 4) + 1] = ")" /\ X[(Len(R) + 4) + 2] = "x"
    BY <1>3, <1>5, <1>7, <2>1
  <2> QED
    BY <2>1, <2>2, <2>3 DEF Follows
<1>10. Good(t, 1)
  BY DEF OpenComment, Tokens, Good
<1>11. Bare(TokensFrom(X, 5)) = s \o Closing
  <2>1. Follows(X, 4, RewrittenFrom(t, 1), 1)
    BY <1>9 DEF R
  <2>2. 4 \in Int /\ 1 + 4 = 5
    OBVIOUS
  <2>3. \A q \in 1 .. Len(t) + 1 : \A i \in 1 .. Len(Tokens(t)) + 1 : \A u \in Text : \A d \in Int :
           At(t, i, q) /\ Good(t, q) /\ Follows(u, d, RewrittenFrom(t, i), q) =>
             Bare(TokensFrom(u, q + d)) = SubstitutedFrom(Tokens(t), i) \o Closing
    BY TokensFollow
  <2>4. Bare(TokensFrom(X, 1 + 4)) = SubstitutedFrom(Tokens(t), 1) \o Closing
    BY <1>0, <1>1, <1>5, <1>10, <2>1, <2>2, <2>3
  <2> QED
    BY <2>2, <2>4
<1>12. Bare(Tokens(X)) = Opening(s \o Closing)
  <2>1. Len(X) >= 4
    BY <1>3, <1>5, <1>6
  <2>2. Bare(Tokens(X)) = Opening(Bare(TokensFrom(X, 5)))
    BY <1>5, <1>8, <2>1, OpeningBare
  <2> QED
    BY <1>11, <2>2
<1>13. Bare(Tokens(A)) = Opening(<<>>)
  <2>1. Len(A) >= 4 /\ Len(A) + 1 = 5
    BY <1>3
  <2>2. Bare(Tokens(A)) = Opening(Bare(TokensFrom(A, 5)))
    BY <1>3, <2>1, OpeningBare
  <2>3. TokensFrom(A, Len(A) + 1) = <<>>
    BY <1>3, FromEnd
  <2> QED
    BY <2>1, <2>2, <2>3, BareEmpty
<1>14. Bare(Tokens(Z)) = Closing
  <2>1. 1 \in 1 .. Len(Z) /\ 1 + 1 = Len(Z) /\ Z[1 + 1] = "x"
    BY <1>3
  <2>2. Bare(TokensFrom(Z, 1)) = Closing
    BY <1>3, <2>1, ClosingBare
  <2> QED
    BY <2>2 DEF Tokens
<1> DEFINE T == Items(K)
           c == Closing
<1>15. s \in Seq(T) /\ c \in Seq(T)
  BY <1>0, <1>1, SubstitutedTyped, ClosingTyped
<1>16. Substituted(K) = s
  BY DEF Substituted
<1> HIDE DEF s, K, c
<1>17. s \o c \in Seq(Items(K))
  BY <1>15, ConcatProperties
<1> DEFINE y == s \o c
<1> HIDE DEF y
<1>18. y \in Seq(Items(K))
  BY <1>17 DEF y
<1>19. Opening(<<>>) \in Seq(T) /\ Opening(y) = Opening(<<>>) \o y
  BY <1>18, OpeningIs
<1> DEFINE o == Opening(<<>>)
<1> HIDE DEF o, T
<1>20. o \o (s \o c) = (o \o s) \o c
  <2>1. o \in Seq(T)
    BY <1>19 DEF o
  <2> QED
    BY SMTT(40), <1>15, <2>1, ConcatAssociative
<1> QED
  BY <1>4, <1>12, <1>13, <1>14, <1>16, <1>19, <1>20 DEF o, y, c, A, Z, K

(* Of every text that is accepted, what was checked is what is executed. *)
THEOREM Executed == ExecutedAsChecked
<1> SUFFICES ASSUME NEW t \in Texts, Accepted(t), ~ OpenComment(Normalized(t)), ~ Touching(Normalized(t))
             PROVE  Bare(Tokens(Wrapped(Rewritten(Normalized(t)))))
                      = Bare(Tokens(<<"select", "*", "from", "(">>)) \o Substituted(Checked(t))
                          \o Bare(Tokens(<<")", "x">>))
  BY DEF ExecutedAsChecked
<1>1. t \in Text
  BY TextsTyped
<1>2. Terminated(Tokens(Strip(t)))
  BY DEF Accepted
<1> DEFINE n == Normalized(t)
<1>3. n \in Text /\ Tokens(n) = Checked(t) /\ Terminated(Tokens(n))
  BY <1>1, <1>2, CheckedIs
<1>4. ~ OpenComment(n) /\ ~ Touching(n)
  OBVIOUS
<1> HIDE DEF n
<1>5. Bare(Tokens(Wrapped(Rewritten(n))))
        = Bare(Tokens(<<"select", "*", "from", "(">>)) \o Substituted(Tokens(n))
            \o Bare(Tokens(<<")", "x">>))
  BY <1>3, <1>4, WrappedTokens
<1> QED
  BY <1>3, <1>5 DEF n

(* Whatever texts clients send: the statement that runs has the tokens     *)
(* _validate_sql accepted, in the wrapping select, with the name of a view *)
(* for each source('src_...') and with strings and comments left alone.    *)
THEOREM AsChecked == Spec => []QueriesAsChecked
<1>1. QueriesAsChecked
  BY Executed DEF QueriesAsChecked
<1> QED
  BY <1>1, PTL
=============================================================================
