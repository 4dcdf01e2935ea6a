------------------------------ MODULE Queries -------------------------------
(***************************************************************************)
(* query_data: QueryService.execute of services/query.py.  The query's own *)
(* thread runs a few statements on a DuckDB connection; timer threads and, *)
(* while a spill is written, a watchdog interrupt the connection from the  *)
(* side.  The result goes into a bounded preview and, when that is not all *)
(* of it, into a Parquet artifact; an execution record ends the query.     *)
(*                                                                         *)
(* query_data holds the session's operation lock around this; the service  *)
(* is modelled without it, since the contract promises the quota to        *)
(* concurrent spills and the registry has a lock of its own for that.      *)
(*                                                                         *)
(* The queries read one registered source.  What is abstracted of a result *)
(* is its number of rows, whether its cells and columns fit the preview,   *)
(* and the bytes it takes as Parquet.                                      *)
(***************************************************************************)
EXTENDS Integers, ByteSums

CONSTANTS
  Queries,
  RowLimit,        \* rows of a preview
  SpillRows,       \* max_spill_rows
  MaxFileBytes, MaxTotalBytes,    \* quotas of the artifact registry
  MaxRows, MaxBytes,  \* bounds: result rows, Parquet bytes
  MaxEdits,        \* bound: edits of the source, bytes by which files of other calls grow
  MaxCalls,        \* bound: registrations of other calls
  NoRecord,
  Faults           \* "edit": the source, or a file of another call, changes.  "bind": the reader
                   \* rejects the source.  "add": an add raises, its record published or not.

ASSUME QueryConstants ==
  /\ {RowLimit, SpillRows, MaxBytes} \subseteq Nat \ {0}
  /\ {MaxFileBytes, MaxTotalBytes, MaxRows, MaxEdits, MaxCalls} \subseteq Nat
  /\ Faults \subseteq {"edit", "bind", "add"}

VARIABLES
  pc,        \* where the query's thread stands
  stmt,      \* the connection: "idle", "running" or "hit" by an interrupt
  timer,     \* the timer of the statement: "off", "armed", "firing", "fired"
  late,      \* timers cancelled too late, whose interrupt is still to come
  watch,     \* the watchdog: "off", "on", "firing"; over_limit is set when it fires
  over,
  source,    \* version of the source file; the one registered is 0
  checked,   \* version fingerprinted by the query
  result,    \* [rows, wide, bytes, data]: data is the version read
  file,      \* bytes of the spill file on disk, 0 when there is none
  ceiling,   \* byte_ceiling of the watchdog
  failure,   \* status to be recorded for a failed query
  arts,      \* artifacts registered: [query, rows, bytes]
  lock,      \* the registry's lock of the session: "free", or held by a "query" or by "others"
  others,    \* bytes of the artifacts other calls registered in the session
  admitted,  \* bytes another call compared with the budget and has not copied yet
  grown,     \* bytes by which files of other calls grew between the comparison and the copy
  calls,     \* registrations other calls began
  recs       \* execution record of each query, or NoRecord

clocks == <<timer, late, watch, over>>
locals == <<checked, result, file, ceiling, failure>>
traffic == <<others, admitted, grown, calls>>
shared == <<source, lock, traffic>>
vars == <<pc, stmt, clocks, shared, locals, arts, recs>>

Lesser(a, b) == IF a <= b THEN a ELSE b
Greater(a, b) == IF a <= b THEN b ELSE a

Result == [rows : 0 .. MaxRows, wide : BOOLEAN, bytes : 1 .. MaxBytes, data : 0 .. MaxEdits]
Artifact == [query : Queries, rows : 0 .. SpillRows + 1, bytes : 1 .. MaxBytes]
Record == [status : {"succeeded", "failed", "timed_out"}, source : 0 .. MaxEdits,
           rows : 0 .. RowLimit, truncated : BOOLEAN, arts : SUBSET Artifact,
           spillTruncated : BOOLEAN]

ASSUME NoValue == NoRecord \notin Record

Statements == {"materialize", "measure", "preview", "spill"}
Over == {"done", "raised", "refused", "unrecorded"}

TypeOK ==
  /\ pc \in [Queries -> {"new", "checked", "bound", "previewed", "copied", "sized",
                         "reserved", "recording", "failing"} \cup Statements \cup Over]
  /\ stmt \in [Queries -> {"idle", "running", "hit"}]
  /\ timer \in [Queries -> {"off", "armed", "firing", "fired"}]
  /\ late \in [Queries -> 0 .. 3]
  /\ watch \in [Queries -> {"off", "on", "firing"}]
  /\ over \in [Queries -> BOOLEAN]
  /\ source \in 0 .. MaxEdits
  /\ checked \in [Queries -> 0 .. MaxEdits]
  /\ result \in [Queries -> Result]
  /\ file \in [Queries -> 0 .. MaxBytes]
  /\ ceiling \in [Queries -> 0 .. MaxFileBytes]
  /\ failure \in [Queries -> {"failed", "timed_out"}]
  /\ arts \subseteq Artifact
  /\ lock \in {"free", "query", "others"}
  /\ others \in 0 .. MaxTotalBytes + MaxEdits
  /\ admitted \in 0 .. MaxTotalBytes
  /\ grown \in 0 .. MaxEdits
  /\ calls \in 0 .. MaxCalls
  /\ recs \in [Queries -> Record \cup {NoRecord}]

Init ==
  /\ pc = [q \in Queries |-> "new"]
  /\ stmt = [q \in Queries |-> "idle"]
  /\ timer = [q \in Queries |-> "off"]
  /\ late = [q \in Queries |-> 0]
  /\ watch = [q \in Queries |-> "off"]
  /\ over = [q \in Queries |-> FALSE]
  /\ source = 0
  /\ checked = [q \in Queries |-> 0]
  /\ result = [q \in Queries |-> [rows |-> 0, wide |-> FALSE, bytes |-> 1, data |-> 0]]
  /\ file = [q \in Queries |-> 0]
  /\ ceiling = [q \in Queries |-> 0]
  /\ failure = [q \in Queries |-> "failed"]
  /\ arts = {}
  /\ lock = "free"
  /\ others = 0
  /\ admitted = 0
  /\ grown = 0
  /\ calls = 0
  /\ recs = [q \in Queries |-> NoRecord]

Goto(q, to) == pc' = [pc EXCEPT ![q] = to]

SessionBytes == others + Bytes([a \in arts |-> a.bytes])
Remaining == Greater(0, MaxTotalBytes - SessionBytes)

(* CREATE TEMP TABLE ... LIMIT spill_cap + 1. *)
Materialized(q) == Lesser(result[q].rows, SpillRows + 1)

(* A faulty variant of PreviewRows: all rows are fetched. *)
PreviewRowsAll(q) == Materialized(q)

PreviewRows(q) == Lesser(Materialized(q), RowLimit)

(* A faulty variant of Truncated: what the preview cut is not considered. *)
TruncatedByRows(q) == Materialized(q) > RowLimit

Truncated(q) == Materialized(q) > RowLimit \/ result[q].wide

ArtsOf(q) == {a \in arts : a.query = q}

(* The artifact register_file makes of the spill file. *)
Spill(q) == [query |-> q, rows |-> Materialized(q), bytes |-> file[q]]

(* The records of a query that succeeded and of one that failed. *)
Success(q) ==
  [status |-> "succeeded", source |-> checked[q], rows |-> PreviewRows(q),
   truncated |-> Truncated(q), arts |-> ArtsOf(q),
   spillTruncated |-> Truncated(q) /\ Materialized(q) > SpillRows]

Failure(q) ==
  [status |-> failure[q], source |-> checked[q], rows |-> 0, truncated |-> FALSE,
   arts |-> {}, spillTruncated |-> FALSE]

-----------------------------------------------------------------------------
(* Faulty variants put in place of the definitions below by mutation runs. *)

(* The budget is compared before the registry's lock is taken. *)
ReserveEarly(q) ==
  /\ pc[q] = "sized"
  /\ IF file[q] <= MaxFileBytes /\ SessionBytes + file[q] <= MaxTotalBytes
     THEN Goto(q, "reserved") ELSE Goto(q, "failing")
  /\ UNCHANGED <<stmt, clocks, shared, locals, arts, recs>>

(* The partial file of a failed spill is left on disk. *)
RecordFailureKeepsFile(q) ==
  /\ pc[q] = "failing"
  /\ Goto(q, "raised")
  /\ recs' = [recs EXCEPT ![q] = Failure(q)]
  /\ UNCHANGED <<stmt, clocks, shared, locals, arts>>

(* The preview is streamed without a timer. *)
BeginUntimed(q, stage) ==
  /\ Goto(q, stage)
  /\ stmt' = [stmt EXCEPT ![q] = "running"]
  /\ late' = [late EXCEPT ![q] = @ + IF timer[q] = "firing" THEN 1 ELSE 0]
  /\ timer' = [timer EXCEPT ![q] = IF stage = "materialize" THEN "armed" ELSE "off"]
  /\ watch' = [watch EXCEPT ![q] = IF stage = "spill" THEN "on" ELSE "off"]
  /\ over' = [over EXCEPT ![q] = FALSE]

-----------------------------------------------------------------------------
(* A statement starts with a timer of its own, the counting and describing *)
(* of the result table excepted; the spill has a watchdog as well.         *)
Begin(q, stage) ==
  /\ Goto(q, stage)
  /\ stmt' = [stmt EXCEPT ![q] = "running"]
  /\ late' = [late EXCEPT ![q] = @ + IF timer[q] = "firing" THEN 1 ELSE 0]
  /\ timer' = [timer EXCEPT ![q] = IF stage = "measure" THEN "off" ELSE "armed"]
  /\ watch' = [watch EXCEPT ![q] = IF stage = "spill" THEN "on" ELSE "off"]
  /\ over' = [over EXCEPT ![q] = FALSE]

(* A statement is over: its timer is cancelled and the watchdog stopped. *)
End(q, to) ==
  /\ Goto(q, to)
  /\ stmt' = [stmt EXCEPT ![q] = "idle"]
  /\ late' = [late EXCEPT ![q] = @ + IF timer[q] = "firing" THEN 1 ELSE 0]
  /\ timer' = [timer EXCEPT ![q] = "off"]
  /\ watch' = [watch EXCEPT ![q] = "off"]
  /\ over' = [over EXCEPT ![q] = FALSE]

(* Everything before the connection: a changed source is rejected. *)
Check(q) ==
  /\ pc[q] = "new"
  /\ IF source = 0 THEN Goto(q, "checked") ELSE Goto(q, "refused")
  /\ checked' = [checked EXCEPT ![q] = source]
  /\ UNCHANGED <<stmt, clocks, shared, result, file, ceiling, failure, arts, recs>>

(* CREATE TEMP VIEW: the reader binds to the file.  What it raises is not  *)
(* recorded.                                                               *)
Bind(q) ==
  /\ pc[q] = "checked"
  /\ \/ Goto(q, "bound")
     \/ "bind" \in Faults /\ Goto(q, "refused")
  /\ UNCHANGED <<stmt, clocks, shared, locals, arts, recs>>

StartMaterialize(q) ==
  /\ pc[q] = "bound" /\ Begin(q, "materialize")
  /\ UNCHANGED <<shared, locals, arts, recs>>

(* The file is read by now, in the version it has by now. *)
MaterializeEnds(q) ==
  /\ pc[q] = "materialize" /\ Begin(q, "measure")
  /\ \E r \in Result : r.data = source /\ result' = [result EXCEPT ![q] = r]
  /\ UNCHANGED <<shared, checked, file, ceiling, failure, arts, recs>>

MeasureEnds(q) ==
  /\ pc[q] = "measure" /\ Begin(q, "preview")
  /\ UNCHANGED <<shared, locals, arts, recs>>

PreviewEnds(q) ==
  /\ pc[q] = "preview" /\ End(q, IF Truncated(q) THEN "previewed" ELSE "recording")
  /\ UNCHANGED <<shared, locals, arts, recs>>

(* COPY starts, under the smaller of the file's and the session's budget. *)
StartSpill(q) ==
  /\ pc[q] = "previewed" /\ Begin(q, "spill")
  /\ ceiling' = [ceiling EXCEPT ![q] = Lesser(MaxFileBytes, Remaining)]
  /\ UNCHANGED <<shared, checked, result, file, failure, arts, recs>>

SpillGrows(q) ==
  /\ pc[q] = "spill" /\ file[q] < result[q].bytes
  /\ file' = [file EXCEPT ![q] = @ + 1]
  /\ UNCHANGED <<pc, stmt, clocks, shared, checked, result, ceiling, failure, arts, recs>>

SpillEnds(q) ==
  /\ pc[q] = "spill" /\ file[q] = result[q].bytes
  /\ End(q, "copied")
  /\ UNCHANGED <<shared, locals, arts, recs>>

(* A statement raises: it was interrupted, or it has an error of its own. *)
StatementFails(q) ==
  /\ pc[q] \in Statements
  /\ failure' = [failure EXCEPT ![q] =
       IF ~ over[q] /\ timer[q] \in {"firing", "fired"} THEN "timed_out" ELSE "failed"]
  /\ End(q, "failing")
  /\ UNCHANGED <<shared, checked, result, file, ceiling, arts, recs>>

(* The exact check after the spill. *)
SpillChecked(q) ==
  /\ pc[q] = "copied"
  /\ Goto(q, IF file[q] > ceiling[q] THEN "failing" ELSE "sized")
  /\ failure' = [failure EXCEPT ![q] = "failed"]
  /\ UNCHANGED <<stmt, clocks, shared, checked, result, file, ceiling, arts, recs>>

(* register_file: the budget is compared under the registry's lock, which  *)
(* is kept until the artifact is added.                                    *)
Reserve(q) ==
  /\ pc[q] = "sized" /\ lock = "free"
  /\ IF file[q] <= MaxFileBytes /\ SessionBytes + file[q] <= MaxTotalBytes
     THEN Goto(q, "reserved") /\ lock' = "query"
     ELSE Goto(q, "failing") /\ UNCHANGED lock
  /\ UNCHANGED <<stmt, clocks, source, traffic, locals, arts, recs>>

Register(q) ==
  /\ pc[q] = "reserved" /\ Goto(q, "recording")
  /\ arts' = arts \cup {Spill(q)}
  /\ lock' = "free"
  /\ UNCHANGED <<stmt, clocks, source, traffic, locals, recs>>

RecordSuccess(q) ==
  /\ pc[q] = "recording" /\ Goto(q, "done")
  /\ recs' = [recs EXCEPT ![q] = Success(q)]
  /\ UNCHANGED <<stmt, clocks, shared, locals, arts>>

(* The partial spill is dropped and the failure recorded. *)
RecordFailure(q) ==
  /\ pc[q] = "failing" /\ Goto(q, "raised")
  /\ file' = [file EXCEPT ![q] = 0]
  /\ recs' = [recs EXCEPT ![q] = Failure(q)]
  /\ UNCHANGED <<stmt, clocks, shared, checked, result, ceiling, failure, arts>>

(* The add of the artifact or of a record raises, before it publishes or   *)
(* after.                                                                  *)
AddFails(q) ==
  /\ "add" \in Faults /\ Goto(q, "unrecorded")
  /\ \/ /\ pc[q] = "reserved"
        /\ arts' \in {arts, arts \cup {Spill(q)}}
        /\ lock' = "free"
        /\ UNCHANGED <<file, recs>>
     \/ /\ pc[q] = "recording"
        /\ recs' \in {recs, [recs EXCEPT ![q] = Success(q)]}
        /\ UNCHANGED <<file, arts, lock>>
     \/ /\ pc[q] = "failing"
        /\ file' = [file EXCEPT ![q] = 0]
        /\ recs' \in {recs, [recs EXCEPT ![q] = Failure(q)]}
        /\ UNCHANGED <<arts, lock>>
  /\ UNCHANGED <<stmt, clocks, source, traffic, checked, result, ceiling, failure>>

-----------------------------------------------------------------------------
Interrupt(q) == stmt' = [stmt EXCEPT ![q] = IF @ = "running" THEN "hit" ELSE @]

(* The timer thread: the event is set, then the connection interrupted. *)
TimerFires(q) ==
  /\ timer[q] = "armed"
  /\ timer' = [timer EXCEPT ![q] = "firing"]
  /\ UNCHANGED <<pc, stmt, late, watch, over, shared, locals, arts, recs>>

TimerInterrupts(q) ==
  /\ timer[q] = "firing" /\ Interrupt(q)
  /\ timer' = [timer EXCEPT ![q] = "fired"]
  /\ UNCHANGED <<pc, late, watch, over, shared, locals, arts, recs>>

(* The timer of an earlier statement interrupts the current one. *)
LateInterrupt(q) ==
  /\ late[q] > 0 /\ Interrupt(q)
  /\ late' = [late EXCEPT ![q] = @ - 1]
  /\ UNCHANGED <<pc, timer, watch, over, shared, locals, arts, recs>>

WatchSees(q) ==
  /\ watch[q] = "on" /\ file[q] > ceiling[q]
  /\ watch' = [watch EXCEPT ![q] = "firing"]
  /\ over' = [over EXCEPT ![q] = TRUE]
  /\ UNCHANGED <<pc, stmt, timer, late, shared, locals, arts, recs>>

WatchInterrupts(q) ==
  /\ watch[q] = "firing" /\ Interrupt(q)
  /\ watch' = [watch EXCEPT ![q] = "off"]
  /\ UNCHANGED <<pc, timer, late, over, shared, locals, arts, recs>>

SourceEdited ==
  /\ "edit" \in Faults /\ source < MaxEdits
  /\ source' = source + 1
  /\ UNCHANGED <<pc, stmt, clocks, lock, traffic, locals, arts, recs>>

(* Queries and executions of other calls compare the budget with the sizes *)
(* their files had and register the sizes of the copies, file by file, all *)
(* of it under the lock.                                                   *)
OthersReserve ==
  /\ lock = "free" /\ calls < MaxCalls
  /\ \E b \in 1 .. MaxTotalBytes : SessionBytes + b <= MaxTotalBytes /\ admitted' = b
  /\ lock' = "others"
  /\ calls' = calls + 1
  /\ UNCHANGED <<pc, stmt, clocks, source, others, grown, locals, arts, recs>>

OthersCopy ==
  /\ lock = "others"
  /\ \E b \in 0 .. admitted, g \in 0 .. 1 :
       /\ b + g > 0
       /\ g > 0 => "edit" \in Faults /\ grown < MaxEdits
       /\ others' = others + b + g
       /\ admitted' = admitted - b
       /\ grown' = grown + g
  /\ UNCHANGED <<pc, stmt, clocks, source, lock, calls, locals, arts, recs>>

(* All files are registered, or what is left of them raises. *)
OthersRelease ==
  /\ lock = "others"
  /\ lock' = "free"
  /\ admitted' = 0
  /\ UNCHANGED <<pc, stmt, clocks, source, others, grown, calls, locals, arts, recs>>

-----------------------------------------------------------------------------
(* Steps of the query's thread between statements. *)
Proceed(q) ==
  \/ Check(q) \/ Bind(q) \/ StartMaterialize(q) \/ StartSpill(q) \/ SpillChecked(q)
  \/ Reserve(q) \/ Register(q) \/ RecordSuccess(q) \/ RecordFailure(q)

(* Ends of statements. *)
StatementEnds(q) ==
  \/ MaterializeEnds(q) \/ MeasureEnds(q) \/ PreviewEnds(q) \/ SpillEnds(q) \/ StatementFails(q)

Timers(q) == TimerFires(q) \/ TimerInterrupts(q)

Next ==
  \/ \E q \in Queries :
       \/ Proceed(q) \/ StatementEnds(q) \/ SpillGrows(q) \/ AddFails(q)
       \/ Timers(q) \/ LateInterrupt(q) \/ WatchSees(q) \/ WatchInterrupts(q)
  \/ SourceEdited
  \/ OthersReserve \/ OthersCopy \/ OthersRelease

Spec == Init /\ [][Next]_vars

(* The thread goes on between statements, time passes for timers, and an   *)
(* interrupted statement ends, as counting a table that is there does; who *)
(* holds the registry's lock gives it back, and there are MaxCalls others. *)
(* Nothing else is assumed of the statements, which may run for ever.      *)
FairSpec ==
  /\ Spec
  /\ WF_vars(OthersRelease)
  /\ \A q \in Queries :
       /\ WF_vars(Proceed(q))
       /\ WF_vars(Timers(q))
       /\ WF_vars((stmt[q] = "hit" \/ pc[q] = "measure") /\ StatementEnds(q))

-----------------------------------------------------------------------------
(* mcp-tools.md: concurrent spills cannot jointly exceed the session quota *)
(* whoever compares it, copies and registers between which steps of whom.  *)
(* What the files of an execution grow by while they are copied comes on   *)
(* top: it was not compared.                                               *)
QuotaHeld == SessionBytes <= MaxTotalBytes + grown

(* When a query returned or failed, there is a record of it, whichever     *)
(* statement was interrupted when.  If there is a record, a spill file is  *)
(* on disk exactly if its artifact is registered, and only the record of a *)
(* success names it.  The file of an artifact stays, with its bytes,       *)
(* whatever fails after.                                                   *)
QueriesAccounted ==
  /\ \A q \in Queries :
       /\ pc[q] \in {"done", "raised"} => recs[q] # NoRecord
       /\ recs[q] # NoRecord =>
            /\ recs[q].arts = ArtsOf(q)
            /\ file[q] > 0 <=> ArtsOf(q) # {}
            /\ ArtsOf(q) # {} => recs[q].status = "succeeded"
  /\ \A a \in arts : file[a.query] = a.bytes

(* FR-030: what a recorded result leaves out is told: a result that is not *)
(* truncated holds every row and cell, and the artifact of a truncated one *)
(* holds every row unless it says that it is truncated too.                *)
ResultWhole ==
  \A q \in Queries :
    recs[q] # NoRecord /\ recs[q].status = "succeeded" =>
      IF recs[q].truncated
      THEN \A a \in recs[q].arts : a.rows < result[q].rows => recs[q].spillTruncated
      ELSE recs[q].rows = result[q].rows /\ ~ result[q].wide

(* No statement of a query, however long, keeps it from ending.            *)
QueriesEnd == \A q \in Queries : <>(pc[q] \in Over)
=============================================================================
