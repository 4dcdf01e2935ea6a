# TLA+ models of agentic-analytics

The repository is an MCP server that gives an agent a session on a local
workspace: it registers source files, runs bounded SQL over them, runs managed
Python in a container, keeps an evidence ledger and validates an analysis.
Everything it knows is JSON records in a state directory which several server
processes, each with several threads, may share.

This directory models the parts whose correctness depends on order, failure or
shared state. Each module is written from the code in
`src/src/agentic_analytics` (paths below are relative to it); `PROJECT.json`
maps each definition to its lines.

## 1. The system

| Component | State it keeps | Operations | What makes it correct |
|---|---|---|---|
| record lock (`repositories/locking.py`) | a `threading.Lock` per path and process, a kernel lock on the file | `record_lock` | one holder over all threads of all processes; never lost when a holder raises or dies |
| sessions (`repositories/sessions.py`, `tools/data_plane.py`) | session records, `policy_lock`, an `operation_lock` per session | `create_session`, `close_session`, every tool body inside `sessions.active` | active sessions never share or nest a workspace, not even with the last operation of a closed one; a close drains; a status is terminal once |
| record store (`repositories/base.py` and its subclasses) | files under session and namespace | `add`, `update`, `get`, `list_all` | records appear whole and once, and survive what they should |
| managed execution (`services/execution.py`) | execution records | `execute_python` | each run is recorded, with exactly the artifacts it registered |
| artifact registry (`services/artifact_registry.py`) | artifact records, the archive | `snapshot_workspace`, `register_changes`, `register_file` | files belong to the run that wrote them, digests to the archived bytes, the session to its budget |
| query service (`services/query.py`) | a DuckDB connection per query, timers, a watchdog, a spill file | `execute` | results are whole or say that they are not; spill files, artifacts and records agree; every query ends |
| evidence ledger (`services/evidence_ledger.py`, `models/evidence.py`) | evidence items | `register`, `ensure_acyclic_evidence` | all evidence rests on facts, no cycles, the chain of a derived fact is real |
| validation (`services/validation.py`, `validators/core.py`) | findings, validation runs | `validate` | a validated run means what it says although files change under it |
| source inspector (`services/inspector.py`) | source records | `inspect` | a source is reused while its fingerprint is the same |
| docker and subprocess backends (`execution_backends`) | containers, processes, pipes and the threads that drain them | `execute`, `close_session` | code does not outlive its call, is not stopped by its own output; what is cut is told |
| container mounts (`docker.py`, `_mount_args`) | bind mounts of a container | `_mount_args` | whatever the code moves or links, sources and records stay; the rest stays writable |
| SQL tokenizer and rewriting (`services/sql_tokens.py`, `query.py`) | none | `tokenize_sql`, `_validate_sql`, rewriting | what was checked is what is executed |
| preview and sample (`services/preview.py`, `query.py`, `inspector.py`) | none | `_fetch_preview_bounded`, `_sample` | a budget of bytes is kept, and a cut is told |
| workspace service | none | pure functions | path authorization |
| server, runtime, settings, tools, record models | wiring | | |

**How they interact.** A tool call enters `sessions.active`, which takes the
session's operation lock, checks the status and holds the lock for the whole
body. Inside it the services read and add records, start containers and read or
write the workspace. `create_session` and `close_session` run under the policy
lock instead, and meet running operations through the operation locks: a close
waits for the one at work, a create waits for those of every overlapping closed
session. Files of the workspace are shared with the user, with managed code and
with code that outlived its call; the record files with other server processes.

**What is hard.** Interleavings of calls in several processes; a status checked
under one lock and changed under another; process deaths and power failures
between two writes; kills and cleanups that fail without being noticed; timers
and watchdogs that interrupt a later statement; budgets compared before and
after a write; registration that fails half way; files hashed, then read; and
validators that each look at another version of the same file. `PROJECT.json`
lists these hazards at their lines with the properties that cover them.

## 2. The modules

Abstract specifications: `Mutex` (what a lock promises), `WorkspaceLease` (what
sessions promise about workspaces), `RecordStore` (what the record store
promises), `EvidenceGraph` (what cycles and grounds are).

**`RecordLock`** (implements `Mutex`). One `record_lock` path. A thread asks,
takes the lock of its process, opens the file, takes the file lock, runs its body
and gives both back; opening the file or locking it may fail, and a crash of a
process frees what its threads held. `threadLock`, `fileLock` and `pc` are the
code's two locks and the position in the `with` statements.

**`Sessions`** (implements `WorkspaceLease`). Actors are threads of server
processes and run `create_session`, `close_session` or an operation, one lock,
read or write per step. The two kinds of `record_lock` are mutex variables
(`policy`, `oplock`), as `RecordLock` allows. `list_all` is read at once into
`todo`, since the code builds the list before it looks at it; the visits of
terminal sessions are then single steps. `jobs` holds the containers, with the
actor waiting for each, or none. Faults are chosen by a constant: `crash` (a
server process dies, its containers go on), `kill` (a timed-out container is not
ended), `cleanup` (`docker rm` removes nothing). Any call may raise at a lock, a
read or a write (`Abort`).

**`JsonRecords`** (implements `RecordStore`). Writers run `add` and `update` as
the code does: `mkdir`, temporary file, fsync, `link` or `rename`, unlink,
directory fsync. `dir` is what processes see, `disk` what a power failure leaves;
a file not yet fsynced reads as `Torn` after one. `placed` is the directory
itself: the code syncs it, but not the directories that its own name and its
session's go to, so a power failure may take it with all it held until the
operating system has written those names out, which it may do at any time as with
the records'. Fault `dirsync` is the swallowed `OSError` of the directory fsync
(and Windows, which has none).

**`ManagedRuns`**. `execute_python` calls of one session over a few files:
snapshot, launch, result, second snapshot with the limits, then hash, copy and
registration file by file, and the record; a setup that raises leaves no record,
and a file that has become a directory, or a link out of the workspace, is passed
over. Data is numbered by a clock; a file carries who wrote it. `escaped`
remembers runs whose code outlived the call. An add of an artifact or of a record
may raise before it publishes or after, when the directory cannot be opened to
sync it (`base.py:128`). `returned` is the list `register_changes` collects: a
success records it, while a failure, which loses it with the exception, records
the artifacts found for the run. Faults: `kill`, `crash`, `add` (a record cannot
be added), `edit` (the user writes files).

**`AcyclicCheck`**. `ensure_acyclic_evidence` as a machine: one call or return
of the recursive `visit` per step, any order of ids, a bounded nesting depth.
**`Evidence`** is the ledger: one registration per step (operations of a session
do not overlap) with all checks of the model and of the ledger, while sources,
artifacts and execution records are added between registrations.

**`Queries`**. `QueryService.execute`: fingerprint check, view, materialisation,
count, preview, spill, exact check, registration, record. Each statement has a
timer which fires and then interrupts; a timer cancelled too late interrupts
whatever runs next (`late`); the watchdog sees the growing file and interrupts.
The registration of its artifact compares the quota and adds under the registry's
lock (`Reserve`, `Register`). Other calls of the session do so too, file by file
(`OthersReserve`, `OthersCopy`, `OthersRelease`): what they compare are the sizes
of a scan, what they register those of the copies, and a file may grow in between
(`grown`). An add may raise before it publishes or after. `query_data` holds the
operation lock around this, which would exclude them; the service is checked
without it since the contract promises the quota for concurrent spills and the
registry takes that lock for it.

Two pure algorithms belong to it. **`SqlReferences`** is the text of a query on
its way to DuckDB: tokenizing, validation, dropping the semicolon, replacing
each `source('...')` by offsets, wrapping. A text is a sequence of symbols (a
character, a word, an identifier of a source); the reference definition replaces
tokens, not characters. **`Previews`** is the projection of columns and cells
in SQL, the loop that takes rows under a byte budget and halves the strings of a
first row that does not fit, and the inspector's `_sample`, which pays for names
too. A cell is its number of characters, the JSON bytes of each, and how it
comes; a result has a number of columns even when it has no rows. The bytes of a preview
are those of the JSON of the list of its rows, brackets and separators included,
which the loop's own count leaves out.
**`QueryService`** puts the three together: its two properties are about the
statement a query runs and the preview it returns, evaluated over enumerated texts
and results in the run `queries`.

**`ContainerMounts`**. `_mount_args` over a directory tree with hard links: what
is rejected, pinned, masked and mounted read-only, in which order. Then managed
code renames, links, removes, creates and writes, as far as the kernel lets it;
the kernel's rules (a mount point cannot be renamed or removed, no rename or
link across mounts, a later mount on a directory hides those below it) are
external, written from what the code's comments rely on. The directories above
one are defined without recursion (`Upward`): a set of directories that has the
one and not the other has an entry that leads out of it.

**`ContainerOutput`**. `execute` once the docker client is started: the code in
the container prints, the client hands it on into two pipes, a thread drains each
of them (`_drain`), and the calling thread waits, kills the container and then
the client when that takes too long, joins the threads and makes the result.
Output is a number of characters. Faults: `kill` (`docker kill` has no effect),
`hang` (it does not end in time and raises), `slow` (a thread still drains when
it is no longer waited for). That the client hands on at once what is printed,
and is gone when its container is, is external.

**`DockerBackend`** composes the two: the image is looked for, the mounts are
laid out or refused, the client is started, and the code then works on files or
prints (`task`). Mounts and output share nothing, so the code of one behaviour
does one of them, and code that prints does so in a plain layout.

**`Validation`**. The validators run in order; those over files look at one source
per step while files are edited, touched, deleted and put back; the checks for
duplicates and missing values read a file twice, once for its number of rows. Any
of these reads may fail, which makes the check inconclusive. A source record
carries the time of a clock that may stand still or be set back, and the latest
time decides which record stands for a file. An item of evidence is material or
not, and the denominators in its values are good, do not match (a warning) or are
bad (blocking). Source records come from `inspect`, evidence from managed Python,
which compares nothing, and from queries, which compare the digest and read later:
either may have read any version.

Definitions called *faulty variants* in the modules are not part of a model: each
is a plausible mistake in the definition that follows, and mutation runs put it
there to show that the properties notice. The type invariants of `RecordLock`,
`Sessions`, `JsonRecords`, `ManagedRuns`, `AcyclicCheck`, `Evidence` and
`Validation` are theorems and are not repeated in the runs.

**`ByteSums`** is what sizes come to. `ManagedRuns` and `Queries` add up the bytes
of artifacts and files, and `Previews` those of cells and rows, as the number of
their bytes, a byte being its file with its position in it: that is the sum of the
sizes, and its facts follow from those about cardinalities.

## 3. What the runs check

| Run | Instance | Shows |
|---|---|---|
| `record_lock` | 4 threads in 2 processes, lock errors | no lost lock (liveness), refinement of `Mutex`, which is mutual exclusion |
| `sessions` | 3 actors in 2 processes, 2 sessions, a root and a root inside it, all faults | the safety properties below, refinement of `WorkspaceLease` |
| `sessions_live` | 3 actors, 2 sessions, 1 root, crashes | every call returns (liveness) |
| `sessions_orphan` | 2 actors, failing kill | *violated*: a returned close may leave managed code running |
| `json_records` | 3 writers, 2 ids, 2 payloads, power failures, crashes, failing directory fsyncs | no torn record, create-once, survival, refinement of `RecordStore` |
| `managed_runs` | 2 runs, 2 files, 3 writes, all faults | attribution, digests, budget, records that name exactly what a run registered |
| `acyclic_check` | all 729 graphs of up to 3 items over 3 ids, depth 3 | the search is exact and ends |
| `evidence` | 3 items, 1 source, 2 executions, 1 artifact | grounds, real chains, a cycle check that refuses nothing |
| `docker_backend` | 3 steps of code in 50 layouts of 4 directories and 3 files; or up to 5 characters to each stream, of which 3 are kept, read by twos from pipes of 1, with all faults | sources and records are held, siblings writable; output is kept and cuts are told, calls end |
| `queries` | 1 query, up to 4 rows, caps 1 and 2, files of 2 bytes where 1 is allowed, 2 registrations of other calls, all faults; 14 800 texts; results of up to 3 rows | quota, accounting, whole results, termination; texts executed as checked; previews and samples in budget |
| `queries_rows` | a spill cap below the row limit | *violated*: a cut result is reported as whole |
| `validation` | 2 files in 3 versions, 2 records of them at 2 times, 2 claims, one of them causal; evidence that is material or not, with good, mismatching and bad figures | what a validated run means, of evidence and of data; re-inspection clears |

**Properties.** *Sessions:* `NoOverlap`, `OperationIsolation` (the last operation
of a closed session shares files with no successor), `CloseDrains`,
`SoleExecution` (managed code that a call waits for has the workspace to itself),
`TerminalStays`, `CallsReturn`. *Records:* `NoTornRecord`, `AddedSurvives`,
`CreateOnce`. *Runs:* `ArtifactsAttributed`, `DigestMatches` and `QuotaHeld`, each
excepting files that the user or escaped code wrote meanwhile, which are the cases
in which the code does give wrong answers; `RecordsExact` (a record names exactly
the artifacts registered for its run, although a success and a failure find them
in different ways, and adds fail half way) excepts nothing. *Evidence:* `Exact`,
`Ends`, `Grounded`, `ChainReal`, `CycleCheckIdle` (the search for cycles refuses
nothing the ledger can hold). *Queries:* `QuotaHeld` (what the files of other
calls grow by after they were compared comes on top); `QueriesAccounted`,
`ResultWhole`, `QueriesEnd`; `QueriesAsChecked` (the tokens of the statement are
those that were validated, a view's name for each reference; two kinds of text are
excepted, see section 5); `PreviewsFit` (the JSON of the rows takes at most the
budget and two bytes a row, see section 5; an empty preview is an empty result,
and truncation is told exactly when something is missing). *Docker backend:*
`SourcesHeld`, `StateHeld`, `SiblingsWritable`; `OutputTold` (a result keeps what
was printed up to the cap and is marked truncated exactly when there was more,
excepting a stream whose thread was not waited for to its end); `ExecuteEnds`
(code does not wait on a full pipe for good, and a call ends even when the kill
does nothing). *Validation:* `ValidatedMeans`, `ValidatedOnRegisteredData`,
`ValidatedClean` (unless files changed during the run: no duplicate row, and no
column without its value in a tenth of the rows), `ReinspectClears`.

**Bounds, and why they are enough.** Two processes and three actors give every
pair of calls in one process and in two, with a third that gets in between; two
sessions with nested roots give every hand-over of a workspace, and longer chains
are covered by the proofs. Three writers on two ids let a third call disturb a
race of two, and two ids meet in one directory fsync. Two runs and two files let
one registration stop half way and one run's code reach into the next; three
writes let the budget of two artifacts be passed. Three items give chains and
branches in evidence, and two executions let a fact mix the outputs of one with
the sources of another. Row and byte counts go to one past each limit. A file
needs three versions to change, to be touched without a change of content, and to
be put back. Two files let a source that cannot be read, or is gone, stand beside
one that is counted. Two registrations of other calls let one end and another
begin around that of the query. Three moves let code make room, replace and link;
layouts put the state directory in the workspace, beside it and around it, with
nested, linked and forbidden sources. The cap on output is no multiple of a read,
so a cut falls inside a chunk, between two, and at the end of the stream; the code
prints past the cap by more than a pipe and a chunk can hold, so an undrained pipe
would stop it. Texts join pieces for every state of the tokenizer, closed and left
open, before, between and after references; results have rows that fit, fit when
trimmed, and fit only when halved. Counters are capped by `MaxWrites`, `MaxEdits`,
`MaxCalls`, `MaxSources`, `MaxRuns`, `MaxMoves`, `MaxPrinted`. `managed_runs` uses
a view that leaves out locals no step reads any more. That of `validation` leaves
out verdicts no property speaks of, all of a run that can no longer validate, what
an inconclusive one holds besides its place, the times of records once there can
be no more of them, except their order within a file, and the sources an item
names, which are among those it used; its two files are symmetric. Deadlock is
checked where calls can always be made again (`record_lock`, `sessions`,
`sessions_live`, `json_records`); the other models end.

**Fairness.** `RecordLock` and `Sessions` assume that a running thread goes on and
that a lock which stays free for a waiter is taken: neither `threading.Lock` nor
`flock` queues its waiters, so no more is justified. Both liveness properties
therefore speak of finite traffic: under endless new calls a waiter may starve.
`Sessions` also assumes that managed code ends, as the execution timeout bounds
it. `Queries` assumes that the thread goes on between statements, that time passes
for timers, that an interrupted statement ends, and that counting a materialised
table does, that a call which holds the registry's lock gives it back, and that
the other calls are finitely many (`MaxCalls`); it assumes nothing about the
statements themselves. `DockerBackend` assumes that the threads of the server go
on, that time passes for what they wait for, and that a docker client ends once
its container has; it assumes nothing about the code, which may run, or print, for
ever. `AcyclicCheck` is a plain call that runs on.

## 4. What is proved

TLAPS proves these for every number of actors, processes, sessions, roots,
writers, ids, payloads, files and directories, and under every set of faults:

* `RecordLockProofs`: types, mutual exclusion, at most one thread of a process
  past its thread lock, and refinement of `Mutex`. The inductive invariant says
  who holds which lock at which step.
* `SessionsProofs`: types, `NoOverlap`, `OperationIsolation`, `CloseDrains`,
  `SoleExecution`, `TerminalStays` and refinement of `WorkspaceLease`. The
  properties are not inductive: they hold because of what a creating call knows
  while it scans. `ScanCovers` says that each overlapping session is still to be
  visited *with the status that was read*, or is terminal and idle; it survives
  other calls because only the holder of the policy lock changes statuses, and
  an operation lock once seen free of a terminal session stays free of work.
  `SoleExecution` needs that two admitted operations never touch (`WorkApart`),
  whether or not their sessions are still active.
* `JsonRecordsProofs`: types, `NoTornRecord`, `AddedSurvives`, `CreateOnce` and
  refinement of `RecordStore`. The invariant says that a file is fsynced before
  it gets a name, that an id is taken from the link on, and that records have a
  directory.

* `ManagedRunsProofs`: types, `ArtifactsAttributed`, `DigestMatches`,
  `RecordsExact` and `QuotaHeld`. `WorkspaceInv` says what may
  be in the workspace while a run holds the lock: before its code starts, what
  the snapshot saw, and after, besides that, what its own code, the user or
  escaped code wrote since. A file found changed by the second snapshot is
  therefore the run's own, or one of the exceptions. `QuotaHeld` rests on
  `QuotaInv`: from the scan on, what the run's code wrote and is still to be
  copied (`Pending`) and what is registered stay together within the budget.
  A copy moves a file from the one to the other; a failed registration leaves
  both behind; everything else can only make them smaller, since a file that
  somebody else writes meanwhile is no longer the run's. `RecordsExact` needs that
  the returned list and the artifacts of a run agree until an add raises
  (`RecordInv`), and that a run registers nothing once its record is there.
* `EvidenceProofs`, of the search: types and `Exact`, for every finite graph. The
  path of the search is a chain of distinct items, what it has left behind is
  closed upstream and holds no circular set, and the ids already taken at a level
  are behind it or on the path. So a search that ends with `ok` has seen a closed
  set without a cycle, and one that raises has closed a chain.
* `EvidenceProofs`, of the ledger: types, `ChainReal`, `Grounded` and
  `CycleCheckIdle`: since an item refers only to items that were there before
  it, the cycle check never rejects what the ledger itself wrote. That the ledger
  has no cycle (`LedgerAcyclic`) is part of the invariant. `Grounded`
  follows, since a set of interpretations without grounds that is closed upstream
  would hold a cycle.
* `QueriesProofs`: `QueriesAccounted`, and `ResultWhole` provided that
  `RowLimit <= SpillRows`, which is what the `queries_rows` finding asks for.
  The invariant says at each stage which file, artifacts and record a query has;
  timers and the watchdog are no part of it, since they only choose where the
  query fails. `QuotaHeld` rests on `QuotaInv`: what the holder of the registry's
  lock compared still fits with what is registered by now, but for the growth of
  files, since nobody else registers meanwhile; what is registered must be *split*
  into what was there and the new artifact, which may be there already. `TypeOK`
  bounds the interrupts that come late by the statements that are over (`ClockInv`).
* `QueriesProofs`, of the preview: `PreviewsFit`, for any result and any budgets
  (`PreviewConstants`). A loop of the code is a function that is recursive over
  the number of its turns. `Recursion` shows that there is such a function and
  `Throughout` that what a turn keeps is true at the end; both are stated of sets
  and rest on the least element of a set of numbers, since no theorem that takes an
  operator can be used. `FetchInv` and `TakeInv` are what a turn keeps: until the
  budget is passed the bytes counted are those of the rows kept, each two short of
  what it takes in the JSON of the list, and truncation has
  been told exactly if one of them lacks something (`Differ`); afterwards it has
  been told. `Shrunk` takes as many turns as the row has bytes, and a turn that
  halves takes off one at least, so it ends with a row that fits or has no
  character left (`ShrunkIs`). The latter fits a preview, for the scalars leave
  room for every column shown (`ScalarsFit`); a sample, which pays for names too,
  may be empty exactly then (`EmptiedIs`).
* `QueriesProofs`, of the text: `QueriesAsChecked`, for any set of texts
  (`TextConstants`). The statement is the text with pieces taken out and put in,
  so the proof is about copies: what is scanned at a place depends on the symbols
  up to its end, on whether a quote or a letter follows, and on nothing else
  (`ScanCopied`, by the end of each kind of token: `QuotedCopied`, `CommentCopied`,
  `DollarCopied`, `MarkerCopied`). A line comment that runs to the end of the text
  is the one token that depends on where the text ends. `PrefixTokens` applies
  this to the text without its semicolon: what comes before keeps its tokens, so
  `execute`, which tokenizes again, sees those that were checked (`CheckedIs`).
  `TokensFollow` applies it to the statement, by induction from the end of the
  text to its beginning: at the `i`-th token, what is left of the statement is the
  text up to the next reference (`Bound`), moved by `d` places, then the rest as it
  was rewritten; a step copies a token (`StepCopied`) or passes over a view's name
  where the text has a reference (`StepReplaced`), which moves what follows. It
  needs that replacing from the last to the first leaves the offsets before it true
  (`ReferenceText`), that nothing touches a reference, and that a parenthesis after
  the text would be a token (`Good`), which are the two exceptions of the property.
* `DockerBackendProofs`, of the output: `OutputTold`, for any caps, reads and
  pipes. `Streamed` says that what was printed is in the pipe, in the hands of
  the thread, or was passed on, and that the buffer holds what was passed on up
  to the cap; `CallInv` says what the calling thread may rely on where it stands.
* `DockerBackendProofs`, of the mounts: types, `SourcesHeld`, `StateHeld` and
  `SiblingsWritable`, for any workspace, any registered sources and any number of
  steps of the code. First the layout: none of its mounts is hidden by a later one
  (`AllEffective`), since an outer directory is mounted before an inner one and
  nothing protected is below what is masked. Then what the code may do: a step
  only adds, removes or moves entries in reach that are no mount points
  (`WorkShape`), so what is in reach only shrinks (`InsideShrinks`): no directory
  comes into the workspace from outside, and none out of the masked one.
  `MountsInv` adds what is true of every entry in reach: it is not of a file of
  the state directory, and if it is of a source it is one of those the server
  found and mounted read-only (`Shown`). A hard link made before the launch would
  break that, and is rejected or protected; one made by the code needs an entry
  that is no mount point, and there is none.
* `ValidationProofs`: types, `ValidatedMeans`, `ValidatedOnRegisteredData`,
  `ValidatedClean` and `ReinspectClears`. Neither sources nor evidence change
  during a run, only files do. `RunInv` says what each silent validator has
  established about them by then; `VerdictInv` carries it over to the verdict.
  That alone does not reach back to executions before the run: `UsedInv` says
  that an execution read what is registered, as long as the file is still so and
  was never put back, since an edit always makes a newer version. `ReinspectClears`
  follows from `OrderInv`: versions of a file are recorded in increasing order,
  and a file not yet recorded as it is now is newer than its records. Where the clock
  went on between the records of a file, the latest time is that of the last one.

The proofs assume the named assumptions on constants (`LockConstants`,
`SessionConstants`, `RecordConstants`, `RunConstants`, `NoValues`,
`SearchConstants`, `EvidenceConstants`, `QueryConstants`, `NoValue`,
`TextConstants`, `PreviewConstants`, `ValidationConstants`, `MountConstants`,
`LayoutTrees`, `OutputConstants`), which say that the special values are distinct,
processes own threads, parents are roots, bounds are numbers, what is searched is
finite, and so are the paths of a workspace. `TextConstants` says that a word or
an identifier is no delimiter and that no identifier is the word `source`.
`PreviewConstants` says that a scalar is no larger than
`_MAX_SCALAR_BYTES_PER_COL` and that this fits in the smallest budget settings
allow. `LayoutTrees` says that directories form trees and that the script of the
call is in the state directory, where `services/execution.py:103` writes it. TLC
evaluates them in the runs.

Only model-checked: liveness (`AttemptsEnd`, `CallsReturn`, `Ends`,
`QueriesEnd`, `ExecuteEnds`), which needs fairness and `ENABLED`. Every safety
property and every refinement that a run checks is also proved.

## 5. Where the code and its documents differ

Shown by runs: `sessions_orphan` (`tools/data_plane.py:100` cleans up before it
drains, against the tool's description in line 83) and `queries_rows`
(`services/query.py:475`, against FR-030).

Met while modelling; the properties above name them as exceptions:

* `repositories/base.py:109` swallows a failed directory fsync. The comment
  says the record is already durable; its blocks are, its name is not.
* `repositories/base.py:118` makes the directories of a session and a namespace,
  and lines 100-113 sync only the one the record goes to. Until the system has
  written the names of new directories out, a power failure takes the first
  records of a session or namespace, though `add` returned and its fsync worked.
  `AddedSurvives` allows that loss and no other; `CreateOnce` speaks of one
  directory, since an id lost with it can be added again.
* `services/execution.py:166` adds its only record at the end; a server that
  dies before leaves a managed execution unrecorded (FR-012).
* `repositories/base.py:128` opens the directory to sync it outside the `try`: an
  add may raise although its record is there. A run then fails with an artifact
  that only the scan of the records finds, and a call reports a failure whose
  record says that it succeeded.
* `services/artifact_registry.py:238` compares the sizes of the scan with the
  budget and registers those of the copies: files that grow in between take the
  session over its quota. `QuotaHeld` of `Queries` counts what they grew by, that
  of `ManagedRuns` excepts files that somebody else wrote.
* `services/artifact_registry.py:275` hashes the file and then copies it; a user
  who writes it in between gets an artifact with another digest.
* `services/query.py:437` creates views outside the `try` that records failures
  (README.md:63 promises audit records of failed runs), and line 404
  fingerprints a file that is read later.
* `services/evidence_ledger.py:123` lets an interpretation cite interpretations
  alone, as data-model.md:122 allows and FR-020 does not. `Grounded` holds
  nevertheless.
* `services/validation.py:90`: a selection of checks can end as validated with
  claims that lack evidence (FR-024). `ValidatedMeans` speaks of complete runs.
* `services/validation.py:64`: the record with the latest `registered_at` stands for
  a file. When the file is back in an earlier registered version, inspecting it
  again reuses the old record, and when the clock was set back, a new record loses
  to an older one; either way a stale record stays active, and the remediation of
  `validators/core.py:241` does not help. `ReinspectClears` speaks of files whose
  versions went forward, and the clock with them.
* `validators/core.py:361` reports missing values from a tenth of the rows on, and
  nothing in the repository sets another threshold. `ValidatedClean` says no more
  than that.
* `services/query.py:280` counts the bytes of each row against the budget of a
  preview, but not the two that brackets and separators of the list add per row. A
  preview whose rows come to exactly the budget has a longer JSON than
  `tests/unit/test_query.py:184` and `205` assert; their rows leave room for it.
  `PreviewsFit` says what holds.
* `validators/core.py:268` counts the rows of a file and its distinct rows in two
  reads, neither of the fingerprinted bytes. `ValidatedClean` speaks of runs
  during which no file changed.
* `services/query.py:109` and `449`: a text that ends in a `--` comment without a
  semicolon is accepted, and the comment swallows the bracket that closes the
  wrapping select; DuckDB rejects the statement.
* `services/query.py:433` puts a quoted name in place of a reference; a quoted
  identifier right behind it (`source('...')"t"`) becomes part of that name.
  Both are exceptions of `ExecutedAsChecked`.
* `execution_backends/docker.py:302` joins the draining threads for ten seconds
  each. A thread that takes longer goes on after the result is made, which then
  lacks what it has not read and may not say so (SC-008). `OutputTold` excepts
  that stream.
* `services/inspector.py:58` fingerprints a file and then profiles it, so a
  record's profile may be that of other bytes.

## 6. What is not modelled

* The wording and keys of validators: what is a causal word, or what two
  denominators have in common, is a property of a claim or an item here. Of the
  thresholds, the tenth of missing values is modelled; one set per source in its
  profile is not, since nothing in the repository sets it.
* `services/workspace.py`: path resolution is a question to the file system and
  one comparison; what symbolic links do between resolution and use is in
  `ManagedRuns`.
* `execution_backends/subprocess_dev.py`, the development backend, beyond the
  outcome of an execution (returned, timed out, code left behind), which is in
  `ManagedRuns`: a timeout kills the interpreter, not what it started, as the
  fault `kill` has it. It mounts nothing and caps no output, so nothing that
  `DockerBackend` shows holds of it. Resource limits are options of docker.
* Settings, wiring (`runtime.py`, `server.py`), error mapping and the pydantic
  models hold no state that changes.
* Symbolic links in `ContainerMounts`: the code resolves sources and does not
  follow links while it walks; a link that managed code makes is a new entry
  that names nothing the mounts do not already cover.

`execute_python` and the records it writes are modelled in `ManagedRuns` with the
session lock as its own, not composed with `Sessions`; `Sessions` shows that
nothing else runs meanwhile, `escaped` code excepted.

## 7. Plan

1. `Mutex`, `RecordLock` and proofs - done
2. `WorkspaceLease`, `Sessions` and proofs - done
3. `RecordStore`, `JsonRecords` and proofs - done
4. `ManagedRuns` and proofs - done
5. `EvidenceGraph`, `AcyclicCheck`, `Evidence` and proofs - done
6. `Queries`, `Previews`, `SqlReferences`, `QueryService` and proofs - done
7. `ContainerMounts`, `ContainerOutput`, `DockerBackend` and proofs - done
8. `Validation` and proofs - done
9. Runs whose server dies composed with sessions that are taken over - left
