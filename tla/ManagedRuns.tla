----------------------------- MODULE ManagedRuns ----------------------------
(***************************************************************************)
(* execute_python of services/execution.py in one session, with the        *)
(* artifact registry it calls: managed code changes the workspace between  *)
(* two snapshots, changed files are copied to the archive and registered,  *)
(* and an execution record names what was produced.                        *)
(*                                                                         *)
(* A run is one call, named by its execution id.  Whatever code writes is  *)
(* new data, numbered by clock; the number stands for the modification     *)
(* time as well as for the content and its sha256.                         *)
(***************************************************************************)
EXTENDS Integers, ByteSums

CONSTANTS
  Runs,            \* execution ids
  Paths,           \* files of the workspace
  Sizes,           \* file sizes
  MaxArtifacts, MaxFileBytes, MaxTotalBytes,   \* quotas of the registry
  MaxWrites,       \* bound: files written in a behaviour
  User, NoRun, NoFile, NoRecord,
  Faults           \* which faults may happen: see below

ASSUME RunConstants ==
  /\ IsFiniteSet(Paths)
  /\ Sizes \subseteq Nat
  /\ MaxArtifacts \in Nat /\ MaxFileBytes \in Nat /\ MaxTotalBytes \in Nat
  /\ MaxWrites \in Nat
  /\ User \notin Runs /\ NoRun \notin Runs

(* "kill": killing timed-out code fails.  "crash": the server dies.        *)
(* "add": a record cannot be added, or its add raises once the record is   *)
(* published.  "edit": the user changes files.                             *)
ASSUME RunFaults == Faults \subseteq {"kill", "crash", "add", "edit"}

VARIABLES
  pc,        \* where each run stands
  lock,      \* holder of the session's lock, or NoRun
  files,     \* the workspace: [size, data, by] or NoFile per path
  clock,     \* number of the last write
  code,      \* runs whose managed code is running
  escaped,   \* runs whose code ever outlived its call
  before,    \* snapshot taken before the code of a run
  todo,      \* changed paths a run has still to register
  digest,    \* sha256 of the file a run is copying
  returned,  \* files whose artifacts register_changes has to return
  outcome,   \* what the backend reported
  arts,      \* artifact records, with the data the archive holds for each
  execs      \* execution records: [status, arts] or NoRecord

workspace == <<files, clock>>
vars == <<pc, lock, files, clock, code, escaped, before, todo, digest, returned, outcome, arts, execs>>

File == [size : Sizes, data : 0 .. MaxWrites, by : Runs \cup {User}]
Artifact == [run : Runs, path : Paths, size : Sizes, sha256 : 0 .. MaxWrites,
             data : 0 .. MaxWrites, by : Runs \cup {User}]
Outcomes == {"succeeded", "failed", "timed_out"}
Record == [status : Outcomes, arts : SUBSET Paths]

ASSUME NoValues == NoFile \notin File /\ NoRecord \notin Record

Inside == {"ready", "running", "ran", "copying", "hashed", "failing"}
Ended == {"done", "raised", "unrecorded", "lost"}

TypeOK ==
  /\ pc \in [Runs -> {"new", "recording"} \cup Inside \cup Ended]
  /\ lock \in Runs \cup {NoRun}
  /\ files \in [Paths -> File \cup {NoFile}]
  /\ clock \in 0 .. MaxWrites
  /\ code \subseteq Runs
  /\ escaped \subseteq Runs
  /\ before \in [Runs -> [Paths -> File \cup {NoFile}]]
  /\ todo \in [Runs -> SUBSET Paths]
  /\ digest \in [Runs -> 0 .. MaxWrites]
  /\ returned \in [Runs -> SUBSET Paths]
  /\ outcome \in [Runs -> Outcomes]
  /\ arts \subseteq Artifact
  /\ execs \in [Runs -> Record \cup {NoRecord}]

(* The user's files are there before the first run. *)
Init ==
  /\ pc = [e \in Runs |-> "new"]
  /\ lock = NoRun
  /\ \E sz \in Sizes, P \in SUBSET Paths :
       files = [p \in Paths |->
                  IF p \in P THEN [size |-> sz, data |-> 0, by |-> User] ELSE NoFile]
  /\ clock = 0
  /\ code = {}
  /\ escaped = {}
  /\ before = [e \in Runs |-> [p \in Paths |-> NoFile]]
  /\ todo = [e \in Runs |-> {}]
  /\ digest = [e \in Runs |-> 0]
  /\ returned = [e \in Runs |-> {}]
  /\ outcome = [e \in Runs |-> "failed"]
  /\ arts = {}
  /\ execs = [e \in Runs |-> NoRecord]

Goto(e, from, to) ==
  /\ pc[e] = from
  /\ pc' = [pc EXCEPT ![e] = to]

ArtifactsOf(e) == {a \in arts : a.run = e}

Registered(e) == {a.path : a \in ArtifactsOf(e)}

(* What artifacts take of the archive, and files of the workspace. *)
ArchiveBytes(A) == Bytes([a \in A |-> a.size])
FileBytes(P) == Bytes([p \in P |-> files[p].size])

SessionBytes == ArchiveBytes(arts)

(* Nothing but the places and locals of runs changes. *)
Quiet == UNCHANGED <<workspace, code, escaped, arts, execs>>

-----------------------------------------------------------------------------
(* Faulty variants put in place of the actions below by mutation runs.     *)

(* Runs of a session are not serialised. *)
StartUnlocked(e) ==
  /\ Goto(e, "new", "ready")
  /\ lock' = e
  /\ before' = [before EXCEPT ![e] = files]
  /\ UNCHANGED <<todo, digest, returned, outcome>> /\ Quiet

(* The budget of the session is taken for one of the run. *)
WithinLimitsOfRun(changed) ==
  /\ Cardinality(changed) <= MaxArtifacts
  /\ \A p \in changed : files[p].size <= MaxFileBytes
  /\ FileBytes(changed) <= MaxTotalBytes

(* The digest is that of the file as it was before the run. *)
HashBefore(e) ==
  LET p == CHOOSE q \in todo[e] : TRUE IN
  /\ pc[e] = "copying" /\ todo[e] # {} /\ files[p] # NoFile
  /\ pc' = [pc EXCEPT ![e] = "hashed"]
  /\ digest' = [digest EXCEPT ![e] = IF before[e][p] = NoFile THEN 0 ELSE before[e][p].data]
  /\ UNCHANGED <<lock, before, todo, returned, outcome>> /\ Quiet

(* A failure records the artifacts collected so far.                       *)
RecordFailureCollected(e) ==
  /\ Goto(e, "failing", "raised")
  /\ lock' = NoRun
  /\ execs' = [execs EXCEPT ![e] = [status |-> "failed", arts |-> returned[e]]]
  /\ UNCHANGED <<workspace, code, escaped, before, todo, digest, returned, outcome, arts>>

-----------------------------------------------------------------------------
(* Inside sessions.active and the session lock: the first snapshot. *)
Start(e) ==
  /\ lock = NoRun
  /\ Goto(e, "new", "ready")
  /\ lock' = e
  /\ before' = [before EXCEPT ![e] = files]
  /\ UNCHANGED <<todo, digest, returned, outcome>> /\ Quiet

(* The request directory or the script cannot be written: no code runs and *)
(* nothing is recorded.                                                    *)
SetupFails(e) ==
  /\ Goto(e, "ready", "unrecorded")
  /\ lock' = NoRun
  /\ UNCHANGED <<before, todo, digest, returned, outcome>> /\ Quiet

Launch(e) ==
  /\ Goto(e, "ready", "running")
  /\ code' = code \cup {e}
  /\ UNCHANGED <<workspace, lock, escaped, before, todo, digest, returned, outcome, arts, execs>>

(* Code that runs, waited for or not, writes and removes files. *)
Put(p, who) ==
  \E sz \in Sizes :
    /\ clock < MaxWrites
    /\ clock' = clock + 1
    /\ files' = [files EXCEPT ![p] = [size |-> sz, data |-> clock', by |-> who]]

Remove(p) ==
  /\ files[p] # NoFile
  /\ files' = [files EXCEPT ![p] = NoFile]
  /\ UNCHANGED clock

Work(e) ==
  /\ e \in code
  /\ \E p \in Paths : Put(p, e) \/ Remove(p)
  /\ UNCHANGED <<pc, lock, code, escaped, before, todo, digest, returned, outcome, arts, execs>>

UserEdits ==
  /\ "edit" \in Faults
  /\ \E p \in Paths : Put(p, User) \/ Remove(p)
  /\ UNCHANGED <<pc, lock, code, escaped, before, todo, digest, returned, outcome, arts, execs>>

(* backend.execute returns: the code ended, or it was killed on timeout.   *)
(* The result of the kill is not looked at.                                *)
ExecuteReturns(e) ==
  /\ Goto(e, "running", "ran")
  /\ \E o \in Outcomes :
       /\ outcome' = [outcome EXCEPT ![e] = o]
       /\ \/ code' = code \ {e} /\ UNCHANGED escaped
          \/ /\ o = "timed_out" /\ "kill" \in Faults
             /\ escaped' = escaped \cup {e} /\ UNCHANGED code
  /\ UNCHANGED <<workspace, lock, before, todo, digest, returned, arts, execs>>

(* backend.execute raises: before it starts the code, or in its kill. *)
ExecuteRaises(e) ==
  /\ \/ pc[e] = "ready" /\ UNCHANGED escaped
     \/ pc[e] = "running" /\ "kill" \in Faults /\ escaped' = escaped \cup {e}
  /\ pc' = [pc EXCEPT ![e] = "failing"]
  /\ UNCHANGED <<workspace, lock, code, before, todo, digest, returned, outcome, arts, execs>>

(* The aggregate limits of register_changes. *)
WithinLimits(changed) ==
  /\ Cardinality(changed) <= MaxArtifacts
  /\ \A p \in changed : files[p].size <= MaxFileBytes
  /\ SessionBytes + FileBytes(changed) <= MaxTotalBytes

(* The second snapshot, and the limits; ArtifactLimitError is a failure. *)
Scan(e) ==
  LET changed == {p \in Paths : files[p] # NoFile /\ files[p] # before[e][p]} IN
  /\ pc[e] = "ran"
  /\ IF WithinLimits(changed)
     THEN /\ pc' = [pc EXCEPT ![e] = "copying"]
          /\ todo' = [todo EXCEPT ![e] = changed]
     ELSE /\ pc' = [pc EXCEPT ![e] = "failing"]
          /\ UNCHANGED todo
  /\ UNCHANGED <<lock, before, digest, returned, outcome>> /\ Quiet

(* Changed files are taken in a fixed order. *)
Current(e) == CHOOSE p \in todo[e] : TRUE

Hash(e) ==
  /\ pc[e] = "copying" /\ todo[e] # {} /\ files[Current(e)] # NoFile
  /\ pc' = [pc EXCEPT ![e] = "hashed"]
  /\ digest' = [digest EXCEPT ![e] = files[Current(e)].data]
  /\ UNCHANGED <<lock, before, todo, returned, outcome>> /\ Quiet

(* The bytes are copied, the copy is measured, the artifact is added.  The *)
(* add may raise when the artifact is there already: the directory cannot  *)
(* be opened to sync it.                                                   *)
Copy(e) ==
  LET p == Current(e) IN
  /\ pc[e] = "hashed" /\ files[p] # NoFile
  /\ arts' = arts \cup {[run |-> e, path |-> p, size |-> files[p].size, sha256 |-> digest[e],
                         data |-> files[p].data, by |-> files[p].by]}
  /\ todo' = [todo EXCEPT ![e] = @ \ {p}]
  /\ \/ /\ pc' = [pc EXCEPT ![e] = "copying"]
        /\ returned' = [returned EXCEPT ![e] = @ \cup {p}]
     \/ /\ "add" \in Faults
        /\ pc' = [pc EXCEPT ![e] = "failing"]
        /\ UNCHANGED returned
  /\ UNCHANGED <<workspace, lock, code, escaped, before, digest, outcome, execs>>

(* A changed file has meanwhile become a directory, or a link that leaves  *)
(* the workspace: it is passed over.                                       *)
Skip(e) ==
  /\ pc[e] = "copying" /\ todo[e] # {} /\ (code # {} \/ "edit" \in Faults)
  /\ todo' = [todo EXCEPT ![e] = @ \ {Current(e)}]
  /\ UNCHANGED <<pc, lock, before, digest, returned, outcome>> /\ Quiet

(* The second snapshot raises, a file is gone, or a read, a copy or an add *)
(* fails and leaves no artifact.                                           *)
RegistrationFails(e) ==
  /\ \/ pc[e] = "ran"
     \/ pc[e] \in {"copying", "hashed"} /\ todo[e] # {}
  /\ pc' = [pc EXCEPT ![e] = "failing"]
  /\ UNCHANGED <<lock, before, todo, digest, returned, outcome>> /\ Quiet

(* The session lock is released before the record is written. *)
Unlock(e) ==
  /\ pc[e] = "copying" /\ todo[e] = {}
  /\ pc' = [pc EXCEPT ![e] = "recording"]
  /\ lock' = NoRun
  /\ UNCHANGED <<before, todo, digest, returned, outcome>> /\ Quiet

AddRecord(e, status, paths) ==
  execs' = [execs EXCEPT ![e] = [status |-> status, arts |-> paths]]

(* The record names what register_changes returned.                        *)
RecordRun(e) ==
  /\ Goto(e, "recording", "done")
  /\ AddRecord(e, outcome[e], returned[e])
  /\ UNCHANGED <<workspace, lock, code, escaped, before, todo, digest, returned, outcome, arts>>

(* The list is lost with the exception: the record names what the artifact *)
(* records have of the run.                                                *)
RecordFailure(e) ==
  /\ Goto(e, "failing", "raised")
  /\ lock' = NoRun
  /\ AddRecord(e, "failed", Registered(e))
  /\ UNCHANGED <<workspace, code, escaped, before, todo, digest, returned, outcome, arts>>

(* The add of the record raises, before it publishes the record or after;  *)
(* or removing the request directory raises after the registration.        *)
AddFails(e) ==
  /\ "add" \in Faults
  /\ \/ pc[e] = "recording" /\ AddRecord(e, outcome[e], returned[e])
     \/ pc[e] = "failing" /\ AddRecord(e, "failed", Registered(e))
     \/ pc[e] \in {"recording", "failing"} /\ UNCHANGED execs
  /\ pc' = [pc EXCEPT ![e] = "unrecorded"]
  /\ lock' = IF lock = e THEN NoRun ELSE lock
  /\ UNCHANGED <<workspace, code, escaped, before, todo, digest, returned, outcome, arts>>

(* The server process dies; code it started may run on. *)
Crash ==
  /\ "crash" \in Faults
  /\ pc' = [e \in Runs |-> IF pc[e] \in Inside \cup {"recording"} THEN "lost" ELSE pc[e]]
  /\ lock' = NoRun
  /\ escaped' = escaped \cup code
  /\ UNCHANGED <<workspace, code, before, todo, digest, returned, outcome, arts, execs>>

(* Code nobody waits for ends. *)
OrphanEnds(e) ==
  /\ e \in code /\ pc[e] # "running"
  /\ code' = code \ {e}
  /\ UNCHANGED <<pc, workspace, lock, escaped, before, todo, digest, returned, outcome, arts, execs>>

Next ==
  \/ \E e \in Runs :
       \/ Start(e) \/ SetupFails(e) \/ Launch(e) \/ Work(e) \/ ExecuteReturns(e) \/ ExecuteRaises(e)
       \/ Scan(e) \/ Hash(e) \/ Copy(e) \/ Skip(e) \/ RegistrationFails(e) \/ Unlock(e)
       \/ RecordRun(e) \/ RecordFailure(e) \/ AddFails(e) \/ OrphanEnds(e)
  \/ UserEdits
  \/ Crash

Spec == Init /\ [][Next]_vars

-----------------------------------------------------------------------------
(* A file somebody else than its run's own code wrote. *)
Foreign(a) == a.by = User \/ a.by \in escaped

(* Files are attributed to the execution whose code wrote them: the reason *)
(* runs of a session are serialised.  Only what the user changes, and code *)
(* that outlived its call, is attributed to the wrong run.                 *)
ArtifactsAttributed == \A a \in arts : Foreign(a) \/ a.by = a.run

(* The sha256 of an artifact is that of the archived bytes, though they    *)
(* are read one after the other, unless somebody else wrote the file.      *)
DigestMatches == \A a \in arts : Foreign(a) \/ a.sha256 = a.data

(* No sequence of runs, failed registrations included, takes what their    *)
(* code wrote over the budget of the session.                              *)
QuotaHeld == ArchiveBytes({a \in arts : ~Foreign(a)}) <= MaxTotalBytes

(* An execution record names exactly the artifacts of its execution: on    *)
(* success from the list that register_changes collected, on a failure     *)
(* half way from the artifact records, where an add that published its     *)
(* artifact and then raised has left one that no list has.                 *)
RecordsExact ==
  \A e \in Runs : execs[e] # NoRecord => execs[e].arts = Registered(e)
=============================================================================
