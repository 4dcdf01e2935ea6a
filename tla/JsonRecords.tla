---------------------------- MODULE JsonRecords -----------------------------
(***************************************************************************)
(* JsonRecordRepository of repositories/base.py: add and update publish a  *)
(* record through a temporary file that is written, fsynced and then       *)
(* linked or renamed into the directory of its session and namespace,      *)
(* which add makes when it is missing.                                     *)
(* Writers of several processes work on one such directory; a writer's     *)
(* process may die and the machine may lose power at any point.            *)
(***************************************************************************)
EXTENDS FiniteSets

CONSTANTS
  Writers, Ids, Payloads,
  Absent,   \* no file of that name
  Torn,     \* what a file never fsynced may hold after a power failure
  Faults    \* see below

(* "dirsync": fsync of the directory raises OSError, which _fsync_dir      *)
(* swallows; on Windows it is never done.                                  *)
ASSUME RecordFaults == Faults \subseteq {"dirsync"}

VARIABLES
  pc,      \* where each writer stands
  op,      \* what it was called with: [kind, id, val], or Absent
  temp,    \* its temporary file: "none", "written" or "synced"
  dir,     \* the directory as processes see it: a file or Absent per id
  disk,    \* the directory as a power failure leaves it
  placed,  \* the directory itself: "missing", "made", or "kept" once the
           \* names of it and of its session's directory are on disk
  created  \* ids whose add has returned, its directory fsync having worked,
           \* since the directory was made

calls == <<pc, op, temp>>
vars == <<pc, op, temp, dir, disk, placed, created>>

File == [val : Payloads \cup {Torn}, synced : BOOLEAN]
Op == [kind : {"add", "update"}, id : Ids, val : Payloads]

ASSUME RecordConstants == Torn \notin Payloads /\ Absent \notin File \cup Op \cup Payloads

Steps == {"idle", "check", "mkdir", "write", "sync", "publish", "unlink", "syncdir"}

TypeOK ==
  /\ pc \in [Writers -> Steps]
  /\ op \in [Writers -> Op \cup {Absent}]
  /\ temp \in [Writers -> {"none", "written", "synced"}]
  /\ dir \in [Ids -> File \cup {Absent}]
  /\ disk \in [Ids -> File \cup {Absent}]
  /\ placed \in {"missing", "made", "kept"}
  /\ created \subseteq Ids

Init ==
  /\ pc = [w \in Writers |-> "idle"]
  /\ op = [w \in Writers |-> Absent]
  /\ temp = [w \in Writers |-> "none"]
  /\ dir = [i \in Ids |-> Absent]
  /\ disk = [i \in Ids |-> Absent]
  /\ placed = "missing"
  /\ created = {}

Goto(w, from, to) ==
  /\ pc[w] = from
  /\ pc' = [pc EXCEPT ![w] = to]
  /\ UNCHANGED op

(* The calls of the writers in W end, by a return, a raise or a death.  A  *)
(* temporary file left behind has a name no reader looks for.              *)
EndCalls(W) ==
  /\ pc' = [w \in Writers |-> IF w \in W THEN "idle" ELSE pc[w]]
  /\ op' = [w \in Writers |-> IF w \in W THEN Absent ELSE op[w]]
  /\ temp' = [w \in Writers |-> IF w \in W THEN "none" ELSE temp[w]]

TempFile(w) == [val |-> op[w].val, synced |-> temp[w] = "synced"]

-----------------------------------------------------------------------------
(* Faulty variants put in place of the actions below by mutation runs.     *)

(* The payload is published before it is fsynced. *)
WriteTempUnsynced(w) ==
  /\ Goto(w, "write", "publish")
  /\ temp' = [temp EXCEPT ![w] = "written"]
  /\ UNCHANGED <<dir, disk, placed, created>>

(* The target was missing a moment ago, so rename over it. *)
LinkOverwrites(w) ==
  /\ pc[w] = "publish" /\ op[w].kind = "add"
  /\ dir' = [dir EXCEPT ![op[w].id] = TempFile(w)]
  /\ Goto(w, "publish", "unlink")
  /\ UNCHANGED <<temp, disk, placed, created>>

(* The directory is not fsynced. *)
SyncDirSkipped(w) ==
  /\ pc[w] = "syncdir"
  /\ UNCHANGED <<dir, disk, placed>>
  /\ EndCalls({w})
  /\ created' = IF op[w].kind = "add" THEN created \cup {op[w].id} ELSE created

-----------------------------------------------------------------------------
Call(w) ==
  \E k \in {"add", "update"}, i \in Ids, v \in Payloads :
    /\ pc[w] = "idle"
    /\ pc' = [pc EXCEPT ![w] = IF k = "add" THEN "mkdir" ELSE "check"]
    /\ op' = [op EXCEPT ![w] = [kind |-> k, id |-> i, val |-> v]]
    /\ UNCHANGED <<temp, dir, disk, placed, created>>

UpdateCheck(w) ==
  /\ pc[w] = "check" /\ dir[op[w].id] # Absent
  /\ Goto(w, "check", "write")
  /\ UNCHANGED <<temp, dir, disk, placed, created>>

RecordNotFound(w) ==
  /\ pc[w] = "check" /\ dir[op[w].id] = Absent
  /\ EndCalls({w})
  /\ UNCHANGED <<dir, disk, placed, created>>

(* mkdir(parents=True, exist_ok=True).  Nothing syncs the directories that *)
(* the names of new directories go to.                                     *)
MakeDir(w) ==
  /\ Goto(w, "mkdir", "write")
  /\ placed' = IF placed = "missing" THEN "made" ELSE placed
  /\ UNCHANGED <<temp, dir, disk, created>>

WriteTemp(w) ==
  /\ Goto(w, "write", "sync")
  /\ temp' = [temp EXCEPT ![w] = "written"]
  /\ UNCHANGED <<dir, disk, placed, created>>

SyncTemp(w) ==
  /\ Goto(w, "sync", "publish")
  /\ temp' = [temp EXCEPT ![w] = "synced"]
  /\ UNCHANGED <<dir, disk, placed, created>>

(* os.link: fails if the name is taken. *)
Link(w) ==
  /\ pc[w] = "publish" /\ op[w].kind = "add" /\ dir[op[w].id] = Absent
  /\ dir' = [dir EXCEPT ![op[w].id] = TempFile(w)]
  /\ Goto(w, "publish", "unlink")
  /\ UNCHANGED <<temp, disk, placed, created>>

RecordAlreadyExists(w) ==
  /\ pc[w] = "publish" /\ op[w].kind = "add" /\ dir[op[w].id] # Absent
  /\ EndCalls({w})
  /\ UNCHANGED <<dir, disk, placed, created>>

UnlinkTemp(w) ==
  /\ Goto(w, "unlink", "syncdir")
  /\ temp' = [temp EXCEPT ![w] = "none"]
  /\ UNCHANGED <<dir, disk, placed, created>>

(* os.replace: the temporary file takes the name whatever has it now. *)
Replace(w) ==
  /\ pc[w] = "publish" /\ op[w].kind = "update"
  /\ dir' = [dir EXCEPT ![op[w].id] = TempFile(w)]
  /\ temp' = [temp EXCEPT ![w] = "none"]
  /\ Goto(w, "publish", "syncdir")
  /\ UNCHANGED <<disk, placed, created>>

(* fsync of the directory, and the call returns.  It puts the names in the *)
(* directory on disk, not the name of the directory.  An OSError of fsync  *)
(* is swallowed.                                                           *)
SyncDir(w) ==
  /\ pc[w] = "syncdir"
  /\ \/ /\ disk' = dir
        /\ created' = IF op[w].kind = "add" THEN created \cup {op[w].id} ELSE created
     \/ "dirsync" \in Faults /\ UNCHANGED <<disk, created>>
  /\ EndCalls({w})
  /\ UNCHANGED <<dir, placed>>

(* A write, an fsync, a link, a rename or the open of the directory        *)
(* raises, or the writer's process dies.                                   *)
Fail(w) ==
  /\ pc[w] # "idle"
  /\ EndCalls({w})
  /\ UNCHANGED <<dir, disk, placed, created>>

(* The system writes a directory entry out on its own account: that of a   *)
(* record, or those that lead to the directory.                            *)
WriteBack(i) ==
  /\ disk' = [disk EXCEPT ![i] = dir[i]]
  /\ UNCHANGED <<calls, dir, placed, created>>

WriteBackParents ==
  /\ placed = "made"
  /\ placed' = "kept"
  /\ UNCHANGED <<calls, dir, disk, created>>

(* Power is lost: names go back to what was on disk, and a file that was   *)
(* never fsynced may hold anything.  A directory no name on disk leads to  *)
(* is gone with all it held.                                               *)
Reread(f) == IF f = Absent \/ f.synced THEN f ELSE [val |-> Torn, synced |-> TRUE]

PowerFailure ==
  /\ EndCalls(Writers)
  /\ dir' = [i \in Ids |-> IF placed = "kept" THEN Reread(disk[i]) ELSE Absent]
  /\ disk' = dir'
  /\ placed' = IF placed = "kept" THEN placed ELSE "missing"
  /\ created' = IF placed = "kept" THEN created ELSE {}

Next ==
  \/ \E w \in Writers :
       \/ Call(w) \/ UpdateCheck(w) \/ RecordNotFound(w) \/ MakeDir(w) \/ WriteTemp(w)
       \/ SyncTemp(w) \/ Link(w) \/ RecordAlreadyExists(w) \/ UnlinkTemp(w) \/ Replace(w)
       \/ SyncDir(w) \/ Fail(w)
  \/ \E i \in Ids : WriteBack(i)
  \/ WriteBackParents
  \/ PowerFailure

Spec == Init /\ [][Next]_vars

-----------------------------------------------------------------------------
(* No reader ever finds a partially written record, not even after a power *)
(* failure: the guarantee of the class comment.                            *)
NoTornRecord == \A i \in Ids : dir[i] # Absent => dir[i].val # Torn

(* A record whose add has returned, the directory fsync having worked,     *)
(* goes in one way only: a power failure takes the whole directory because *)
(* its own name, or its session's, never got to disk.  add returns as well *)
(* when the directory fsync failed, and then nothing is promised.          *)
DirectoryLost == placed = "made" /\ placed' = "missing"

AddedSurvives == [][\A i \in created : dir'[i] = Absent => DirectoryLost]_vars

(* add is create-once: of all calls that ever add an id to the directory,  *)
(* in any process, one at most gets past the link and returns.             *)
Publishing(w) == pc[w] \in {"unlink", "syncdir"} /\ op[w].kind = "add"

CreateOnce ==
  \A w \in Writers : Publishing(w) =>
    /\ op[w].id \notin created
    /\ \A x \in Writers \ {w} : Publishing(x) => op[x].id # op[w].id

Value(f) == IF f = Absent THEN Absent ELSE f.val

Store == INSTANCE RecordStore WITH
  shown <- [i \in Ids |-> Value(dir[i])],
  safe <- [i \in Ids |-> Value(disk[i])],
  kept <- placed = "kept"

(* The repository implements the abstract store.                           *)
ImplementsStore == Store!Spec
=============================================================================
