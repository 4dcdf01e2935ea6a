-------------------------- MODULE JsonRecordsProofs -------------------------
(***************************************************************************)
(* The record repository for any number of writers, ids and payloads.      *)
(***************************************************************************)
EXTENDS JsonRecords, TLAPS

(* Every call knows what to publish and has an fsynced file when it does,  *)
(* so every file under a record name is whole.                             *)
CallsKnow ==
  \A w \in Writers :
    /\ pc[w] # "idle" => op[w] \in Op
    /\ pc[w] = "publish" => temp[w] = "synced"

Whole(f) == f = Absent \/ (f.val \in Payloads /\ f.synced = TRUE)

AllWhole == \A i \in Ids : Whole(dir[i]) /\ Whole(disk[i])

(* Records, and calls that are past mkdir, have a directory.               *)
Placed ==
  placed = "missing" =>
    /\ \A i \in Ids : dir[i] = Absent
    /\ \A w \in Writers : pc[w] \in {"idle", "check", "mkdir"}
    /\ created = {}

StoreInv == TypeOK /\ CallsKnow /\ AllWhole /\ Placed

(* A call publishes a whole file. *)
LEMMA TempWhole ==
  ASSUME StoreInv, NEW w \in Writers, pc[w] = "publish"
  PROVE /\ op[w] \in Op /\ op[w].id \in Ids /\ op[w].val \in Payloads
        /\ TempFile(w) = [val |-> op[w].val, synced |-> TRUE]
        /\ TempFile(w) \in File /\ Whole(TempFile(w)) /\ TempFile(w) # Absent
<1>1. op[w] \in Op /\ temp[w] = "synced"
  BY DEF StoreInv, CallsKnow
<1>2. op[w].id \in Ids /\ op[w].val \in Payloads
  BY <1>1 DEF Op
<1>3. TempFile(w) = [val |-> op[w].val, synced |-> TRUE]
  BY <1>1 DEF TempFile
<1>4. TempFile(w) \in File
  BY <1>2, <1>3 DEF File
<1>5. TempFile(w) # Absent
  BY <1>4, RecordConstants
<1>6. Whole(TempFile(w))
  BY <1>2, <1>3 DEF Whole
<1> QED
  BY <1>1, <1>2, <1>3, <1>4, <1>5, <1>6

LEMMA WholeInvariant == Spec => []StoreInv
<1> USE RecordConstants
<1>1. Init => StoreInv
  BY DEF Init, StoreInv, TypeOK, CallsKnow, AllWhole, Whole, Placed, Steps
<1>2. ASSUME StoreInv, [Next]_vars PROVE StoreInv'
  <2> USE <1>2 DEF StoreInv, TypeOK, CallsKnow, Placed, Steps, Goto
  <2>1. ASSUME NEW w \in Writers, Call(w) PROVE StoreInv'
    BY <2>1 DEF Call, Op, AllWhole, Whole
  <2>2. ASSUME NEW w \in Writers,
               \/ UpdateCheck(w) \/ MakeDir(w) \/ WriteTemp(w) \/ SyncTemp(w) \/ UnlinkTemp(w)
        PROVE StoreInv'
    <3>1. CASE UpdateCheck(w)
      <4>1. placed # "missing"
        BY <3>1 DEF UpdateCheck, Op
      <4> QED
        BY <3>1, <4>1 DEF UpdateCheck, AllWhole, Whole
    <3>2. CASE MakeDir(w)
      BY <3>2 DEF MakeDir, AllWhole, Whole
    <3>3. CASE WriteTemp(w) \/ SyncTemp(w) \/ UnlinkTemp(w)
      BY <3>3 DEF WriteTemp, SyncTemp, UnlinkTemp, AllWhole, Whole
    <3> QED
      BY <2>2, <3>1, <3>2, <3>3
  <2>3. ASSUME NEW w \in Writers,
               RecordNotFound(w) \/ RecordAlreadyExists(w) \/ Fail(w)
        PROVE StoreInv'
    BY <2>3 DEF RecordNotFound, RecordAlreadyExists, Fail, EndCalls, AllWhole, Whole
  <2>4. ASSUME NEW w \in Writers, Link(w) \/ Replace(w) PROVE StoreInv'
    <3>1. pc[w] = "publish"
      BY <2>4 DEF Link, Replace
    <3>2. /\ dir' = [dir EXCEPT ![op[w].id] = TempFile(w)] /\ disk' = disk
          /\ TempFile(w) \in File /\ Whole(TempFile(w))
      BY <2>4, <3>1, TempWhole DEF Link, Replace
    <3>3. dir' \in [Ids -> File \cup {Absent}] /\ AllWhole'
      BY <3>2 DEF AllWhole, Whole
    <3>4. placed # "missing"
      BY <3>1
    <3> QED
      BY <2>4, <3>2, <3>3, <3>4 DEF Link, Replace
  <2>5. ASSUME NEW w \in Writers, SyncDir(w) PROVE StoreInv'
    <3>1. op[w].kind = "add" => op[w].id \in Ids
      BY <2>5 DEF SyncDir, Op
    <3>2. placed # "missing"
      BY <2>5 DEF SyncDir
    <3> QED
      BY <2>5, <3>1, <3>2 DEF SyncDir, EndCalls, AllWhole, Whole
  <2>6. ASSUME NEW i \in Ids, WriteBack(i) PROVE StoreInv'
    BY <2>6 DEF WriteBack, calls, AllWhole, Whole
  <2>7. CASE PowerFailure
    <3>1. \A i \in Ids : Reread(disk[i]) = disk[i]
      BY DEF AllWhole, Whole, Reread
    <3>2. /\ dir' \in [Ids -> File \cup {Absent}]
          /\ \A i \in Ids : dir'[i] = IF placed = "kept" THEN disk[i] ELSE Absent
      BY <2>7, <3>1 DEF PowerFailure
    <3> QED
      BY <2>7, <3>2 DEF PowerFailure, EndCalls, AllWhole, Whole
  <2>8. CASE WriteBackParents
    BY <2>8 DEF WriteBackParents, calls, AllWhole, Whole
  <2>9. CASE UNCHANGED vars
    BY <2>9 DEF vars, calls, AllWhole, Whole
  <2> QED
    BY <2>1, <2>2, <2>3, <2>4, <2>5, <2>6, <2>7, <2>8, <2>9 DEF Next
<1> QED
  BY <1>1, <1>2, PTL DEF Spec

(* The variables of the repository keep their types.                       *)
THEOREM RecordTypes == Spec => []TypeOK
<1>1. StoreInv => TypeOK
  BY DEF StoreInv
<1> QED
  BY <1>1, WholeInvariant, PTL

(* No reader finds a torn record, under any crash, power failure or failed *)
(* directory fsync.                                                        *)
THEOREM RecordsNeverTorn == Spec => []NoTornRecord
<1>1. StoreInv => NoTornRecord
  BY RecordConstants DEF StoreInv, AllWhole, Whole, NoTornRecord
<1> QED
  BY <1>1, WholeInvariant, PTL

-----------------------------------------------------------------------------
(* An id stays taken from the link of its record on, so that a second link *)
(* fails; once created it is taken on disk as well.                        *)
Taken ==
  \A w \in Writers : Publishing(w) => dir[op[w].id] # Absent

CreatedTaken == \A i \in created : dir[i] # Absent /\ disk[i] # Absent

OnceInv == CreatedTaken /\ CreateOnce /\ Taken

(* Every step keeps taken ids taken. *)
LEMMA OnceInductive ==
  ASSUME StoreInv, StoreInv', OnceInv, [Next]_vars
  PROVE OnceInv'
<1> USE RecordConstants DEF OnceInv, CreatedTaken, CreateOnce, Taken, Publishing
<1>1. ASSUME NEW w \in Writers, Call(w) PROVE OnceInv'
  BY <1>1 DEF Call, StoreInv, TypeOK
<1>2. ASSUME NEW w \in Writers,
             UpdateCheck(w) \/ MakeDir(w) \/ WriteTemp(w) \/ SyncTemp(w) \/ UnlinkTemp(w)
      PROVE OnceInv'
  BY <1>2 DEF UpdateCheck, MakeDir, WriteTemp, SyncTemp, UnlinkTemp, Goto, StoreInv, TypeOK
<1>3. ASSUME NEW w \in Writers, RecordNotFound(w) \/ RecordAlreadyExists(w) \/ Fail(w)
      PROVE OnceInv'
  BY <1>3 DEF RecordNotFound, RecordAlreadyExists, Fail, EndCalls, StoreInv, TypeOK
<1>4. ASSUME NEW w \in Writers, Link(w) PROVE OnceInv'
  <2>1. /\ dir' = [dir EXCEPT ![op[w].id] = TempFile(w)] /\ TempFile(w) # Absent
        /\ op[w].id \in Ids /\ dir[op[w].id] = Absent
        /\ pc' = [pc EXCEPT ![w] = "unlink"] /\ UNCHANGED <<op, disk, created>>
    BY <1>4, TempWhole DEF Link, Goto
  <2> QED
    BY <2>1 DEF StoreInv, TypeOK
<1>5. ASSUME NEW w \in Writers, Replace(w) PROVE OnceInv'
  <2>1. /\ dir' = [dir EXCEPT ![op[w].id] = TempFile(w)] /\ TempFile(w) # Absent
        /\ op[w].id \in Ids /\ op[w].kind = "update"
        /\ pc' = [pc EXCEPT ![w] = "syncdir"] /\ UNCHANGED <<op, disk, created>>
    BY <1>5, TempWhole DEF Replace, Goto
  <2> QED
    BY <2>1 DEF StoreInv, TypeOK
<1>6. ASSUME NEW w \in Writers, SyncDir(w) PROVE OnceInv'
  <2>1. /\ dir' = dir /\ pc[w] = "syncdir"
        /\ \/ /\ disk' = dir
              /\ created' = IF op[w].kind = "add" THEN created \cup {op[w].id} ELSE created
           \/ disk' = disk /\ created' = created
        /\ \A x \in Writers : Publishing(x)' => Publishing(x) /\ x # w /\ op'[x] = op[x]
    BY <1>6 DEF SyncDir, EndCalls, StoreInv, TypeOK
  <2> QED
    BY <2>1
<1>7. ASSUME NEW i \in Ids, WriteBack(i) PROVE OnceInv'
  BY <1>7 DEF WriteBack, calls, StoreInv, TypeOK
<1>8. CASE PowerFailure
  <2>1. \A i \in Ids : Reread(disk[i]) = disk[i]
    BY DEF StoreInv, AllWhole, Whole, Reread
  <2>2. CASE placed = "kept"
    BY <1>8, <2>1, <2>2 DEF PowerFailure, EndCalls, StoreInv, TypeOK
  <2>3. CASE placed # "kept"
    BY <1>8, <2>3 DEF PowerFailure, EndCalls
  <2> QED
    BY <2>2, <2>3
<1>9. CASE WriteBackParents
  BY <1>9 DEF WriteBackParents, calls
<1>10. CASE UNCHANGED vars
  BY <1>10 DEF vars, calls
<1> QED
  BY <1>1, <1>2, <1>3, <1>4, <1>5, <1>6, <1>7, <1>8, <1>9, <1>10 DEF Next

LEMMA OnceInvariant == Spec => []OnceInv
<1>1. Init => OnceInv
  BY DEF Init, OnceInv, CreatedTaken, CreateOnce, Taken, Publishing
<1>2. StoreInv /\ StoreInv' /\ OnceInv /\ [Next]_vars => OnceInv'
  BY OnceInductive
<1> QED
  BY <1>1, <1>2, WholeInvariant, PTL DEF Spec

(* A created record is on disk, so no step takes it but a power failure    *)
(* that takes the directory, and only while the directory is not on disk.  *)
THEOREM AddedRecordsSurvive == Spec => AddedSurvives
<1>1. ASSUME StoreInv, StoreInv', OnceInv, [Next]_vars
      PROVE [\A i \in created : dir'[i] = Absent => DirectoryLost]_vars
  <2> SUFFICES ASSUME NEW i \in created, dir'[i] = Absent
               PROVE DirectoryLost
    OBVIOUS
  <2>1. i \in Ids /\ dir[i] # Absent /\ disk[i] # Absent /\ placed # "missing"
    BY <1>1 DEF StoreInv, TypeOK, OnceInv, CreatedTaken, Placed
  <2>2. OnceInv'
    BY <1>1, OnceInductive
  <2>3. created # created'
    BY <2>1, <2>2 DEF OnceInv, CreatedTaken
  <2>4. ~ \E w \in Writers : SyncDir(w)
    BY <2>1, <2>2 DEF SyncDir
  <2>5. PowerFailure
    BY <1>1, <2>3, <2>4 DEF Next, vars, Call, UpdateCheck, RecordNotFound, MakeDir, WriteTemp,
       SyncTemp, Link, RecordAlreadyExists, UnlinkTemp, Replace, Fail, WriteBack,
       WriteBackParents
  <2>6. placed # "kept" /\ placed' = "missing"
    BY <2>3, <2>5 DEF PowerFailure
  <2> QED
    BY <1>1, <2>1, <2>6 DEF DirectoryLost, StoreInv, TypeOK
<1> QED
  BY <1>1, WholeInvariant, OnceInvariant, PTL DEF Spec, AddedSurvives

(* add is create-once for the ids of a directory.                          *)
THEOREM AddsOnce == Spec => []CreateOnce
<1>1. OnceInv => CreateOnce
  BY DEF OnceInv
<1> QED
  BY <1>1, OnceInvariant, PTL

-----------------------------------------------------------------------------
Shown == [i \in Ids |-> Value(dir[i])]
Safe == [i \in Ids |-> Value(disk[i])]

(* Publication is an atomic add or update, write-back settles records, and *)
(* a power failure goes back to the settled ones.                          *)
THEOREM RecordsImplementStore == Spec => ImplementsStore
<1> USE RecordConstants
<1>1. Init => Store!Init
  BY DEF Init, Store!Init, Store!Nothing, Value
<1>2. ASSUME StoreInv, [Next]_vars PROVE [Store!Next]_(Store!vars)
  <2>1. ASSUME NEW w \in Writers, Link(w) \/ Replace(w) PROVE Store!Next
    <3> DEFINE i == op[w].id
               v == op[w].val
    <3>1. pc[w] = "publish"
      BY <2>1 DEF Link, Replace
    <3>2. /\ i \in Ids /\ v \in Payloads /\ TempFile(w) # Absent /\ TempFile(w).val = v
          /\ dir' = [dir EXCEPT ![i] = TempFile(w)] /\ disk' = disk /\ placed' = placed
      BY <1>2, <2>1, <3>1, TempWhole DEF Link, Replace
    <3>3. Shown' = [Shown EXCEPT ![i] = v] /\ Safe' = Safe
      BY <1>2, <3>2 DEF StoreInv, TypeOK, Shown, Safe, Value
    <3>4. Store!Add(i, v) \/ Store!Update(i, v)
      BY <3>2, <3>3 DEF Store!Add, Store!Update, Shown, Safe
    <3> QED
      BY <3>2, <3>4 DEF Store!Next
  <2>2. ASSUME NEW S \in SUBSET Ids, dir' = dir, placed' = placed,
               \A i \in Ids : disk'[i] = IF i \in S THEN dir[i] ELSE disk[i]
        PROVE Store!Next
    <3>1. Store!Settle(S)
      BY <2>2 DEF Store!Settle, Value
    <3> QED
      BY <3>1 DEF Store!Next
  <2>3. ASSUME NEW w \in Writers, SyncDir(w) PROVE [Store!Next]_(Store!vars)
    <3>1. CASE disk' = dir
      BY <1>2, <2>2, <2>3, <3>1 DEF SyncDir
    <3>2. CASE disk' = disk
      BY <2>3, <3>2 DEF SyncDir, Store!vars
    <3> QED
      BY <2>3, <3>1, <3>2 DEF SyncDir
  <2>4. ASSUME NEW i \in Ids, WriteBack(i) PROVE Store!Next
    <3>1. \A j \in Ids : disk'[j] = IF j \in {i} THEN dir[j] ELSE disk[j]
      BY <1>2, <2>4 DEF WriteBack, StoreInv, TypeOK
    <3> QED
      BY <2>2, <2>4, <3>1 DEF WriteBack
  <2>5. CASE PowerFailure
    <3>1. \A i \in Ids : Reread(disk[i]) = disk[i]
      BY <1>2 DEF StoreInv, AllWhole, Whole, Reread
    <3>2. /\ \A i \in Ids : dir'[i] = IF placed = "kept" THEN disk[i] ELSE Absent
          /\ disk' = dir' /\ (placed' = "kept" <=> placed = "kept")
      BY <2>5, <3>1 DEF PowerFailure
    <3>3. Safe' = Shown'
      BY <3>2 DEF Safe, Shown
    <3>4. Shown' = IF placed = "kept" THEN Safe ELSE Store!Nothing
      BY <3>2 DEF Safe, Shown, Value, Store!Nothing
    <3>5. Store!PowerFailure
      BY <3>2, <3>3, <3>4 DEF Store!PowerFailure, Safe, Shown
    <3> QED
      BY <3>5 DEF Store!Next
  <2>6. CASE WriteBackParents
    BY <2>6 DEF WriteBackParents, Store!Keep, Store!Next
  <2>7. ASSUME UNCHANGED <<dir, disk, placed>> PROVE UNCHANGED Store!vars
    BY <2>7 DEF Store!vars
  <2>8. \/ \E w \in Writers : Link(w) \/ Replace(w) \/ SyncDir(w)
        \/ \E i \in Ids : WriteBack(i)
        \/ PowerFailure \/ WriteBackParents
        \/ (UNCHANGED <<dir, disk, placed>>) \/ \E w \in Writers : MakeDir(w)
    BY <1>2 DEF Next, vars, Call, UpdateCheck, RecordNotFound, WriteTemp, SyncTemp,
       RecordAlreadyExists, UnlinkTemp, Fail
  <2>9. ASSUME NEW w \in Writers, MakeDir(w) PROVE UNCHANGED Store!vars
    BY <2>9 DEF MakeDir, Store!vars
  <2> QED
    BY <2>1, <2>3, <2>4, <2>5, <2>6, <2>7, <2>8, <2>9
<1> QED
  BY <1>1, <1>2, WholeInvariant, PTL DEF Spec, ImplementsStore, Store!Spec
=============================================================================
