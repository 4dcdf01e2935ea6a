-------------------------- MODULE ManagedRunsProofs -------------------------
(***************************************************************************)
(* Proofs about managed runs, for any number of runs and files and under   *)
(* every set of faults.                                                    *)
(*                                                                         *)
(* Attribution rests on what may be in the workspace while a run holds the *)
(* session's lock: files as the run found them, and files written since by *)
(* the run itself, by the user, or by code that outlived its call.         *)
(***************************************************************************)
EXTENDS ManagedRuns, FiniteSetTheorems, TLAPS

Copying == {"copying", "hashed"}
Scanning == {"ready", "running", "ran"}

(* Whoever is inside has the lock, and the lock is his who is inside. *)
LockInv ==
  /\ \A e \in Runs : pc[e] \in Inside <=> lock = e
  /\ lock = NoRun \/ lock \in Runs

(* Code runs while its call waits for it, or has outlived its call. *)
CodeInv == \A e \in code : e \in escaped \/ pc[e] = "running"

Outside(e, f) == f.by = User \/ f.by \in escaped

(* What a run finds in the workspace apart from what was there before it. *)
FilesInv ==
  \A e \in Runs, p \in Paths :
    pc[e] \in Scanning /\ files[p] # NoFile /\ files[p] # before[e][p] =>
      files[p].by = e \/ Outside(e, files[p])

(* The files a run registers. *)
TodoInv ==
  \A e \in Runs : pc[e] \in Copying =>
    \A p \in todo[e] : files[p] # NoFile => files[p].by = e \/ Outside(e, files[p])

(* The file a run has hashed and is about to copy. *)
DigestOf(e) ==
  /\ todo[e] # {}
  /\ files[Current(e)] # NoFile =>
       Outside(e, files[Current(e)]) \/ files[Current(e)].data = digest[e]

DigestInv == \A e \in Runs : pc[e] = "hashed" => DigestOf(e)

WorkspaceInv == TypeOK /\ LockInv /\ CodeInv /\ FilesInv /\ TodoInv /\ DigestInv

-----------------------------------------------------------------------------
LEMMA CurrentIn == ASSUME NEW e \in Runs, todo[e] # {} PROVE Current(e) \in todo[e]
BY DEF Current

LEMMA TypeInit == Init => TypeOK
BY RunConstants DEF Init, TypeOK, File, Outcomes, Inside, Ended

LEMMA TypeStep == TypeOK /\ DigestInv /\ [Next]_vars => TypeOK'
<1> SUFFICES ASSUME TypeOK, DigestInv, [Next]_vars PROVE TypeOK'
  OBVIOUS
<1> USE RunConstants DEF TypeOK, Goto, Quiet, workspace, Inside, Ended
<1>1. ASSUME NEW e \in Runs, Start(e) PROVE TypeOK'
  BY <1>1 DEF Start
<1>2. ASSUME NEW e \in Runs, SetupFails(e) PROVE TypeOK'
  BY <1>2 DEF SetupFails
<1>3. ASSUME NEW e \in Runs, Launch(e) PROVE TypeOK'
  BY <1>3 DEF Launch
<1>4. ASSUME NEW p \in Paths, NEW who \in Runs \cup {User}, Put(p, who) \/ Remove(p)
      PROVE  files' \in [Paths -> File \cup {NoFile}] /\ clock' \in 0 .. MaxWrites
  <2>1. CASE Put(p, who)
    <3>1. PICK sz \in Sizes :
            /\ clock < MaxWrites /\ clock' = clock + 1
            /\ files' = [files EXCEPT ![p] = [size |-> sz, data |-> clock', by |-> who]]
      BY <2>1 DEF Put
    <3>2. clock' \in 0 .. MaxWrites
      BY <3>1
    <3>3. [size |-> sz, data |-> clock', by |-> who] \in File
      BY <3>2 DEF File
    <3> QED
      BY <3>1, <3>2, <3>3
  <2>2. CASE Remove(p)
    BY <2>2 DEF Remove
  <2> QED
    BY <1>4, <2>1, <2>2
<1>5. ASSUME NEW e \in Runs, Work(e) PROVE TypeOK'
  BY <1>4, <1>5 DEF Work
<1>6. ASSUME NEW e \in Runs, ExecuteReturns(e) PROVE TypeOK'
  BY <1>6 DEF ExecuteReturns
<1>7. ASSUME NEW e \in Runs, ExecuteRaises(e) PROVE TypeOK'
  BY <1>7 DEF ExecuteRaises
<1>8. ASSUME NEW e \in Runs, Scan(e) PROVE TypeOK'
  <2> DEFINE changed == {p \in Paths : files[p] # NoFile /\ files[p] # before[e][p]}
  <2>1. changed \in SUBSET Paths
    OBVIOUS
  <2> HIDE DEF changed
  <2>2. pc[e] = "ran" /\ pc' \in [Runs -> {"new", "recording"} \cup Inside \cup Ended]
    BY <1>8 DEF Scan
  <2>3. todo' = [todo EXCEPT ![e] = changed] \/ UNCHANGED todo
    BY <1>8 DEF Scan, changed
  <2>4. todo' \in [Runs -> SUBSET Paths]
    BY <2>1, <2>3
  <2> QED
    BY <1>8, <2>2, <2>4 DEF Scan
<1>9. ASSUME NEW e \in Runs, Hash(e) PROVE TypeOK'
  <2>1. Current(e) \in Paths /\ files[Current(e)] \in File
    BY <1>9, CurrentIn DEF Hash
  <2> QED
    BY <1>9, <2>1 DEF Hash, File
<1>10. ASSUME NEW e \in Runs, Copy(e) PROVE TypeOK'
  <2>1. Current(e) \in Paths /\ files[Current(e)] \in File
    BY <1>10, CurrentIn DEF Copy, DigestInv, DigestOf
  <2>2. [run |-> e, path |-> Current(e), size |-> files[Current(e)].size, sha256 |-> digest[e],
         data |-> files[Current(e)].data, by |-> files[Current(e)].by] \in Artifact
    BY <2>1 DEF File, Artifact
  <2>3. arts' \subseteq Artifact
    BY <1>10, <2>2 DEF Copy
  <2>4. returned' \in [Runs -> SUBSET Paths] /\ todo' \in [Runs -> SUBSET Paths]
    BY <1>10, <2>1 DEF Copy
  <2>5. pc' \in [Runs -> {"new", "recording"} \cup Inside \cup Ended]
    BY <1>10 DEF Copy
  <2> QED
    BY <1>10, <2>3, <2>4, <2>5 DEF Copy
<1>11. ASSUME NEW e \in Runs, Skip(e) PROVE TypeOK'
  BY <1>11 DEF Skip
<1>12. ASSUME NEW e \in Runs, RegistrationFails(e) PROVE TypeOK'
  BY <1>12 DEF RegistrationFails
<1>13. ASSUME NEW e \in Runs, Unlock(e) PROVE TypeOK'
  BY <1>13 DEF Unlock
<1>14. ASSUME NEW e \in Runs, NEW status \in Outcomes, NEW paths \in SUBSET Paths,
              AddRecord(e, status, paths)
       PROVE  execs' \in [Runs -> Record \cup {NoRecord}]
  <2>1. [status |-> status, arts |-> paths] \in Record
    BY DEF Record
  <2> QED
    BY <1>14, <2>1 DEF AddRecord
<1>22. \A e \in Runs : Registered(e) \in SUBSET Paths /\ outcome[e] \in Outcomes /\ "failed" \in Outcomes
  BY DEF Registered, ArtifactsOf, Artifact, Outcomes
<1>15. ASSUME NEW e \in Runs, RecordRun(e) PROVE TypeOK'
  BY <1>14, <1>15, <1>22 DEF RecordRun
<1>16. ASSUME NEW e \in Runs, RecordFailure(e) PROVE TypeOK'
  BY <1>14, <1>16, <1>22 DEF RecordFailure
<1>17. ASSUME NEW e \in Runs, AddFails(e) PROVE TypeOK'
  <2>1. execs' \in [Runs -> Record \cup {NoRecord}]
    BY <1>14, <1>17, <1>22 DEF AddFails
  <2> QED
    BY <1>17, <2>1 DEF AddFails
<1>18. ASSUME NEW e \in Runs, OrphanEnds(e) PROVE TypeOK'
  BY <1>18 DEF OrphanEnds
<1>19. CASE UserEdits
  BY <1>4, <1>19 DEF UserEdits
<1>20. CASE Crash
  BY <1>20 DEF Crash
<1>21. CASE UNCHANGED vars
  BY <1>21 DEF vars
<1> QED
  BY <1>1, <1>2, <1>3, <1>5, <1>6, <1>7, <1>8, <1>9, <1>10, <1>11, <1>12, <1>13, <1>15, <1>16,
     <1>17, <1>18, <1>19, <1>20, <1>21 DEF Next
LEMMA LockStep == TypeOK /\ LockInv /\ [Next]_vars => LockInv'
<1> SUFFICES ASSUME TypeOK, LockInv, [Next]_vars PROVE LockInv'
  OBVIOUS
<1> USE RunConstants DEF TypeOK, LockInv, Goto, Quiet, workspace, Inside
<1>1. ASSUME NEW e \in Runs,
             Start(e) \/ SetupFails(e) \/ Launch(e) \/ Work(e) \/ ExecuteReturns(e) \/ ExecuteRaises(e)
      PROVE  LockInv'
  BY <1>1 DEF Start, SetupFails, Launch, Work, ExecuteReturns, ExecuteRaises
<1>2. ASSUME NEW e \in Runs,
             Scan(e) \/ Hash(e) \/ Copy(e) \/ Skip(e) \/ RegistrationFails(e) \/ Unlock(e)
      PROVE  LockInv'
  BY <1>2 DEF Scan, Hash, Copy, Skip, RegistrationFails, Unlock
<1>3. ASSUME NEW e \in Runs, RecordRun(e) \/ RecordFailure(e) \/ AddFails(e) \/ OrphanEnds(e)
      PROVE  LockInv'
  BY <1>3 DEF RecordRun, RecordFailure, AddFails, OrphanEnds
<1>4. CASE UserEdits \/ Crash \/ UNCHANGED vars
  BY <1>4 DEF UserEdits, Crash, vars
<1> QED
  BY <1>1, <1>2, <1>3, <1>4 DEF Next

LEMMA CodeStep == TypeOK /\ CodeInv /\ [Next]_vars => CodeInv'
<1> SUFFICES ASSUME TypeOK, CodeInv, [Next]_vars PROVE CodeInv'
  OBVIOUS
<1> USE DEF TypeOK, CodeInv, Goto, Quiet, workspace
<1>1. ASSUME NEW e \in Runs,
             Start(e) \/ SetupFails(e) \/ Launch(e) \/ Work(e) \/ ExecuteReturns(e) \/ ExecuteRaises(e)
      PROVE  CodeInv'
  BY <1>1 DEF Start, SetupFails, Launch, Work, ExecuteReturns, ExecuteRaises
<1>2. ASSUME NEW e \in Runs,
             Scan(e) \/ Hash(e) \/ Copy(e) \/ Skip(e) \/ RegistrationFails(e) \/ Unlock(e)
      PROVE  CodeInv'
  BY <1>2 DEF Scan, Hash, Copy, Skip, RegistrationFails, Unlock
<1>3. ASSUME NEW e \in Runs, RecordRun(e) \/ RecordFailure(e) \/ AddFails(e) \/ OrphanEnds(e)
      PROVE  CodeInv'
  BY <1>3 DEF RecordRun, RecordFailure, AddFails, OrphanEnds
<1>4. CASE UserEdits \/ Crash \/ UNCHANGED vars
  BY <1>4 DEF UserEdits, Crash, vars
<1> QED
  BY <1>1, <1>2, <1>3, <1>4 DEF Next

-----------------------------------------------------------------------------
(* How a step changes the workspace: nothing ever stops being outside, and *)
(* a file that changes is written by the user or by code that is running.  *)
LEMMA FilesChange ==
  ASSUME TypeOK, LockInv, CodeInv, [Next]_vars
  PROVE  /\ escaped \subseteq escaped'
         /\ \A p \in Paths : files'[p] # files[p] =>
              \/ files'[p] = NoFile
              \/ files'[p].by = User
              \/ files'[p].by \in escaped
              \/ pc[files'[p].by] = "running" /\ files'[p].by \in Runs
         /\ files' # files => UNCHANGED <<pc, todo, digest, before>>
<1> USE DEF TypeOK, Goto, Quiet, workspace
<1>1. ASSUME NEW q \in Paths, NEW who \in Runs \cup {User}, Put(q, who) \/ Remove(q)
      PROVE  \A p \in Paths : files'[p] # files[p] => files'[p] = NoFile \/ files'[p].by = who
  BY <1>1 DEF Put, Remove
<1>2. CASE \E e \in Runs : Work(e)
  BY <1>1, <1>2 DEF Work, CodeInv
<1>3. CASE UserEdits
  BY <1>1, <1>3 DEF UserEdits
<1>4. CASE Crash \/ UNCHANGED vars
  BY <1>4 DEF Crash, vars
<1>5. ASSUME NEW e \in Runs,
             Start(e) \/ SetupFails(e) \/ Launch(e) \/ ExecuteReturns(e) \/ ExecuteRaises(e)
      PROVE  escaped \subseteq escaped' /\ files' = files
  BY <1>5 DEF Start, SetupFails, Launch, ExecuteReturns, ExecuteRaises
<1>6. ASSUME NEW e \in Runs,
             Scan(e) \/ Hash(e) \/ Copy(e) \/ Skip(e) \/ RegistrationFails(e) \/ Unlock(e)
      PROVE  escaped \subseteq escaped' /\ files' = files
  BY <1>6 DEF Scan, Hash, Copy, Skip, RegistrationFails, Unlock
<1>7. ASSUME NEW e \in Runs, RecordRun(e) \/ RecordFailure(e) \/ AddFails(e) \/ OrphanEnds(e)
      PROVE  escaped \subseteq escaped' /\ files' = files
  BY <1>7 DEF RecordRun, RecordFailure, AddFails, OrphanEnds
<1> QED
  BY <1>2, <1>3, <1>4, <1>5, <1>6, <1>7 DEF Next

(* How a step changes what a run that is inside remembers.                 *)
Remembers(e) ==
  /\ pc'[e] \in Scanning =>
       \/ pc[e] \in Scanning /\ before'[e] = before[e]
       \/ before'[e] = files /\ files' = files
  /\ pc'[e] \in Copying =>
       \/ pc[e] \in Copying /\ todo'[e] \subseteq todo[e]
       \/ /\ pc[e] \in Scanning /\ files' = files
          /\ todo'[e] = {p \in Paths : files[p] # NoFile /\ files[p] # before[e][p]}
  /\ pc'[e] = "hashed" =>
       /\ todo'[e] = todo[e]
       /\ \/ pc[e] = "hashed" /\ digest'[e] = digest[e]
          \/ /\ todo[e] # {} /\ files' = files
             /\ digest'[e] = files[Current(e)].data

LEMMA Memory == TypeOK /\ [Next]_vars => \A e \in Runs : Remembers(e)
<1> SUFFICES ASSUME TypeOK, [Next]_vars, NEW e \in Runs PROVE Remembers(e)
  OBVIOUS
<1> USE DEF TypeOK, Goto, Quiet, workspace, Scanning, Copying, Inside, Ended, Remembers
<1>1. ASSUME NEW f \in Runs,
             Start(f) \/ SetupFails(f) \/ Launch(f) \/ Work(f) \/ ExecuteReturns(f) \/ ExecuteRaises(f)
      PROVE  Remembers(e)
  BY <1>1 DEF Start, SetupFails, Launch, Work, ExecuteReturns, ExecuteRaises
<1>2. ASSUME NEW f \in Runs, Scan(f)
      PROVE  Remembers(e)
  BY <1>2 DEF Scan
<1>3. ASSUME NEW f \in Runs, Hash(f) \/ Copy(f) \/ Skip(f) \/ RegistrationFails(f) \/ Unlock(f)
      PROVE  Remembers(e)
  BY <1>3 DEF Hash, Copy, Skip, RegistrationFails, Unlock
<1>4. ASSUME NEW f \in Runs, RecordRun(f) \/ RecordFailure(f) \/ AddFails(f) \/ OrphanEnds(f)
      PROVE  Remembers(e)
  BY <1>4 DEF RecordRun, RecordFailure, AddFails, OrphanEnds
<1>5. CASE UserEdits \/ Crash \/ UNCHANGED vars
  BY <1>5 DEF UserEdits, Crash, vars
<1> QED
  BY <1>1, <1>2, <1>3, <1>4, <1>5 DEF Next

(* What a step may do to a file while run e is inside. *)
LEMMA FileWritten ==
  ASSUME TypeOK, LockInv, CodeInv, [Next]_vars,
         NEW e \in Runs, pc[e] \in Inside, NEW p \in Paths, files'[p] # files[p],
         files'[p] # NoFile
  PROVE  Outside(e, files'[p]) \/ (files'[p].by = e /\ pc[e] = "running")
<1>1. \/ files'[p].by = User
      \/ files'[p].by \in escaped
      \/ pc[files'[p].by] = "running" /\ files'[p].by \in Runs
  BY FilesChange
<1>2. ASSUME NEW f \in Runs, pc[f] = "running" PROVE f = e /\ pc[e] = "running"
  <2>1. pc[f] \in Inside
    BY <1>2 DEF Inside
  <2> QED
    BY <1>2, <2>1 DEF LockInv
<1>3. CASE files'[p].by = User \/ files'[p].by \in escaped
  BY <1>3 DEF Outside
<1>4. CASE pc[files'[p].by] = "running" /\ files'[p].by \in Runs
  BY <1>2, <1>4
<1> QED
  BY <1>1, <1>3, <1>4

LEMMA FilesStep == WorkspaceInv /\ [Next]_vars => FilesInv'
<1> SUFFICES ASSUME WorkspaceInv, [Next]_vars, NEW e \in Runs, NEW p \in Paths,
                    pc'[e] \in Scanning, files'[p] # NoFile, files'[p] # before'[e][p]
             PROVE  files'[p].by = e \/ files'[p].by = User \/ files'[p].by \in escaped'
  BY DEF FilesInv, Outside
<1> USE DEF WorkspaceInv
<1>1. escaped \subseteq escaped'
  BY FilesChange
<1>2. pc[e] \in Scanning /\ before'[e] = before[e]
  BY Memory DEF Remembers
<1>3. CASE files'[p] = files[p]
  BY <1>1, <1>2, <1>3 DEF FilesInv, Outside
<1>4. CASE files'[p] # files[p]
  BY <1>1, <1>2, <1>4, FileWritten DEF Scanning, Inside, Outside
<1> QED
  BY <1>3, <1>4

LEMMA TodoStep == WorkspaceInv /\ [Next]_vars => TodoInv'
<1> SUFFICES ASSUME WorkspaceInv, [Next]_vars, NEW e \in Runs, pc'[e] \in Copying,
                    NEW p \in todo'[e], files'[p] # NoFile
             PROVE  files'[p].by = e \/ files'[p].by = User \/ files'[p].by \in escaped'
  BY DEF TodoInv, Outside
<1> USE DEF WorkspaceInv
<1>1. escaped \subseteq escaped'
  BY FilesChange
<1>2. CASE pc[e] \in Copying /\ todo'[e] \subseteq todo[e]
  <2>1. p \in Paths
    BY <1>2 DEF TypeOK
  <2>2. CASE files'[p] = files[p]
    BY <1>1, <1>2, <2>2 DEF TodoInv, Outside
  <2>3. CASE files'[p] # files[p]
    BY <1>1, <1>2, <2>1, <2>3, FileWritten DEF Copying, Inside, Outside
  <2> QED
    BY <2>2, <2>3
<1>3. CASE /\ pc[e] \in Scanning /\ files' = files
           /\ todo'[e] = {q \in Paths : files[q] # NoFile /\ files[q] # before[e][q]}
  BY <1>1, <1>3 DEF FilesInv, Outside
<1> QED
  BY <1>2, <1>3, Memory DEF Remembers

LEMMA DigestStep == WorkspaceInv /\ [Next]_vars => DigestInv'
<1> SUFFICES ASSUME WorkspaceInv, [Next]_vars, NEW e \in Runs, pc'[e] = "hashed"
             PROVE  DigestOf(e)'
  BY DEF DigestInv
<1> USE DEF WorkspaceInv
<1>1. todo'[e] = todo[e] /\ escaped \subseteq escaped'
  BY Memory, FilesChange DEF Remembers
<1>2. SUFFICES /\ todo[e] # {}
               /\ files'[Current(e)] # NoFile =>
                    \/ Outside(e, files'[Current(e)])
                    \/ files'[Current(e)].data = digest'[e]
  BY <1>1 DEF DigestOf, Outside, Current
<1>3. CASE pc[e] = "hashed" /\ digest'[e] = digest[e]
  <2>1. DigestOf(e) /\ todo[e] # {} /\ Current(e) \in Paths
    BY <1>3, CurrentIn DEF DigestInv, DigestOf, TypeOK
  <2>2. CASE files'[Current(e)] = files[Current(e)]
    BY <1>3, <2>1, <2>2 DEF DigestOf
  <2>3. CASE files'[Current(e)] # files[Current(e)]
    BY <1>3, <2>1, <2>3, FileWritten DEF Inside
  <2> QED
    BY <2>2, <2>3
<1>4. CASE todo[e] # {} /\ files' = files /\ digest'[e] = files[Current(e)].data
  BY <1>4
<1> QED
  BY <1>3, <1>4, Memory DEF Remembers

LEMMA WorkspaceInit == Init => WorkspaceInv
<1> SUFFICES ASSUME Init PROVE WorkspaceInv
  OBVIOUS
<1>1. /\ \A e \in Runs : pc[e] = "new"
      /\ lock = NoRun /\ lock \notin Runs /\ code = {}
  BY RunConstants DEF Init
<1>2. LockInv /\ CodeInv
  BY <1>1 DEF LockInv, CodeInv, Inside
<1>3. FilesInv /\ TodoInv /\ DigestInv
  BY <1>1 DEF FilesInv, TodoInv, DigestInv, Scanning, Copying
<1> QED
  BY <1>2, <1>3, TypeInit DEF WorkspaceInv

LEMMA WorkspaceStep == WorkspaceInv /\ [Next]_vars => WorkspaceInv'
BY TypeStep, LockStep, CodeStep, FilesStep, TodoStep, DigestStep DEF WorkspaceInv

(* execute_python under the session's lock: a file found in the workspace  *)
(* is one the snapshot saw, one the running code wrote, or an exception.   *)
THEOREM WorkspaceHeld == Spec => []WorkspaceInv
BY WorkspaceInit, WorkspaceStep, PTL DEF Spec

(* The types of the variables. *)
THEOREM Typing == Spec => []TypeOK
<1>1. WorkspaceInv => TypeOK
  BY DEF WorkspaceInv
<1> QED
  BY <1>1, WorkspaceHeld, PTL

-----------------------------------------------------------------------------
(* Artifacts stay, and a new one is the file a run has hashed.             *)
LEMMA ArtsChange ==
  ASSUME TypeOK, [Next]_vars
  PROVE  /\ arts \subseteq arts'
         /\ \A a \in arts' \ arts :
              LET p == Current(a.run) IN
              /\ a.run \in Runs /\ pc[a.run] = "hashed"
              /\ files[p] # NoFile /\ a.by = files[p].by
              /\ a.sha256 = digest[a.run] /\ a.data = files[p].data
<1> USE DEF TypeOK, Goto, Quiet, workspace
<1>1. ASSUME NEW f \in Runs, Copy(f)
      PROVE  /\ arts \subseteq arts'
             /\ \A a \in arts' \ arts :
                  LET p == Current(a.run) IN
                  /\ a.run \in Runs /\ pc[a.run] = "hashed"
                  /\ files[p] # NoFile /\ a.by = files[p].by
                  /\ a.sha256 = digest[a.run] /\ a.data = files[p].data
  BY <1>1 DEF Copy
<1>2. ASSUME NEW f \in Runs,
             Start(f) \/ SetupFails(f) \/ Launch(f) \/ Work(f) \/ ExecuteReturns(f) \/ ExecuteRaises(f)
      PROVE  UNCHANGED arts
  BY <1>2 DEF Start, SetupFails, Launch, Work, ExecuteReturns, ExecuteRaises
<1>3. ASSUME NEW f \in Runs, Scan(f) \/ Hash(f) \/ Skip(f) \/ RegistrationFails(f) \/ Unlock(f)
      PROVE  UNCHANGED arts
  BY <1>3 DEF Scan, Hash, Skip, RegistrationFails, Unlock
<1>4. ASSUME NEW f \in Runs, RecordRun(f) \/ RecordFailure(f) \/ AddFails(f) \/ OrphanEnds(f)
      PROVE  UNCHANGED arts
  BY <1>4 DEF RecordRun, RecordFailure, AddFails, OrphanEnds
<1>5. CASE UserEdits \/ Crash \/ UNCHANGED vars
  BY <1>5 DEF UserEdits, Crash, vars
<1> QED
  BY <1>1, <1>2, <1>3, <1>4, <1>5 DEF Next

(* Files are attributed to the run whose code wrote them, except what the  *)
(* user or code that outlived its call wrote.                              *)
THEOREM Attribution == Spec => []ArtifactsAttributed
<1>1. Init => ArtifactsAttributed
  BY DEF Init, ArtifactsAttributed
<1>2. WorkspaceInv /\ ArtifactsAttributed /\ [Next]_vars => ArtifactsAttributed'
  <2> SUFFICES ASSUME WorkspaceInv, ArtifactsAttributed, [Next]_vars, NEW a \in arts'
               PROVE  a.by = User \/ a.by \in escaped' \/ a.by = a.run
    BY DEF ArtifactsAttributed, Foreign
  <2> USE DEF WorkspaceInv
  <2>1. escaped \subseteq escaped'
    BY FilesChange
  <2>2. CASE a \in arts
    BY <2>1, <2>2 DEF ArtifactsAttributed, Foreign
  <2>3. CASE a \notin arts
    <3>1. /\ a.run \in Runs /\ pc[a.run] = "hashed"
          /\ files[Current(a.run)] # NoFile /\ a.by = files[Current(a.run)].by
      BY <2>3, ArtsChange
    <3>2. Current(a.run) \in todo[a.run]
      BY <3>1, CurrentIn DEF DigestInv, DigestOf
    <3> QED
      BY <2>1, <3>1, <3>2 DEF TodoInv, Copying, Outside
  <2> QED
    BY <2>2, <2>3
<1> QED
  BY <1>1, <1>2, WorkspaceHeld, PTL DEF Spec

(* The sha256 of an artifact is that of the bytes archived, except for     *)
(* files the user or code that outlived its call wrote.                    *)
THEOREM Digests == Spec => []DigestMatches
<1>1. Init => DigestMatches
  BY DEF Init, DigestMatches
<1>2. WorkspaceInv /\ DigestMatches /\ [Next]_vars => DigestMatches'
  <2> SUFFICES ASSUME WorkspaceInv, DigestMatches, [Next]_vars, NEW a \in arts'
               PROVE  a.by = User \/ a.by \in escaped' \/ a.sha256 = a.data
    BY DEF DigestMatches, Foreign
  <2> USE DEF WorkspaceInv
  <2>1. escaped \subseteq escaped'
    BY FilesChange
  <2>2. CASE a \in arts
    BY <2>1, <2>2 DEF DigestMatches, Foreign
  <2>3. CASE a \notin arts
    <3>1. /\ a.run \in Runs /\ pc[a.run] = "hashed"
          /\ files[Current(a.run)] # NoFile /\ a.by = files[Current(a.run)].by
          /\ a.sha256 = digest[a.run] /\ a.data = files[Current(a.run)].data
      BY <2>3, ArtsChange
    <3> QED
      BY <2>1, <3>1 DEF DigestInv, DigestOf, Outside
  <2> QED
    BY <2>2, <2>3
<1> QED
  BY <1>1, <1>2, WorkspaceHeld, PTL DEF Spec

-----------------------------------------------------------------------------
(* A run has no artifacts before its files are copied.  From then on, and  *)
(* until an add raises, those returned are those registered; a record,     *)
(* once added, names those registered, and its run registers no more.      *)
RecordInv ==
  \A e \in Runs :
    /\ pc[e] \in {"new"} \cup Scanning => Registered(e) = {} /\ returned[e] = {}
    /\ pc[e] \in Copying \cup {"recording"} => returned[e] = Registered(e)
    /\ execs[e] # NoRecord => pc[e] \in Ended /\ execs[e].arts = Registered(e)

LEMMA RecordStep ==
  ASSUME WorkspaceInv, RecordInv, [Next]_vars
  PROVE  RecordInv'
<1> USE DEF WorkspaceInv, TypeOK, Goto, Quiet, workspace, Scanning, Copying, Inside, Ended
<1>1. ASSUME UNCHANGED arts PROVE \A e \in Runs : Registered(e)' = Registered(e)
  BY <1>1 DEF Registered, ArtifactsOf
<1>2. ASSUME NEW f \in Runs,
             Start(f) \/ SetupFails(f) \/ Launch(f) \/ Work(f) \/ ExecuteReturns(f) \/ ExecuteRaises(f)
      PROVE  RecordInv'
  BY <1>1, <1>2 DEF RecordInv, Start, SetupFails, Launch, Work, ExecuteReturns, ExecuteRaises
<1>3. ASSUME NEW f \in Runs, Scan(f) \/ Hash(f) \/ Skip(f) \/ RegistrationFails(f) \/ Unlock(f)
      PROVE  RecordInv'
  BY ZenonT(60), <1>1, <1>3 DEF RecordInv, Scan, Hash, Skip, RegistrationFails, Unlock
<1>4. ASSUME NEW f \in Runs, Copy(f) PROVE RecordInv'
  <2> DEFINE p == Current(f)
             a == [run |-> f, path |-> p, size |-> files[p].size, sha256 |-> digest[f],
                   data |-> files[p].data, by |-> files[p].by]
  <2>1. arts' = arts \cup {a} /\ a.run = f /\ a.path = p
    BY <1>4 DEF Copy
  <2> HIDE DEF a, p
  <2>2. /\ Registered(f)' = Registered(f) \cup {p}
        /\ \A e \in Runs \ {f} : Registered(e)' = Registered(e)
    BY <2>1 DEF Registered, ArtifactsOf
  <2>3. /\ pc[f] = "hashed" /\ UNCHANGED execs
        /\ \/ /\ pc' = [pc EXCEPT ![f] = "copying"]
              /\ returned' = [returned EXCEPT ![f] = @ \cup {p}]
           \/ pc' = [pc EXCEPT ![f] = "failing"] /\ UNCHANGED returned
    BY <1>4 DEF Copy, p
  <2> QED
    BY ZenonT(60), <2>2, <2>3 DEF RecordInv
<1>5. ASSUME NEW f \in Runs, NEW status \in Outcomes, AddRecord(f, status, Registered(f)),
             pc[f] \in {"recording", "failing"}, UNCHANGED <<arts, returned>>,
             \E to \in Ended : pc' = [pc EXCEPT ![f] = to]
      PROVE  RecordInv'
  <2>1. execs' = [execs EXCEPT ![f] = [status |-> status, arts |-> Registered(f)]]
    BY <1>5 DEF AddRecord
  <2> QED
    BY <1>1, <1>5, <2>1 DEF RecordInv
<1>6. \A f \in Runs : outcome[f] \in Outcomes /\ "failed" \in Outcomes
  BY DEF Outcomes
<1>7. ASSUME NEW f \in Runs, RecordRun(f) \/ RecordFailure(f) PROVE RecordInv'
  <2>1. pc[f] = "recording" => returned[f] = Registered(f)
    BY DEF RecordInv
  <2> QED
    BY <1>5, <1>6, <1>7, <2>1 DEF RecordRun, RecordFailure
<1>8. ASSUME NEW f \in Runs, AddFails(f) PROVE RecordInv'
  <2>1. pc[f] = "recording" => returned[f] = Registered(f)
    BY DEF RecordInv
  <2>2. /\ pc[f] \in {"recording", "failing"} /\ UNCHANGED <<arts, returned>>
        /\ pc' = [pc EXCEPT ![f] = "unrecorded"]
    BY <1>8 DEF AddFails
  <2>3. CASE UNCHANGED execs
    BY <1>1, <2>2, <2>3 DEF RecordInv
  <2>4. CASE \E status \in Outcomes : AddRecord(f, status, Registered(f))
    BY <1>5, <2>2, <2>4
  <2> QED
    BY <1>6, <1>8, <2>1, <2>3, <2>4 DEF AddFails
<1>9. ASSUME NEW f \in Runs, OrphanEnds(f) PROVE RecordInv'
  BY <1>1, <1>9 DEF RecordInv, OrphanEnds
<1>10. CASE UserEdits \/ Crash \/ UNCHANGED vars
  BY <1>1, <1>10 DEF RecordInv, UserEdits, Crash, vars
<1> QED
  BY <1>2, <1>3, <1>4, <1>7, <1>8, <1>9, <1>10 DEF Next

(* A record names exactly the artifacts of its execution, be it made from  *)
(* the list returned or from the artifact records.                         *)
THEOREM RecordsNameAll == Spec => []RecordsExact
<1>1. Init => RecordInv
  BY DEF Init, RecordInv, Registered, ArtifactsOf, Scanning, Copying, Ended
<1>2. WorkspaceInv /\ RecordInv /\ [Next]_vars => RecordInv'
  BY RecordStep
<1>3. RecordInv => RecordsExact
  BY DEF RecordInv, RecordsExact
<1> QED
  BY <1>1, <1>2, <1>3, WorkspaceHeld, PTL DEF Spec

-----------------------------------------------------------------------------
(* Fewer files take no more bytes.                                         *)
LEMMA BytesMonotone ==
  ASSUME NEW f, NEW g, IsFiniteSet(ByteSet(g)), DOMAIN f \subseteq DOMAIN g,
         \A x \in DOMAIN f : f[x] = g[x]
  PROVE  IsFiniteSet(ByteSet(f)) /\ Bytes(f) \in Nat /\ Bytes(g) \in Nat /\ Bytes(f) <= Bytes(g)
<1>1. ByteSet(f) \subseteq ByteSet(g)
  BY DEF ByteSet
<1> QED
  BY <1>1, FS_Subset, FS_CardinalityType DEF Bytes

(* The bytes of one file.                                                  *)
LEMMA BytesOfOne ==
  ASSUME NEW x, NEW n \in Nat
  PROVE  IsFiniteSet({x} \X (1 .. n)) /\ Cardinality({x} \X (1 .. n)) = n
<1>1. IsFiniteSet(1 .. n) /\ Cardinality(1 .. n) = n
  <2>1. IsFiniteSet(1 .. n) /\ Cardinality(1 .. n) = IF 1 > n THEN 0 ELSE n - 1 + 1
    BY FS_Interval
  <2> QED
    BY <2>1
<1>2. IsFiniteSet({x}) /\ Cardinality({x}) = 1
  BY FS_Singleton
<1>3. /\ IsFiniteSet({x} \X (1 .. n))
      /\ Cardinality({x} \X (1 .. n)) = Cardinality({x}) * Cardinality(1 .. n)
  BY <1>1, <1>2, FS_Product
<1> QED
  BY <1>1, <1>2, <1>3

(* One file more takes its bytes more.                                     *)
LEMMA BytesSplit ==
  ASSUME NEW f, NEW g, NEW x, IsFiniteSet(ByteSet(g)), f[x] \in Nat,
         DOMAIN f = DOMAIN g \cup {x}, x \notin DOMAIN g, \A y \in DOMAIN g : f[y] = g[y]
  PROVE  /\ IsFiniteSet(ByteSet(f)) /\ Bytes(g) \in Nat
         /\ Bytes(f) = Bytes(g) + f[x]
<1> DEFINE One == {x} \X (1 .. f[x])
<1>1. IsFiniteSet(One) /\ Cardinality(One) = f[x]
  BY BytesOfOne
<1>2. ByteSet(f) = ByteSet(g) \cup One
  BY DEF ByteSet
<1>3. ByteSet(g) \cap One = {}
  BY DEF ByteSet
<1> HIDE DEF One
<1>4. Cardinality(ByteSet(g) \cap One) = 0
  BY <1>3, FS_EmptySet
<1>5. Cardinality(ByteSet(g)) \in Nat
  BY FS_CardinalityType
<1>6. /\ IsFiniteSet(ByteSet(g) \cup One)
      /\ Cardinality(ByteSet(g) \cup One) =
           Cardinality(ByteSet(g)) + Cardinality(One) - Cardinality(ByteSet(g) \cap One)
  BY <1>1, FS_Union
<1> QED
  BY <1>1, <1>2, <1>4, <1>5, <1>6 DEF Bytes

(* Artifacts that count, and the files of that kind a run has still to     *)
(* register.  What the limits admitted at the scan bounds both together    *)
(* until the last of them is copied: that is what makes the budget hold.   *)
Own == {a \in arts : ~ Foreign(a)}
Pending(e) == {p \in todo[e] : files[p] # NoFile /\ ~ Outside(e, files[p])}

SizesOf(A) == [a \in A |-> a.size]
FileSizes(P) == [p \in P |-> files[p].size]

QuotaInv ==
  /\ IsFiniteSet(ByteSet(SizesOf(arts)))
  /\ ArchiveBytes(Own) <= MaxTotalBytes
  /\ \A e \in Runs : pc[e] \in Copying =>
       /\ IsFiniteSet(ByteSet(FileSizes(Pending(e))))
       /\ ArchiveBytes(Own) + FileBytes(Pending(e)) <= MaxTotalBytes

(* Only a copy adds an artifact, and only the scan, within the limits,     *)
(* takes a run to its copies.                                              *)
LEMMA ArtsKept ==
  ASSUME TypeOK, [Next]_vars
  PROVE  UNCHANGED arts \/ \E e \in Runs : Copy(e)
<1> USE DEF TypeOK, Goto, Quiet, workspace
<1>1. ASSUME NEW f \in Runs,
             Start(f) \/ SetupFails(f) \/ Launch(f) \/ Work(f) \/ ExecuteReturns(f) \/ ExecuteRaises(f)
      PROVE  UNCHANGED arts
  BY <1>1 DEF Start, SetupFails, Launch, Work, ExecuteReturns, ExecuteRaises
<1>2. ASSUME NEW f \in Runs, Scan(f) \/ Hash(f) \/ Skip(f) \/ RegistrationFails(f) \/ Unlock(f)
      PROVE  UNCHANGED arts
  BY <1>2 DEF Scan, Hash, Skip, RegistrationFails, Unlock
<1>3. ASSUME NEW f \in Runs, RecordRun(f) \/ RecordFailure(f) \/ AddFails(f) \/ OrphanEnds(f)
      PROVE  UNCHANGED arts
  BY <1>3 DEF RecordRun, RecordFailure, AddFails, OrphanEnds
<1>4. CASE UserEdits \/ Crash \/ UNCHANGED vars
  BY <1>4 DEF UserEdits, Crash, vars
<1> QED
  BY <1>1, <1>2, <1>3, <1>4 DEF Next

LEMMA ScanChecks ==
  ASSUME TypeOK, [Next]_vars, NEW e \in Runs, pc'[e] \in Copying, pc[e] \notin Copying
  PROVE  WithinLimits({p \in Paths : files[p] # NoFile /\ files[p] # before[e][p]})
<1> USE DEF TypeOK, Goto, Quiet, workspace, Copying, Inside
<1>1. ASSUME NEW f \in Runs,
             Start(f) \/ SetupFails(f) \/ Launch(f) \/ Work(f) \/ ExecuteReturns(f) \/ ExecuteRaises(f)
      PROVE  FALSE
  BY <1>1 DEF Start, SetupFails, Launch, Work, ExecuteReturns, ExecuteRaises
<1>2. ASSUME NEW f \in Runs, Scan(f)
      PROVE  WithinLimits({p \in Paths : files[p] # NoFile /\ files[p] # before[e][p]})
  BY ZenonT(60), <1>2 DEF Scan
<1>3. ASSUME NEW f \in Runs, Hash(f) \/ Copy(f) \/ Skip(f) \/ RegistrationFails(f) \/ Unlock(f)
      PROVE  FALSE
  BY <1>3 DEF Hash, Copy, Skip, RegistrationFails, Unlock
<1>4. ASSUME NEW f \in Runs, RecordRun(f) \/ RecordFailure(f) \/ AddFails(f) \/ OrphanEnds(f)
      PROVE  FALSE
  BY <1>4 DEF RecordRun, RecordFailure, AddFails, OrphanEnds
<1>5. CASE UserEdits \/ Crash \/ UNCHANGED vars
  BY <1>5 DEF UserEdits, Crash, vars
<1> QED
  BY <1>1, <1>2, <1>3, <1>4, <1>5 DEF Next

(* The files a scan admits have finitely many bytes.                       *)
LEMMA AdmittedFinite ==
  ASSUME TypeOK, NEW C \in SUBSET Paths, \A p \in C : files[p] # NoFile, WithinLimits(C)
  PROVE  IsFiniteSet(ByteSet(FileSizes(C)))
<1>1. IsFiniteSet(C) /\ MaxFileBytes \in Nat
  BY RunConstants, FS_Subset
<1>2. IsFiniteSet(1 .. MaxFileBytes)
  BY <1>1, FS_Interval
<1>3. IsFiniteSet(C \X (1 .. MaxFileBytes))
  BY <1>1, <1>2, FS_Product
<1>4. \A p \in C : files[p].size \in Nat /\ files[p].size <= MaxFileBytes
  BY RunConstants DEF WithinLimits, TypeOK, File
<1>5. ByteSet(FileSizes(C)) \subseteq C \X (1 .. MaxFileBytes)
  BY <1>1, <1>4 DEF ByteSet, FileSizes
<1> QED
  BY <1>3, <1>5, FS_Subset

(* Steps other than a copy take nothing from the budget.                   *)
LEMMA QuotaKept ==
  ASSUME WorkspaceInv, QuotaInv, [Next]_vars, UNCHANGED arts
  PROVE  QuotaInv'
<1> USE DEF WorkspaceInv
<1>1. SizesOf(arts)' = SizesOf(arts) /\ escaped \subseteq escaped' /\ Own' \subseteq Own /\ Own \subseteq arts
  BY FilesChange DEF SizesOf, Own, Foreign
<1>2. DOMAIN SizesOf(Own)' = Own' /\ DOMAIN SizesOf(Own) = Own /\ DOMAIN SizesOf(arts) = arts
  BY DEF SizesOf
<1>3. /\ \A a \in Own' : SizesOf(Own)'[a] = SizesOf(Own)[a]
      /\ \A a \in Own : SizesOf(Own)[a] = SizesOf(arts)[a]
  BY <1>1 DEF SizesOf
<1>4. /\ IsFiniteSet(ByteSet(SizesOf(Own)))
      /\ Bytes(SizesOf(Own)) \in Nat /\ Bytes(SizesOf(Own)) <= Bytes(SizesOf(arts))
      /\ Bytes(SizesOf(arts)) \in Nat
  BY <1>1, <1>2, <1>3, BytesMonotone DEF QuotaInv
<1>5. Bytes(SizesOf(Own)') \in Nat /\ Bytes(SizesOf(Own)') <= Bytes(SizesOf(Own))
  BY <1>1, <1>2, <1>3, <1>4, BytesMonotone
<1>6. /\ ArchiveBytes(Own) = Bytes(SizesOf(Own)) /\ ArchiveBytes(Own)' = Bytes(SizesOf(Own)')
      /\ SessionBytes = Bytes(SizesOf(arts))
  BY DEF ArchiveBytes, SizesOf, SessionBytes
<1>7. ArchiveBytes(Own)' <= MaxTotalBytes
  BY <1>4, <1>5, <1>6, RunConstants DEF QuotaInv
<1>8. ASSUME NEW e \in Runs, pc'[e] \in Copying
      PROVE  /\ IsFiniteSet(ByteSet(FileSizes(Pending(e))'))
             /\ ArchiveBytes(Own)' + FileBytes(Pending(e))' <= MaxTotalBytes
  <2>1. /\ DOMAIN FileSizes(Pending(e))' = Pending(e)'
        /\ FileBytes(Pending(e))' = Bytes(FileSizes(Pending(e))')
    BY DEF FileSizes, FileBytes
  <2>2. CASE pc[e] \in Copying
    <3>1. todo'[e] \subseteq todo[e]
      BY <1>8, <2>2, Memory DEF Remembers, Copying, Scanning
    <3>2. ASSUME NEW p \in Pending(e)' PROVE p \in Pending(e) /\ files'[p] = files[p]
      <4>1. p \in todo[e] /\ p \in Paths /\ files'[p] # NoFile /\ ~ Outside(e, files'[p])
        BY <1>1, <3>1 DEF Pending, Outside, TypeOK
      <4>2. files'[p] = files[p]
        BY <2>2, <4>1, FileWritten DEF Copying, Inside
      <4> QED
        BY <4>1, <4>2 DEF Pending
    <3>3. /\ DOMAIN FileSizes(Pending(e)) = Pending(e)
          /\ FileBytes(Pending(e)) = Bytes(FileSizes(Pending(e)))
      BY DEF FileSizes, FileBytes
    <3>4. \A p \in Pending(e)' : FileSizes(Pending(e))'[p] = FileSizes(Pending(e))[p]
      BY <3>2 DEF FileSizes
    <3>5. /\ IsFiniteSet(ByteSet(FileSizes(Pending(e))))
          /\ ArchiveBytes(Own) + FileBytes(Pending(e)) <= MaxTotalBytes
      BY <2>2 DEF QuotaInv
    <3>6. /\ IsFiniteSet(ByteSet(FileSizes(Pending(e))'))
          /\ Bytes(FileSizes(Pending(e))') \in Nat /\ Bytes(FileSizes(Pending(e))) \in Nat
          /\ Bytes(FileSizes(Pending(e))') <= Bytes(FileSizes(Pending(e)))
      BY <2>1, <3>2, <3>3, <3>4, <3>5, BytesMonotone
    <3> QED
      BY <1>4, <1>5, <1>6, <2>1, <3>3, <3>5, <3>6, RunConstants
  <2>3. CASE pc[e] \notin Copying
    <3> DEFINE C == {p \in Paths : files[p] # NoFile /\ files[p] # before[e][p]}
    <3>1. files' = files /\ todo'[e] = C
      BY <1>8, <2>3, Memory DEF Remembers
    <3>2. WithinLimits(C)
      BY <1>8, <2>3, ScanChecks
    <3>3. C \in SUBSET Paths /\ \A p \in C : files[p] # NoFile
      OBVIOUS
    <3> HIDE DEF C
    <3>4. IsFiniteSet(ByteSet(FileSizes(C)))
      BY <3>2, <3>3, AdmittedFinite
    <3>5. Pending(e)' \subseteq C
      BY <3>1 DEF Pending
    <3>6. DOMAIN FileSizes(C) = C /\ FileBytes(C) = Bytes(FileSizes(C))
      BY DEF FileSizes, FileBytes
    <3>7. \A p \in Pending(e)' : FileSizes(Pending(e))'[p] = FileSizes(C)[p]
      BY <3>1, <3>5 DEF FileSizes
    <3>8. /\ IsFiniteSet(ByteSet(FileSizes(Pending(e))'))
          /\ Bytes(FileSizes(Pending(e))') \in Nat /\ Bytes(FileSizes(C)) \in Nat
          /\ Bytes(FileSizes(Pending(e))') <= Bytes(FileSizes(C))
      BY <2>1, <3>4, <3>5, <3>6, <3>7, BytesMonotone
    <3>9. SessionBytes + FileBytes(C) <= MaxTotalBytes
      BY <3>2 DEF WithinLimits
    <3> QED
      BY <1>4, <1>5, <1>6, <2>1, <3>6, <3>8, <3>9, RunConstants
  <2> QED
    BY <2>2, <2>3
<1>9. IsFiniteSet(ByteSet(SizesOf(arts)'))
  BY <1>1 DEF QuotaInv
<1> QED
  BY <1>7, <1>8, <1>9 DEF QuotaInv

(* A copy moves a file from those to register to those registered.         *)
LEMMA QuotaCopy ==
  ASSUME WorkspaceInv, WorkspaceInv', QuotaInv, NEW e \in Runs, Copy(e)
  PROVE  QuotaInv'
<1> DEFINE p == Current(e)
           a == [run |-> e, path |-> p, size |-> files[p].size, sha256 |-> digest[e],
                 data |-> files[p].data, by |-> files[p].by]
<1>1. /\ pc[e] = "hashed" /\ pc' \in {[pc EXCEPT ![e] = to] : to \in {"copying", "failing"}} /\ files[p] # NoFile
      /\ arts' = arts \cup {a} /\ todo' = [todo EXCEPT ![e] = @ \ {p}]
      /\ UNCHANGED <<files, escaped>>
  BY DEF Copy, workspace
<1>2. p \in todo[e] /\ p \in Paths
  BY <1>1, CurrentIn DEF WorkspaceInv, DigestInv, DigestOf, TypeOK
<1>3. files[p].size \in Nat
  BY <1>1, <1>2, RunConstants DEF WorkspaceInv, TypeOK, File
<1>4. a.size = files[p].size /\ a.by = files[p].by
  OBVIOUS
<1> HIDE DEF p, a
<1>5. IsFiniteSet(ByteSet(SizesOf(arts)'))
  <2>1. CASE a \in arts
    <3>1. SizesOf(arts)' = SizesOf(arts)
      BY <1>1, <2>1 DEF SizesOf
    <3> QED
      BY <3>1 DEF QuotaInv
  <2>2. CASE a \notin arts
    <3>1. /\ DOMAIN SizesOf(arts)' = arts \cup {a} /\ DOMAIN SizesOf(arts) = arts
          /\ SizesOf(arts)'[a] = files[p].size
          /\ \A b \in arts : SizesOf(arts)'[b] = SizesOf(arts)[b]
      BY <1>1, <1>4 DEF SizesOf
    <3> QED
      BY <1>3, <2>2, <3>1, BytesSplit DEF QuotaInv
  <2> QED
    BY <2>1, <2>2
<1>6. Own' = {b \in arts \cup {a} : ~ Foreign(b)}
  BY <1>1 DEF Own, Foreign
<1>7. /\ Pending(e)' = Pending(e) \ {p}
      /\ p \in Pending(e) <=> ~ Foreign(a)
      /\ todo'[e] = todo[e] \ {p}
  BY <1>1, <1>2, <1>4 DEF Pending, Outside, Foreign, WorkspaceInv, TypeOK
<1>8. /\ IsFiniteSet(ByteSet(SizesOf(Own))) /\ Bytes(SizesOf(Own)) \in Nat
      /\ ArchiveBytes(Own) = Bytes(SizesOf(Own)) /\ ArchiveBytes(Own)' = Bytes(SizesOf(Own)')
  <2>1. /\ DOMAIN SizesOf(Own) = Own /\ DOMAIN SizesOf(arts) = arts /\ Own \subseteq arts
        /\ \A b \in Own : SizesOf(Own)[b] = SizesOf(arts)[b]
    BY DEF SizesOf, Own
  <2> QED
    BY <2>1, BytesMonotone DEF QuotaInv, ArchiveBytes, SizesOf
<1>9. /\ IsFiniteSet(ByteSet(FileSizes(Pending(e))))
      /\ ArchiveBytes(Own) + FileBytes(Pending(e)) <= MaxTotalBytes
  BY <1>1 DEF QuotaInv, Copying
<1>10. /\ DOMAIN FileSizes(Pending(e)) = Pending(e) /\ DOMAIN FileSizes(Pending(e))' = Pending(e) \ {p}
       /\ \A q \in Pending(e) : FileSizes(Pending(e))[q] = files[q].size
       /\ \A q \in Pending(e) \ {p} : FileSizes(Pending(e))'[q] = files[q].size
       /\ FileBytes(Pending(e)) = Bytes(FileSizes(Pending(e)))
       /\ FileBytes(Pending(e))' = Bytes(FileSizes(Pending(e))')
  BY <1>1, <1>7 DEF FileSizes, FileBytes
<1>11. /\ IsFiniteSet(ByteSet(FileSizes(Pending(e))'))
       /\ Bytes(FileSizes(Pending(e))') \in Nat /\ Bytes(FileSizes(Pending(e))) \in Nat
       /\ Bytes(FileSizes(Pending(e))') <= Bytes(FileSizes(Pending(e)))
  BY <1>9, <1>10, BytesMonotone
<1>12. /\ ArchiveBytes(Own)' \in Nat
       /\ ArchiveBytes(Own)' + FileBytes(Pending(e))' <= MaxTotalBytes
  <2>1. CASE Own' = Own
    <3>1. SizesOf(Own)' = SizesOf(Own)
      BY <2>1 DEF SizesOf
    <3> QED
      BY <1>8, <1>9, <1>10, <1>11, <3>1, RunConstants
  <2>2. CASE Own' # Own
    <3>1. a \notin arts /\ ~ Foreign(a) /\ Own' = Own \cup {a} /\ a \notin Own
      BY <1>6, <2>2 DEF Own
    <3>2. /\ DOMAIN SizesOf(Own)' = Own \cup {a} /\ DOMAIN SizesOf(Own) = Own
          /\ SizesOf(Own)'[a] = files[p].size
          /\ \A b \in Own : SizesOf(Own)'[b] = SizesOf(Own)[b]
      BY <1>4, <3>1 DEF SizesOf
    <3>3. Bytes(SizesOf(Own)') = Bytes(SizesOf(Own)) + files[p].size
      <4>1. SizesOf(Own)'[a] \in Nat
        BY <1>3, <3>2
      <4>2. Bytes(SizesOf(Own)') = Bytes(SizesOf(Own)) + SizesOf(Own)'[a]
        BY <1>8, <3>1, <3>2, <4>1, BytesSplit
      <4> QED
        BY <3>2, <4>2
    <3>4. p \in Pending(e)
      BY <1>7, <3>1
    <3>5. FileSizes(Pending(e))[p] = files[p].size
      BY <1>10, <3>4
    <3>6. Bytes(FileSizes(Pending(e))) = Bytes(FileSizes(Pending(e))') + files[p].size
      BY <1>3, <1>10, <1>11, <3>4, <3>5, BytesSplit
    <3> QED
      BY <1>3, <1>8, <1>9, <1>10, <1>11, <3>3, <3>6, RunConstants
  <2> QED
    BY <2>1, <2>2
<1>13. ASSUME NEW f \in Runs, pc'[f] \in Copying PROVE f = e
  <2>1. pc[f] \in Copying
    BY <1>1, <1>13 DEF WorkspaceInv, TypeOK, Copying
  <2> QED
    BY <1>1, <2>1 DEF WorkspaceInv, LockInv, Copying, Inside
<1>14. ArchiveBytes(Own)' <= MaxTotalBytes
  BY <1>10, <1>11, <1>12, RunConstants
<1> QED
  BY <1>5, <1>11, <1>12, <1>13, <1>14 DEF QuotaInv

(* No sequence of runs, failed registrations included, takes what their    *)
(* code wrote over the session's budget, however registrations, the user   *)
(* and code that outlived its call interleave.                             *)
THEOREM BudgetHeld == Spec => []QuotaHeld
<1>1. Init => QuotaInv
  <2> SUFFICES ASSUME Init PROVE QuotaInv
    OBVIOUS
  <2>1. Own = {} /\ arts = {} /\ \A e \in Runs : pc[e] \notin Copying
    BY DEF Init, Own, Copying
  <2>2. ByteSet(SizesOf({})) = {}
    BY DEF ByteSet, SizesOf
  <2>3. IsFiniteSet(ByteSet(SizesOf({}))) /\ ArchiveBytes({}) = 0
    BY <2>2, FS_EmptySet DEF ArchiveBytes, SizesOf, Bytes
  <2> QED
    BY <2>1, <2>3, RunConstants DEF QuotaInv
<1>2. WorkspaceInv /\ WorkspaceInv' /\ QuotaInv /\ [Next]_vars => QuotaInv'
  BY ArtsKept, QuotaKept, QuotaCopy DEF WorkspaceInv
<1>3. QuotaInv => QuotaHeld
  BY DEF QuotaInv, QuotaHeld, Own
<1> QED
  BY <1>1, <1>2, <1>3, WorkspaceHeld, PTL DEF Spec
=============================================================================
