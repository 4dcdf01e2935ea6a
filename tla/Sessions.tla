------------------------------ MODULE Sessions ------------------------------
(***************************************************************************)
(* The life of analysis sessions: create_session and close_session of      *)
(* tools/data_plane.py, the operations that run inside sessions.active()   *)
(* and the managed code they launch, called concurrently by threads of     *)
(* several server processes that share one state directory.                *)
(*                                                                         *)
(* The two kinds of record_lock are taken as mutexes, which RecordLock     *)
(* shows them to be: policy serialises create and close over all sessions, *)
(* oplock[s] admits one operation of session s at a time.                  *)
(***************************************************************************)
EXTENDS FiniteSets

CONSTANTS
  Actors,         \* threads that carry tool calls
  Processes,      \* server processes
  ProcessOf,      \* the process of an actor
  SessionIds,     \* canonical ses_ ids
  Roots,          \* authorized workspace roots
  Parents,        \* the roots above a root
  CloseStatuses,  \* _CLOSE_STATUSES
  NoActor, NoSession, NoRoot, NoStatus,
  Faults          \* which faults may happen: see below

ASSUME SessionConstants ==
  /\ ProcessOf \in [Actors -> Processes]
  /\ Parents \in [Roots -> SUBSET Roots]
  /\ NoActor \notin Actors
  /\ NoSession \notin SessionIds
  /\ NoRoot \notin Roots
  /\ NoStatus \notin CloseStatuses
  /\ {"active", "absent"} \cap CloseStatuses = {}

(* "crash": a server process dies.  "kill": docker kill does not end the   *)
(* container of a timed-out execution.  "cleanup": the backend removes     *)
(* nothing when a session closes.                                          *)
ASSUME FaultKinds == Faults \subseteq {"crash", "kill", "cleanup"}

VARIABLES
  status,   \* session records on disk: "absent", "active" or a close status
  rootOf,   \* workspace_root of each record
  policy,   \* holder of policy_lock, or NoActor
  oplock,   \* holder of each operation_lock, or NoActor
  pc,       \* where each actor stands in its call
  sid,      \* the session its call is about
  target,   \* create_session: the authorized root
  wanted,   \* close_session: the requested status
  todo,     \* create_session: listed overlapping sessions not yet visited
  jobs,     \* managed code running now, by session and by the actor waiting
  closed    \* sessions for which a close_session call has returned

records == <<status, rootOf>>
locals == <<sid, target, wanted, todo>>
vars == <<status, rootOf, policy, oplock, pc, sid, target, wanted, todo, jobs, closed>>

Status == CloseStatuses \cup {"active"}

CreateSteps == {"create_lock", "create_list", "create_scan"}
CloseSteps == {"close_lock", "close_read", "close_update", "close_cleanup", "close_drain"}
OpSteps == {"op_lock", "op_check", "op_work", "op_wait", "op_finish"}
PolicySteps == (CreateSteps \cup CloseSteps) \ {"create_lock", "close_lock"}
Locked == OpSteps \ {"op_lock"}
Admitted == {"op_work", "op_wait", "op_finish"}

Job == [sid : SessionIds, by : Actors \cup {NoActor}]

TypeOK ==
  /\ status \in [SessionIds -> Status \cup {"absent"}]
  /\ rootOf \in [SessionIds -> Roots \cup {NoRoot}]
  /\ policy \in Actors \cup {NoActor}
  /\ oplock \in [SessionIds -> Actors \cup {NoActor}]
  /\ pc \in [Actors -> {"idle"} \cup CreateSteps \cup CloseSteps \cup OpSteps]
  /\ sid \in [Actors -> SessionIds \cup {NoSession}]
  /\ target \in [Actors -> Roots \cup {NoRoot}]
  /\ wanted \in [Actors -> CloseStatuses \cup {NoStatus}]
  /\ todo \in [Actors -> SUBSET (SessionIds \X Status)]
  /\ jobs \subseteq Job
  /\ closed \subseteq SessionIds

Init ==
  /\ status = [s \in SessionIds |-> "absent"]
  /\ rootOf = [s \in SessionIds |-> NoRoot]
  /\ policy = NoActor
  /\ oplock = [s \in SessionIds |-> NoActor]
  /\ pc = [a \in Actors |-> "idle"]
  /\ sid = [a \in Actors |-> NoSession]
  /\ target = [a \in Actors |-> NoRoot]
  /\ wanted = [a \in Actors |-> NoStatus]
  /\ todo = [a \in Actors |-> {}]
  /\ jobs = {}
  /\ closed = {}

(* root == other or root in other.parents or other in root.parents *)
Overlaps(r, o) == r = o \/ r \in Parents[o] \/ o \in Parents[r]

Exists(s) == status[s] # "absent"

WorksOn(a, s) == sid[a] = s /\ pc[a] \in Admitted

-----------------------------------------------------------------------------
(* Control flow of a call.                                                 *)

Goto(a, from, to) ==
  /\ pc[a] = from
  /\ pc' = [pc EXCEPT ![a] = to]

(* The calls of the actors in S end: what they held and knew is gone. *)
EndCalls(S) ==
  /\ pc' = [a \in Actors |-> IF a \in S THEN "idle" ELSE pc[a]]
  /\ sid' = [a \in Actors |-> IF a \in S THEN NoSession ELSE sid[a]]
  /\ target' = [a \in Actors |-> IF a \in S THEN NoRoot ELSE target[a]]
  /\ wanted' = [a \in Actors |-> IF a \in S THEN NoStatus ELSE wanted[a]]
  /\ todo' = [a \in Actors |-> IF a \in S THEN {} ELSE todo[a]]
  /\ policy' = IF policy \in S THEN NoActor ELSE policy
  /\ oplock' = [s \in SessionIds |-> IF oplock[s] \in S THEN NoActor ELSE oplock[s]]

Return(a) == EndCalls({a})

TakePolicy(a, from, to) ==
  /\ policy = NoActor
  /\ Goto(a, from, to)
  /\ policy' = a
  /\ UNCHANGED <<records, oplock, locals, jobs, closed>>

-----------------------------------------------------------------------------
(***************************************************************************)
(* Faulty variants of the actions below, put in their place by mutation    *)
(* runs.                                                                   *)
(***************************************************************************)

(* Only equal roots count as an overlap, not nested ones. *)
CreateListEqual(a) ==
  /\ Goto(a, "create_list", "create_scan")
  /\ todo' = [todo EXCEPT ![a] =
       {<<s, status[s]>> : s \in {u \in SessionIds : Exists(u) /\ rootOf[u] = target[a]}}]
  /\ UNCHANGED <<records, policy, oplock, sid, target, wanted, jobs, closed>>

(* Terminal metadata alone is taken to prove the workspace idle. *)
VisitTerminalNoWait(a) ==
  /\ pc[a] = "create_scan"
  /\ \E t \in todo[a] :
       /\ t[2] # "active"
       /\ todo' = [todo EXCEPT ![a] = @ \ {t}]
  /\ UNCHANGED <<records, policy, oplock, pc, sid, target, wanted, jobs, closed>>

(* The policy lock outlives a rejected call. *)
RejectOverlapKeepsLock(a) ==
  /\ \E t \in todo[a] : t[2] = "active"
  /\ Goto(a, "create_scan", "idle")
  /\ sid' = [sid EXCEPT ![a] = NoSession]
  /\ target' = [target EXCEPT ![a] = NoRoot]
  /\ todo' = [todo EXCEPT ![a] = {}]
  /\ UNCHANGED <<records, policy, oplock, wanted, jobs, closed>>

(* A terminal session is closed once more. *)
CloseReadAny(a) ==
  /\ pc[a] = "close_read" /\ Exists(sid[a])
  /\ pc' = [pc EXCEPT ![a] = "close_update"]
  /\ UNCHANGED <<records, policy, oplock, locals, jobs, closed>>

CloseDrainNoWait(a) ==
  /\ pc[a] = "close_drain"
  /\ Return(a)
  /\ closed' = closed \cup {sid[a]}
  /\ UNCHANGED <<records, jobs>>

OpLockShared(a) ==
  /\ Goto(a, "op_lock", "op_check")
  /\ oplock' = [oplock EXCEPT ![sid[a]] = a]
  /\ UNCHANGED <<records, policy, locals, jobs, closed>>

OpCheckExists(a) ==
  /\ pc[a] = "op_check" /\ Exists(sid[a])
  /\ pc' = [pc EXCEPT ![a] = "op_work"]
  /\ UNCHANGED <<records, policy, oplock, locals, jobs, closed>>

-----------------------------------------------------------------------------
(* create_session                                                          *)

(* The new session has an id no record and no call knows of. *)
CreateCall(a) ==
  \E s \in SessionIds, r \in Roots :
    /\ ~Exists(s)
    /\ \A b \in Actors : sid[b] # s
    /\ Goto(a, "idle", "create_lock")
    /\ sid' = [sid EXCEPT ![a] = s]
    /\ target' = [target EXCEPT ![a] = r]
    /\ UNCHANGED <<records, policy, oplock, wanted, todo, jobs, closed>>

CreateLock(a) == TakePolicy(a, "create_lock", "create_list")

(* list_all reads every record before the first one is looked at. *)
CreateList(a) ==
  /\ Goto(a, "create_list", "create_scan")
  /\ todo' = [todo EXCEPT ![a] =
       {<<s, status[s]>> :
          s \in {u \in SessionIds : Exists(u) /\ Overlaps(target[a], rootOf[u])}}]
  /\ UNCHANGED <<records, policy, oplock, sid, target, wanted, jobs, closed>>

RejectOverlap(a) ==
  /\ pc[a] = "create_scan"
  /\ \E t \in todo[a] : t[2] = "active"
  /\ Return(a)
  /\ UNCHANGED <<records, jobs, closed>>

(* A closed session on an overlapping root: take its operation lock and    *)
(* let go of it at once.                                                   *)
VisitTerminal(a) ==
  /\ pc[a] = "create_scan"
  /\ \E t \in todo[a] :
       /\ t[2] # "active"
       /\ oplock[t[1]] = NoActor
       /\ todo' = [todo EXCEPT ![a] = @ \ {t}]
  /\ UNCHANGED <<records, policy, oplock, pc, sid, target, wanted, jobs, closed>>

(* sessions.add, then the policy lock is released.  A raise or a crash     *)
(* between the two leaves the same state: the record and a free lock.      *)
Publish(a) ==
  /\ pc[a] = "create_scan"
  /\ todo[a] = {}
  /\ status' = [status EXCEPT ![sid[a]] = "active"]
  /\ rootOf' = [rootOf EXCEPT ![sid[a]] = target[a]]
  /\ Return(a)
  /\ UNCHANGED <<jobs, closed>>

-----------------------------------------------------------------------------
(* close_session                                                           *)

CloseCall(a) ==
  \E s \in SessionIds, w \in CloseStatuses :
    /\ Goto(a, "idle", "close_lock")
    /\ sid' = [sid EXCEPT ![a] = s]
    /\ wanted' = [wanted EXCEPT ![a] = w]
    /\ UNCHANGED <<records, policy, oplock, target, todo, jobs, closed>>

CloseLock(a) == TakePolicy(a, "close_lock", "close_read")

CloseRead(a) ==
  /\ pc[a] = "close_read" /\ Exists(sid[a])
  /\ pc' = [pc EXCEPT ![a] =
       IF status[sid[a]] = "active" THEN "close_update" ELSE "close_cleanup"]
  /\ UNCHANGED <<records, policy, oplock, locals, jobs, closed>>

CloseUpdate(a) ==
  /\ Goto(a, "close_update", "close_cleanup")
  /\ status' = [status EXCEPT ![sid[a]] = wanted[a]]
  /\ UNCHANGED <<rootOf, policy, oplock, locals, jobs, closed>>

(* execution_backend.close_session: docker rm -f of the containers docker  *)
(* ps lists for the session; its errors are suppressed.                    *)
CloseCleanup(a) ==
  /\ Goto(a, "close_cleanup", "close_drain")
  /\ \/ jobs' = {j \in jobs : j.sid # sid[a]}
     \/ "cleanup" \in Faults /\ UNCHANGED jobs
  /\ UNCHANGED <<records, policy, oplock, locals, closed>>

CloseDrain(a) ==
  /\ pc[a] = "close_drain"
  /\ oplock[sid[a]] = NoActor
  /\ Return(a)
  /\ closed' = closed \cup {sid[a]}
  /\ UNCHANGED <<records, jobs>>

-----------------------------------------------------------------------------
(* A tool that runs with sessions.active(session_id)                       *)

OpCall(a) ==
  \E s \in SessionIds :
    /\ Goto(a, "idle", "op_lock")
    /\ sid' = [sid EXCEPT ![a] = s]
    /\ UNCHANGED <<records, policy, oplock, target, wanted, todo, jobs, closed>>

OpLock(a) ==
  /\ pc[a] = "op_lock" /\ oplock[sid[a]] = NoActor
  /\ pc' = [pc EXCEPT ![a] = "op_check"]
  /\ oplock' = [oplock EXCEPT ![sid[a]] = a]
  /\ UNCHANGED <<records, policy, locals, jobs, closed>>

OpCheck(a) ==
  /\ pc[a] = "op_check" /\ status[sid[a]] = "active"
  /\ pc' = [pc EXCEPT ![a] = "op_work"]
  /\ UNCHANGED <<records, policy, oplock, locals, jobs, closed>>

(* execute_python starts managed code and waits for it. *)
Launch(a) ==
  /\ Goto(a, "op_work", "op_wait")
  /\ jobs' = jobs \cup {[sid |-> sid[a], by |-> a]}
  /\ UNCHANGED <<records, policy, oplock, locals, closed>>

(* The code ended by itself, was removed by a close, or timed out and was  *)
(* killed.  A kill that fails is not noticed.                              *)
JobDone(a) ==
  LET mine == {j \in jobs : j.by = a} IN
  /\ Goto(a, "op_wait", "op_finish")
  /\ \/ jobs' = jobs \ mine
     \/ /\ "kill" \in Faults
        /\ jobs' = (jobs \ mine) \cup {[j EXCEPT !.by = NoActor] : j \in mine}
  /\ UNCHANGED <<records, policy, oplock, locals, closed>>

(* The body returns or raises; active() lets go of the session. *)
OpEnd(a) ==
  /\ pc[a] \in {"op_work", "op_finish"}
  /\ Return(a)
  /\ UNCHANGED <<records, jobs, closed>>

-----------------------------------------------------------------------------
(* RecordNotFound, or a session that is closed. *)
Refuse(a) ==
  /\ \/ pc[a] = "close_read" /\ ~Exists(sid[a])
     \/ pc[a] = "op_check" /\ status[sid[a]] # "active"
  /\ Return(a)
  /\ UNCHANGED <<records, jobs, closed>>

(* A lock, a read or a write raises: the with statements release what is   *)
(* held.  A raise after update has replaced the record is one at           *)
(* "close_cleanup".                                                        *)
Abort(a) ==
  /\ pc[a] \in CreateSteps \cup CloseSteps \cup {"op_lock", "op_check"}
  /\ Return(a)
  /\ UNCHANGED <<records, jobs, closed>>

(* A server process dies; the containers it started run on. *)
Crash(p) ==
  LET dead == {a \in Actors : ProcessOf[a] = p} IN
  /\ "crash" \in Faults
  /\ EndCalls(dead)
  /\ jobs' = {IF j.by \in dead THEN [j EXCEPT !.by = NoActor] ELSE j : j \in jobs}
  /\ UNCHANGED <<records, closed>>

OrphanExits ==
  /\ \E j \in jobs : j.by = NoActor /\ jobs' = jobs \ {j}
  /\ UNCHANGED <<records, policy, oplock, pc, locals, closed>>

NewCall(a) == CreateCall(a) \/ CloseCall(a) \/ OpCall(a)

Proceed(a) ==
  \/ CreateLock(a) \/ CreateList(a) \/ RejectOverlap(a) \/ VisitTerminal(a) \/ Publish(a)
  \/ CloseLock(a) \/ CloseRead(a) \/ CloseUpdate(a) \/ CloseCleanup(a) \/ CloseDrain(a)
  \/ OpLock(a) \/ OpCheck(a) \/ Launch(a) \/ JobDone(a) \/ OpEnd(a)
  \/ Refuse(a)

Next ==
  \/ \E a \in Actors : NewCall(a) \/ Proceed(a) \/ Abort(a)
  \/ \E p \in Processes : Crash(p)
  \/ OrphanExits

Spec == Init /\ [][Next]_vars

(* A call goes on when it is not blocked, and takes a lock that stays free *)
(* for it; execution timeouts bound managed code.                          *)
Fairness == \A a \in Actors : WF_vars(Proceed(a))

FairSpec == Spec /\ Fairness

-----------------------------------------------------------------------------
Active(s) == status[s] = "active"

Touch(s, u) == Overlaps(rootOf[s], rootOf[u])

(* Two active sessions never share or nest a workspace, whoever creates    *)
(* and closes sessions concurrently and whichever process dies.            *)
NoOverlap ==
  \A s, u \in SessionIds : s # u /\ Active(s) /\ Active(u) => ~Touch(s, u)

(* While an operation admitted under one session runs, no other session    *)
(* is active on a workspace it touches: a closed session's last operation  *)
(* never shares files with the session that took the workspace over.       *)
OperationIsolation ==
  \A a \in Actors, s, u \in SessionIds :
    WorksOn(a, s) /\ s # u /\ Active(u) => ~Touch(s, u)

(* Once close_session has returned, no admitted operation of the session   *)
(* is left to write files or publish records.                              *)
CloseDrains == \A a \in Actors, s \in closed : ~WorksOn(a, s)

(* A session record keeps its root and leaves "active" at most once: two   *)
(* racing closes do not overwrite each other's status.                     *)
TerminalStays ==
  [][\A s \in SessionIds : Exists(s) =>
       /\ rootOf'[s] = rootOf[s]
       /\ status'[s] # status[s] => Active(s) /\ status'[s] \in CloseStatuses]_records

(* Managed code a call waits for has the workspace to itself: no other     *)
(* call's code runs in a workspace it touches.  Only code that outlived    *)
(* its call, by a failed docker kill or a dead server, can share it.       *)
SoleExecution ==
  \A j, k \in jobs :
    j.by # NoActor /\ k.by # NoActor /\ Touch(j.sid, k.sid) => j = k

(* close_session's description: it frees managed backend resources.        *)
CloseFreesResources == \A j \in jobs : j.sid \notin closed

FiniteTraffic == <>[][~\E a \in Actors : NewCall(a)]_vars

(* No call waits for ever, on a lock or in a drain: once new calls cease,  *)
(* every call returns, although others raise or die holding locks.         *)
CallsReturn ==
  FiniteTraffic => \A a \in Actors : pc[a] # "idle" ~> pc[a] = "idle"

-----------------------------------------------------------------------------
LeaseOf(s) == [sid |-> s, root |-> rootOf[s]]

Granted == {s \in SessionIds : Exists(s)}
Open == {LeaseOf(s) : s \in {u \in SessionIds : Active(u)}}
Busy == {LeaseOf(s) : s \in {u \in SessionIds : \E a \in Actors : WorksOn(a, u)}}

Lease == INSTANCE WorkspaceLease WITH granted <- Granted, open <- Open, busy <- Busy

(* Sessions lease workspaces: the records and locks implement the abstract *)
(* admission rule.                                                         *)
ImplementsLease == Lease!Spec
=============================================================================
