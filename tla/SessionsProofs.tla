--------------------------- MODULE SessionsProofs ---------------------------
(***************************************************************************)
(* Safety of sessions for any number of actors, server processes, sessions *)
(* and roots, and whatever faults happen.                                  *)
(***************************************************************************)
EXTENDS Sessions, TLAPS

-----------------------------------------------------------------------------
(* The inductive invariant.                                                *)

Terminal(s) == status[s] \in CloseStatuses

Idle(s) == \A a \in Actors : ~WorksOn(a, s)

(* A lock variable names exactly the actor whose code holds the lock. *)
LocksHeld ==
  /\ \A a \in Actors : pc[a] \in PolicySteps <=> policy = a
  /\ \A a \in Actors, s \in SessionIds : sid[a] = s /\ pc[a] \in Locked <=> oplock[s] = a

(* A call knows its session, and creating calls reserve unused ids. *)
CallsKnow ==
  /\ \A a \in Actors : pc[a] # "idle" => sid[a] \in SessionIds
  /\ \A a \in Actors : pc[a] \in CreateSteps => target[a] \in Roots /\ ~Exists(sid[a])
  /\ \A a, b \in Actors :
       a # b /\ pc[a] \in CreateSteps /\ pc[b] \in CreateSteps => sid[a] # sid[b]
  /\ \A a \in Actors : pc[a] \in CloseSteps => wanted[a] \in CloseStatuses

RecordsWhole ==
  /\ \A s \in SessionIds : Exists(s) => rootOf[s] \in Roots
  /\ \A a \in Actors, s \in SessionIds : WorksOn(a, s) => Exists(s)

(* While a creating call scans, it holds the policy lock, so what it       *)
(* listed is still what the records say: an overlapping session is yet to  *)
(* be visited, or terminal and idle for good.                              *)
ScanCovers ==
  \A a \in Actors, s \in SessionIds :
    pc[a] = "create_scan" /\ Exists(s) /\ Overlaps(target[a], rootOf[s]) =>
      <<s, status[s]>> \in todo[a] \/ (Terminal(s) /\ Idle(s))

(* A closing call knows the status of its session. *)
CloseKnows ==
  \A a \in Actors :
    /\ pc[a] = "close_update" => Active(sid[a])
    /\ pc[a] \in {"close_cleanup", "close_drain"} => Terminal(sid[a])

ClosedDone == \A s \in closed : Terminal(s) /\ Idle(s)

Inv ==
  /\ TypeOK /\ LocksHeld /\ CallsKnow /\ RecordsWhole /\ ScanCovers /\ CloseKnows
  /\ ClosedDone /\ NoOverlap /\ OperationIsolation

(* When a creating call has visited all it listed, every session on a root *)
(* that touches its target is terminal and idle.                           *)
LEMMA Cleared ==
  ASSUME Inv, NEW a \in Actors, pc[a] = "create_scan", todo[a] = {},
         NEW s \in SessionIds, Exists(s), Overlaps(target[a], rootOf[s])
  PROVE Terminal(s) /\ ~Active(s) /\ Idle(s)
BY SessionConstants DEF Inv, ScanCovers, Terminal, Active

(* What list_all returned covers every overlapping session. *)
LEMMA ListCovers ==
  ASSUME Inv, NEW a \in Actors, CreateList(a)
  PROVE ScanCovers'
<1> USE SessionConstants
<1>1. /\ status' = status /\ rootOf' = rootOf /\ target' = target
      /\ pc[a] = "create_list" /\ pc' = [pc EXCEPT ![a] = "create_scan"]
      /\ todo'[a] = {<<s, status[s]>> :
           s \in {u \in SessionIds : Exists(u) /\ Overlaps(target[a], rootOf[u])}}
  BY DEF CreateList, Goto, Inv, TypeOK, records
<1>2. \A b \in Actors : pc'[b] = "create_scan" => b = a
  BY <1>1 DEF Inv, TypeOK, LocksHeld, PolicySteps, CreateSteps, CloseSteps
<1> SUFFICES ASSUME NEW s \in SessionIds, Exists(s), Overlaps(target[a], rootOf[s])
             PROVE <<s, status[s]>> \in todo'[a]
  BY <1>1, <1>2 DEF ScanCovers, Exists, Overlaps
<1> QED
  BY <1>1

(* The check of an operation is refused on the sessions a scan has passed. *)
LEMMA CheckCovers ==
  ASSUME Inv, NEW a \in Actors, OpCheck(a)
  PROVE ScanCovers'
<1> USE SessionConstants
<1>1. /\ status' = status /\ rootOf' = rootOf /\ target' = target /\ todo' = todo
      /\ sid' = sid /\ pc' = [pc EXCEPT ![a] = "op_work"] /\ Active(sid[a])
  BY DEF OpCheck, records, locals, Active
<1> SUFFICES ASSUME NEW b \in Actors, NEW s \in SessionIds, pc'[b] = "create_scan",
                    Exists(s), Overlaps(target[b], rootOf[s]),
                    ~(<<s, status[s]>> \in todo[b])
             PROVE Terminal(s)' /\ Idle(s)'
  BY <1>1 DEF ScanCovers, Exists, Overlaps
<1>2. pc[b] = "create_scan"
  BY <1>1 DEF Inv, TypeOK
<1>3. Terminal(s) /\ Idle(s)
  BY <1>2 DEF Inv, ScanCovers
<1>4. sid[a] # s
  BY <1>1, <1>3 DEF Terminal, Active
<1> QED
  BY <1>1, <1>3, <1>4 DEF Inv, TypeOK, Terminal, Idle, WorksOn

(* A session is published on a root that touches no other active session. *)
LEMMA PublishApart ==
  ASSUME Inv, NEW a \in Actors, Publish(a)
  PROVE NoOverlap'
<1> USE SessionConstants
<1>1. /\ pc[a] = "create_scan" /\ todo[a] = {} /\ sid[a] \in SessionIds
      /\ status' = [status EXCEPT ![sid[a]] = "active"]
      /\ rootOf' = [rootOf EXCEPT ![sid[a]] = target[a]]
  BY DEF Publish, Inv, CallsKnow
<1>2. \A s \in SessionIds : Active(s) => ~Overlaps(target[a], rootOf[s])
  BY <1>1, Cleared DEF Active, Exists
<1> SUFFICES ASSUME NEW s \in SessionIds, NEW u \in SessionIds,
                    s # u, Active(s)', Active(u)'
             PROVE ~Touch(s, u)'
  BY DEF NoOverlap
<1>3. CASE s # sid[a] /\ u # sid[a]
  BY <1>1, <1>3 DEF Inv, TypeOK, NoOverlap, Active, Touch, Overlaps
<1>4. CASE s = sid[a]
  BY <1>1, <1>2, <1>4 DEF Inv, TypeOK, Active, Touch, Overlaps
<1>5. CASE u = sid[a]
  BY <1>1, <1>2, <1>5 DEF Inv, TypeOK, Active, Touch, Overlaps
<1> QED
  BY <1>3, <1>4, <1>5

(* No operation runs on a root that touches that of a new session. *)
LEMMA PublishIsolated ==
  ASSUME Inv, NEW a \in Actors, Publish(a)
  PROVE OperationIsolation'
<1> USE SessionConstants
<1>1. /\ pc[a] = "create_scan" /\ todo[a] = {} /\ sid[a] \in SessionIds
      /\ status' = [status EXCEPT ![sid[a]] = "active"]
      /\ rootOf' = [rootOf EXCEPT ![sid[a]] = target[a]]
  BY DEF Publish, Inv, CallsKnow
<1>2. ~Exists(sid[a])
  BY <1>1 DEF Inv, CallsKnow, CreateSteps
<1>3. \A b \in Actors, s \in SessionIds : WorksOn(b, s)' => WorksOn(b, s) /\ s # sid[a]
  BY <1>2 DEF Publish, Return, EndCalls, Inv, RecordsWhole, WorksOn, Admitted
<1> SUFFICES ASSUME NEW b \in Actors, NEW s \in SessionIds, NEW u \in SessionIds,
                    WorksOn(b, s), s # sid[a], s # u, Active(u)'
             PROVE ~Touch(s, u)'
  BY <1>3 DEF OperationIsolation
<1>4. CASE u # sid[a]
  BY <1>1, <1>4 DEF Inv, TypeOK, OperationIsolation, Active, Touch, Overlaps
<1>5. CASE u = sid[a]
  <2>1. ~Overlaps(target[a], rootOf[s])
    BY <1>1, Cleared DEF Inv, RecordsWhole, Idle
  <2> QED
    BY <1>1, <1>5, <2>1 DEF Inv, TypeOK, Touch, Overlaps
<1> QED
  BY <1>4, <1>5

(* Every step of a call, a crash and the end of orphaned code preserve the *)
(* invariant.                                                              *)
LEMMA Inductive == Inv /\ [Next]_vars => Inv'
<1> SUFFICES ASSUME Inv, [Next]_vars PROVE Inv'
  OBVIOUS
<1> USE SessionConstants DEF Inv, TypeOK, LocksHeld, CallsKnow, RecordsWhole, ScanCovers,
      CloseKnows, ClosedDone, NoOverlap, OperationIsolation, Terminal, Idle, Active, Touch,
      Exists, WorksOn, Overlaps, Status, CreateSteps, CloseSteps, OpSteps, PolicySteps,
      Locked, Admitted, Job, records, locals
<1>1. ASSUME NEW a \in Actors, CreateCall(a) PROVE Inv'
  BY SMTT(30), <1>1 DEF CreateCall, Goto
<1>2. ASSUME NEW a \in Actors, CreateLock(a) PROVE Inv'
  BY SMTT(30), <1>2 DEF CreateLock, TakePolicy, Goto
<1>3. ASSUME NEW a \in Actors, CreateList(a) PROVE Inv'
  <2>1. TypeOK'
    BY SMTT(20), <1>3 DEF CreateList, Goto
  <2>2. LocksHeld'
    BY SMTT(20), <1>3 DEF CreateList, Goto
  <2>3. CallsKnow'
    BY SMTT(20), <1>3 DEF CreateList, Goto
  <2>4. RecordsWhole'
    BY SMTT(20), <1>3 DEF CreateList, Goto
  <2>5. ScanCovers'
    BY <1>3, ListCovers DEF Inv
  <2>6. CloseKnows'
    BY SMTT(20), <1>3 DEF CreateList, Goto
  <2>7. ClosedDone'
    BY SMTT(20), <1>3 DEF CreateList, Goto
  <2>8. NoOverlap'
    BY SMTT(20), <1>3 DEF CreateList, Goto
  <2>9. OperationIsolation'
    BY SMTT(20), <1>3 DEF CreateList, Goto
  <2> QED
    BY <2>1, <2>2, <2>3, <2>4, <2>5, <2>6, <2>7, <2>8, <2>9 DEF Inv
<1>4. ASSUME NEW a \in Actors, RejectOverlap(a) PROVE Inv'
  BY SMTT(30), <1>4 DEF RejectOverlap, Return, EndCalls
<1>5. ASSUME NEW a \in Actors, VisitTerminal(a) PROVE Inv'
  BY SMTT(30), <1>5 DEF VisitTerminal
<1>6. ASSUME NEW a \in Actors, Publish(a) PROVE Inv'
  <2>1. TypeOK'
    BY SMTT(20), <1>6 DEF Publish, Return, EndCalls
  <2>2. LocksHeld'
    BY SMTT(20), <1>6 DEF Publish, Return, EndCalls
  <2>3. CallsKnow'
    BY SMTT(20), <1>6 DEF Publish, Return, EndCalls
  <2>4. RecordsWhole'
    BY SMTT(20), <1>6 DEF Publish, Return, EndCalls
  <2>5. ScanCovers'
    BY SMTT(20), <1>6 DEF Publish, Return, EndCalls
  <2>6. CloseKnows'
    BY SMTT(20), <1>6 DEF Publish, Return, EndCalls
  <2>7. ClosedDone'
    BY SMTT(20), <1>6 DEF Publish, Return, EndCalls
  <2>8. NoOverlap'
    BY <1>6, PublishApart DEF Inv
  <2>9. OperationIsolation'
    BY <1>6, PublishIsolated DEF Inv
  <2> QED
    BY <2>1, <2>2, <2>3, <2>4, <2>5, <2>6, <2>7, <2>8, <2>9 DEF Inv
<1>7. ASSUME NEW a \in Actors, CloseCall(a) PROVE Inv'
  BY SMTT(30), <1>7 DEF CloseCall, Goto
<1>8. ASSUME NEW a \in Actors, CloseLock(a) PROVE Inv'
  BY SMTT(30), <1>8 DEF CloseLock, TakePolicy, Goto
<1>9. ASSUME NEW a \in Actors, CloseRead(a) PROVE Inv'
  BY SMTT(30), <1>9 DEF CloseRead
<1>10. ASSUME NEW a \in Actors, CloseUpdate(a) PROVE Inv'
  BY SMTT(30), <1>10 DEF CloseUpdate, Goto
<1>11. ASSUME NEW a \in Actors, CloseCleanup(a) PROVE Inv'
  BY SMTT(30), <1>11 DEF CloseCleanup, Goto
<1>12. ASSUME NEW a \in Actors, CloseDrain(a) PROVE Inv'
  BY SMTT(30), <1>12 DEF CloseDrain, Return, EndCalls
<1>13. ASSUME NEW a \in Actors, OpCall(a) PROVE Inv'
  BY SMTT(30), <1>13 DEF OpCall, Goto
<1>14. ASSUME NEW a \in Actors, OpLock(a) PROVE Inv'
  BY SMTT(30), <1>14 DEF OpLock
<1>15. ASSUME NEW a \in Actors, OpCheck(a) PROVE Inv'
  <2>1. TypeOK'
    BY SMTT(20), <1>15 DEF OpCheck
  <2>2. LocksHeld'
    BY SMTT(20), <1>15 DEF OpCheck
  <2>3. CallsKnow'
    BY SMTT(20), <1>15 DEF OpCheck
  <2>4. RecordsWhole'
    BY SMTT(20), <1>15 DEF OpCheck
  <2>5. ScanCovers'
    BY <1>15, CheckCovers DEF Inv
  <2>6. CloseKnows'
    BY SMTT(20), <1>15 DEF OpCheck
  <2>7. ClosedDone'
    BY SMTT(20), <1>15 DEF OpCheck
  <2>8. NoOverlap'
    BY SMTT(20), <1>15 DEF OpCheck
  <2>9. OperationIsolation'
    BY SMTT(20), <1>15 DEF OpCheck
  <2> QED
    BY <2>1, <2>2, <2>3, <2>4, <2>5, <2>6, <2>7, <2>8, <2>9 DEF Inv
<1>16. ASSUME NEW a \in Actors, Launch(a) PROVE Inv'
  BY SMTT(30), <1>16 DEF Launch, Goto
<1>17. ASSUME NEW a \in Actors, JobDone(a) PROVE Inv'
  BY SMTT(30), <1>17 DEF JobDone, Goto
<1>18. ASSUME NEW a \in Actors, OpEnd(a) PROVE Inv'
  BY SMTT(30), <1>18 DEF OpEnd, Return, EndCalls
<1>19. ASSUME NEW a \in Actors, Refuse(a) PROVE Inv'
  BY SMTT(30), <1>19 DEF Refuse, Return, EndCalls
<1>20. ASSUME NEW a \in Actors, Abort(a) PROVE Inv'
  BY SMTT(30), <1>20 DEF Abort, Return, EndCalls
<1>21. ASSUME NEW p \in Processes, Crash(p) PROVE Inv'
  <2>1. TypeOK'
    <3>1. \A j \in jobs : j \in Job /\ [j EXCEPT !.by = NoActor] \in Job
      OBVIOUS
    <3>2. jobs' \subseteq Job
      BY <1>21, <3>1 DEF Crash
    <3> QED
      BY <1>21, <3>2 DEF Crash, EndCalls
  <2>2. LocksHeld'
    BY SMTT(20), <1>21 DEF Crash, EndCalls
  <2>3. CallsKnow'
    BY SMTT(20), <1>21 DEF Crash, EndCalls
  <2>4. RecordsWhole'
    BY SMTT(20), <1>21 DEF Crash, EndCalls
  <2>5. ScanCovers'
    BY SMTT(20), <1>21 DEF Crash, EndCalls
  <2>6. CloseKnows'
    BY SMTT(20), <1>21 DEF Crash, EndCalls
  <2>7. ClosedDone'
    BY SMTT(20), <1>21 DEF Crash, EndCalls
  <2>8. NoOverlap'
    BY SMTT(20), <1>21 DEF Crash, EndCalls
  <2>9. OperationIsolation'
    BY SMTT(20), <1>21 DEF Crash, EndCalls
  <2> QED
    BY <2>1, <2>2, <2>3, <2>4, <2>5, <2>6, <2>7, <2>8, <2>9 DEF Inv
<1>22. CASE OrphanExits
  BY <1>22 DEF OrphanExits
<1>23. CASE UNCHANGED vars
  BY <1>23 DEF vars
<1> QED
  BY <1>1, <1>2, <1>3, <1>4, <1>5, <1>6, <1>7, <1>8, <1>9, <1>10, <1>11, <1>12, <1>13, <1>14, <1>15, <1>16, <1>17, <1>18, <1>19, <1>20, <1>21, <1>22, <1>23 DEF Next, NewCall, Proceed

LEMMA Initial == Init => Inv
BY SessionConstants DEF Init, Inv, TypeOK, LocksHeld, CallsKnow, RecordsWhole, ScanCovers,
   CloseKnows, ClosedDone, NoOverlap, OperationIsolation, Active, Exists, WorksOn, PolicySteps,
   CreateSteps, CloseSteps, Locked, OpSteps, Admitted

LEMMA SessionInvariant == Spec => []Inv
BY Initial, Inductive, PTL DEF Spec

-----------------------------------------------------------------------------
(* Records, locks and calls keep their types.                              *)
THEOREM SessionTypes == Spec => []TypeOK
<1>1. Inv => TypeOK
  BY DEF Inv
<1> QED
  BY <1>1, SessionInvariant, PTL

(* create_session and close_session never leave two active sessions on     *)
(* workspaces that touch.                                                  *)
THEOREM ActiveWorkspacesApart == Spec => []NoOverlap
<1>1. Inv => NoOverlap
  BY DEF Inv
<1> QED
  BY <1>1, SessionInvariant, PTL

(* An operation admitted by sessions.active never runs beside an active    *)
(* session whose workspace it touches.                                     *)
THEOREM OperationsIsolated == Spec => []OperationIsolation
<1>1. Inv => OperationIsolation
  BY DEF Inv
<1> QED
  BY <1>1, SessionInvariant, PTL

(* A close_session that returned left no operation behind.                 *)
THEOREM ClosingDrains == Spec => []CloseDrains
<1>1. Inv => CloseDrains
  BY DEF Inv, ClosedDone, Idle, CloseDrains
<1> QED
  BY <1>1, SessionInvariant, PTL

-----------------------------------------------------------------------------
(* Only Publish and CloseUpdate write session records. *)
LEMMA Writers ==
  ASSUME [Next]_vars
  PROVE \/ \E a \in Actors : Publish(a) \/ CloseUpdate(a)
        \/ UNCHANGED records
BY DEF Next, NewCall, Proceed, vars, records, TakePolicy, CreateCall, CreateLock, CreateList,
   RejectOverlap, VisitTerminal, CloseCall, CloseLock, CloseRead, CloseCleanup, CloseDrain,
   OpCall, OpLock, OpCheck, Launch, JobDone, OpEnd, Refuse, Abort, Crash, OrphanExits

(* A session record keeps its root, and its status once that is terminal.  *)
THEOREM RecordsStay == Spec => TerminalStays
<1> DEFINE Stays(s) ==
      Exists(s) => /\ rootOf'[s] = rootOf[s]
                   /\ status'[s] # status[s] => Active(s) /\ status'[s] \in CloseStatuses
<1>1. ASSUME Inv, [Next]_vars
      PROVE (\A s \in SessionIds : Stays(s)) \/ UNCHANGED records
  <2>1. ASSUME NEW a \in Actors, Publish(a)
        PROVE \A s \in SessionIds : Stays(s)
    <3>1. sid[a] \in SessionIds /\ ~Exists(sid[a])
      BY <1>1, <2>1 DEF Publish, Inv, CallsKnow, CreateSteps
    <3> QED
      BY <1>1, <2>1, <3>1 DEF Publish, Inv, TypeOK
  <2>2. ASSUME NEW a \in Actors, CloseUpdate(a)
        PROVE \A s \in SessionIds : Stays(s)
    <3>1. Active(sid[a]) /\ wanted[a] \in CloseStatuses
      BY <1>1, <2>2 DEF CloseUpdate, Goto, Inv, CloseKnows, CallsKnow, CloseSteps
    <3> QED
      BY <1>1, <2>2, <3>1 DEF CloseUpdate, Inv, TypeOK
  <2> QED
    BY <1>1, <2>1, <2>2, Writers
<1>2. Inv /\ [Next]_vars => [\A s \in SessionIds : Stays(s)]_records
  BY <1>1
<1> QED
  BY <1>2, SessionInvariant, PTL DEF Spec, TerminalStays

-----------------------------------------------------------------------------
(* A step that leaves the records alone and starts no operation ends the   *)
(* operations of some leases, or of none.                                  *)
LEMMA EndsOperations ==
  ASSUME Inv, UNCHANGED records,
         \A a \in Actors, s \in SessionIds : WorksOn(a, s)' => WorksOn(a, s)
  PROVE Lease!Next
<1>1. Granted' = Granted /\ Open' = Open
  BY DEF records, Granted, Open, LeaseOf, Exists, Active
<1>2. Busy' \subseteq Busy
  BY DEF records, Busy, LeaseOf
<1>3. Busy \ Busy' \in SUBSET Lease!Lease
  BY DEF Inv, RecordsWhole, Busy, LeaseOf, Lease!Lease
<1>4. Lease!End(Busy \ Busy')
  BY <1>1, <1>2 DEF Lease!End
<1> QED
  BY <1>3, <1>4 DEF Lease!Next

(* Publishing a session grants it the lease. *)
LEMMA PublishAdmits ==
  ASSUME Inv, NEW a \in Actors, Publish(a)
  PROVE Lease!Next
<1> DEFINE new == [sid |-> sid[a], root |-> target[a]]
<1>1. /\ pc[a] = "create_scan" /\ todo[a] = {} /\ sid[a] \in SessionIds
      /\ target[a] \in Roots /\ ~Exists(sid[a])
      /\ status' = [status EXCEPT ![sid[a]] = "active"]
      /\ rootOf' = [rootOf EXCEPT ![sid[a]] = target[a]]
  BY DEF Publish, Inv, CallsKnow, CreateSteps
<1>2. \A b \in Actors, s \in SessionIds :
        /\ WorksOn(b, s)' <=> WorksOn(b, s)
        /\ WorksOn(b, s) => s # sid[a] /\ Exists(s)
  BY <1>1 DEF Publish, Return, EndCalls, Inv, TypeOK, RecordsWhole, WorksOn, Admitted
<1>3. Granted' = Granted \cup {sid[a]}
  BY <1>1 DEF Inv, TypeOK, Granted, Exists
<1>4. Open' = Open \cup {new}
  <2>1. \A s \in SessionIds : Active(s)' <=> Active(s) \/ s = sid[a]
    BY <1>1 DEF Inv, TypeOK, Active
  <2>2. \A s \in SessionIds :
          (LeaseOf(s))' = IF s = sid[a] THEN new ELSE LeaseOf(s)
    BY <1>1 DEF Inv, TypeOK, LeaseOf
  <2>3. ~Active(sid[a])
    BY <1>1 DEF Active, Exists
  <2> QED
    BY <1>1, <2>1, <2>2, <2>3 DEF Open
<1>5. Busy' = Busy
  <2>1. \A s \in SessionIds :
          (\E b \in Actors : WorksOn(b, s)) => (LeaseOf(s))' = LeaseOf(s)
    BY <1>1, <1>2 DEF Inv, TypeOK, LeaseOf
  <2> QED
    BY <1>2, <2>1 DEF Busy
<1>6. \A m \in Open \cup Busy : ~Overlaps(target[a], m.root)
  <2>1. ASSUME NEW m \in Open PROVE ~Overlaps(target[a], m.root)
    <3>1. PICK s \in SessionIds : Active(s) /\ m = LeaseOf(s)
      BY DEF Open
    <3> QED
      BY <1>1, <3>1, Cleared DEF LeaseOf, Active, Exists
  <2>2. ASSUME NEW m \in Busy PROVE ~Overlaps(target[a], m.root)
    <3>1. PICK s \in SessionIds : (\E b \in Actors : WorksOn(b, s)) /\ m = LeaseOf(s)
      BY DEF Busy
    <3> QED
      BY <1>1, <1>2, <3>1, Cleared DEF LeaseOf, Idle
  <2> QED
    BY <2>1, <2>2
<1>7. new \in Lease!Lease /\ new.sid = sid[a] /\ new.root = target[a]
  BY <1>1 DEF Lease!Lease
<1>8. sid[a] \notin Granted
  BY <1>1 DEF Granted
<1>9. Lease!Admit(new)
  BY <1>3, <1>4, <1>5, <1>6, <1>7, <1>8 DEF Lease!Admit
<1> QED
  BY <1>7, <1>9 DEF Lease!Next

(* Writing a terminal status releases the lease. *)
LEMMA CloseReleases ==
  ASSUME Inv, NEW a \in Actors, CloseUpdate(a)
  PROVE Lease!Next
<1>1. /\ sid[a] \in SessionIds /\ Active(sid[a]) /\ wanted[a] \in CloseStatuses
      /\ status' = [status EXCEPT ![sid[a]] = wanted[a]] /\ rootOf' = rootOf
      /\ rootOf[sid[a]] \in Roots
  BY DEF CloseUpdate, Goto, Inv, CloseKnows, CallsKnow, CloseSteps, RecordsWhole, Active, Exists
<1>2. wanted[a] # "active" /\ wanted[a] # "absent"
  BY <1>1, SessionConstants
<1>3. \A b \in Actors, s \in SessionIds : WorksOn(b, s)' <=> WorksOn(b, s)
  BY DEF CloseUpdate, Goto, locals, Inv, TypeOK, WorksOn, Admitted
<1>4. Granted' = Granted /\ Busy' = Busy
  BY <1>1, <1>2, <1>3 DEF Inv, TypeOK, Granted, Busy, LeaseOf, Exists, Active
<1>5. Open' = Open \ {LeaseOf(sid[a])}
  <2>1. \A s \in SessionIds : Active(s)' <=> Active(s) /\ s # sid[a]
    BY <1>1, <1>2 DEF Inv, TypeOK, Active
  <2> QED
    BY <1>1, <2>1 DEF Open, LeaseOf
<1>6. LeaseOf(sid[a]) \in Lease!Lease
  BY <1>1 DEF LeaseOf, Lease!Lease
<1>7. Lease!Release(LeaseOf(sid[a]))
  BY <1>4, <1>5 DEF Lease!Release
<1> QED
  BY <1>6, <1>7 DEF Lease!Next

(* The status check of sessions.active begins an operation. *)
LEMMA CheckBegins ==
  ASSUME Inv, NEW a \in Actors, OpCheck(a)
  PROVE Lease!Next
<1>1. /\ pc[a] = "op_check" /\ sid[a] \in SessionIds /\ Active(sid[a]) /\ UNCHANGED records
      /\ sid' = sid /\ pc' = [pc EXCEPT ![a] = "op_work"] /\ rootOf[sid[a]] \in Roots
  BY DEF OpCheck, Inv, CallsKnow, RecordsWhole, Active, Exists, locals
<1>2. \A b \in Actors : ~WorksOn(b, sid[a])
  <2>1. oplock[sid[a]] = a
    BY <1>1 DEF Inv, LocksHeld, Locked, OpSteps
  <2> QED
    BY <1>1, <2>1 DEF Inv, LocksHeld, WorksOn, Admitted, Locked, OpSteps
<1>3. \A b \in Actors, s \in SessionIds :
        WorksOn(b, s)' <=> WorksOn(b, s) \/ (b = a /\ s = sid[a])
  BY <1>1 DEF Inv, TypeOK, WorksOn, Admitted
<1>4. Granted' = Granted /\ Open' = Open
  BY <1>1 DEF records, Granted, Open, LeaseOf, Exists, Active
<1>5. Busy' = Busy \cup {LeaseOf(sid[a])}
  <2>1. \A s \in SessionIds : (LeaseOf(s))' = LeaseOf(s)
    BY <1>1 DEF records, LeaseOf
  <2> QED
    BY <1>1, <1>3, <2>1 DEF Busy
<1>6. LeaseOf(sid[a]) \in Open \ Busy
  BY <1>1, <1>2 DEF Open, Busy, LeaseOf
<1>7. LeaseOf(sid[a]) \in Lease!Lease
  BY <1>1 DEF LeaseOf, Lease!Lease
<1>8. Lease!Begin(LeaseOf(sid[a]))
  BY <1>4, <1>5, <1>6 DEF Lease!Begin
<1> QED
  BY <1>7, <1>8 DEF Lease!Next

(* Every other step starts no operation. *)
LEMMA OthersStart ==
  ASSUME Inv, [Next]_vars
  PROVE \/ \E a \in Actors : Publish(a) \/ CloseUpdate(a) \/ OpCheck(a)
        \/ \A a \in Actors, s \in SessionIds : WorksOn(a, s)' => WorksOn(a, s)
BY SessionConstants DEF Inv, TypeOK, CallsKnow, WorksOn, Admitted, Next, NewCall, Proceed, vars,
   Goto, Return, EndCalls, TakePolicy, locals, CreateCall, CreateLock, CreateList,
   RejectOverlap, VisitTerminal, CloseCall, CloseLock, CloseRead, CloseCleanup, CloseDrain,
   OpCall, OpLock, Launch, JobDone, OpEnd, Refuse, Abort, Crash, OrphanExits

(* Sessions implement workspace leases.                                    *)
THEOREM SessionsLease == Spec => ImplementsLease
<1>1. Init => Lease!Init
  BY DEF Init, Lease!Init, Granted, Open, Busy, Exists, Active, WorksOn, Admitted
<1>2. ASSUME Inv, [Next]_vars PROVE Lease!Next
  <2>1. CASE \E a \in Actors : Publish(a) \/ CloseUpdate(a) \/ OpCheck(a)
    BY <1>2, <2>1, PublishAdmits, CloseReleases, CheckBegins
  <2>2. CASE ~\E a \in Actors : Publish(a) \/ CloseUpdate(a) \/ OpCheck(a)
    BY <1>2, <2>2, OthersStart, Writers, EndsOperations
  <2> QED
    BY <2>1, <2>2
<1> QED
  BY <1>1, <1>2, SessionInvariant, PTL DEF Spec, ImplementsLease, Lease!Spec

-----------------------------------------------------------------------------
(* Managed code that is waited for belongs to an admitted operation, and   *)
(* operations admitted at the same time under different sessions do not    *)
(* touch: the second session was active when its operation was admitted.   *)
JobsWaited ==
  \A j \in jobs : j.by # NoActor => pc[j.by] = "op_wait" /\ sid[j.by] = j.sid

WorkApart ==
  \A a, b \in Actors, s, u \in SessionIds :
    WorksOn(a, s) /\ WorksOn(b, u) /\ s # u => ~Touch(s, u)

LEMMA WaitedInductive == Inv /\ JobsWaited /\ [Next]_vars => JobsWaited'
<1> SUFFICES ASSUME Inv, JobsWaited, [Next]_vars PROVE JobsWaited'
  OBVIOUS
<1> USE SessionConstants DEF Inv, TypeOK, Job, JobsWaited
<1>1. ASSUME NEW a \in Actors, NewCall(a) PROVE JobsWaited'
  BY <1>1 DEF NewCall, CreateCall, CloseCall, OpCall, Goto
<1>2. ASSUME NEW a \in Actors, Launch(a) PROVE JobsWaited'
  BY <1>2 DEF Launch, Goto, locals
<1>3. ASSUME NEW a \in Actors, JobDone(a) PROVE JobsWaited'
  BY <1>3 DEF JobDone, Goto, locals
<1>4. ASSUME NEW a \in Actors, CloseCleanup(a) PROVE JobsWaited'
  BY <1>4 DEF CloseCleanup, Goto, locals
<1>5. ASSUME NEW a \in Actors,
             CreateLock(a) \/ CreateList(a) \/ VisitTerminal(a) \/ CloseLock(a) \/ CloseRead(a)
      PROVE JobsWaited'
  BY <1>5 DEF CreateLock, CreateList, VisitTerminal, CloseLock, CloseRead, TakePolicy, Goto, locals
<1>6. ASSUME NEW a \in Actors, CloseUpdate(a) \/ OpLock(a) \/ OpCheck(a)
      PROVE JobsWaited'
  BY <1>6 DEF CloseUpdate, OpLock, OpCheck, Goto, locals
<1>7. ASSUME NEW a \in Actors, pc[a] # "op_wait", Return(a), UNCHANGED jobs
      PROVE JobsWaited'
  BY <1>7 DEF Return, EndCalls
<1>8. ASSUME NEW a \in Actors,
             \/ RejectOverlap(a) \/ Publish(a) \/ CloseDrain(a) \/ OpEnd(a)
             \/ Refuse(a) \/ Abort(a)
      PROVE JobsWaited'
  BY <1>7, <1>8 DEF RejectOverlap, Publish, CloseDrain, OpEnd, Refuse, Abort, CreateSteps,
     CloseSteps
<1>9. ASSUME NEW p \in Processes, Crash(p) PROVE JobsWaited'
  BY <1>9 DEF Crash, EndCalls
<1>10. CASE OrphanExits
  BY <1>10 DEF OrphanExits, locals
<1>11. CASE UNCHANGED vars
  BY <1>11 DEF vars
<1> HIDE DEF Inv, TypeOK, Job, JobsWaited
<1> QED
  BY <1>1, <1>2, <1>3, <1>4, <1>5, <1>6, <1>8, <1>9, <1>10, <1>11 DEF Next, Proceed

LEMMA ApartInductive == Inv /\ WorkApart /\ [Next]_vars => WorkApart'
<1> SUFFICES ASSUME Inv, WorkApart, [Next]_vars PROVE WorkApart'
  OBVIOUS
<1>1. ASSUME NEW a \in Actors, Publish(a) PROVE WorkApart'
  <2>1. sid[a] \in SessionIds /\ ~Exists(sid[a])
    BY <1>1 DEF Publish, Inv, CallsKnow, CreateSteps
  <2>2. \A b \in Actors, s \in SessionIds : WorksOn(b, s)' => WorksOn(b, s) /\ s # sid[a]
    BY <2>1, <1>1 DEF Publish, Return, EndCalls, Inv, RecordsWhole, WorksOn, Admitted
  <2>3. \A s \in SessionIds : s # sid[a] => rootOf'[s] = rootOf[s]
    BY <1>1, <2>1 DEF Publish, Inv, TypeOK
  <2> QED
    BY <2>2, <2>3 DEF WorkApart, Touch
<1>2. ASSUME NEW a \in Actors, OpCheck(a) PROVE WorkApart'
  <2>1. /\ rootOf' = rootOf /\ sid[a] \in SessionIds /\ Active(sid[a])
        /\ \A b \in Actors, s \in SessionIds :
             WorksOn(b, s)' => WorksOn(b, s) \/ s = sid[a]
    BY <1>2 DEF OpCheck, locals, records, Inv, TypeOK, CallsKnow, WorksOn, Active
  <2>2. \A b \in Actors, s \in SessionIds :
          WorksOn(b, s) /\ s # sid[a] => ~Touch(s, sid[a]) /\ ~Touch(sid[a], s)
    BY <2>1 DEF Inv, OperationIsolation, Touch, Overlaps
  <2> QED
    BY <2>1, <2>2 DEF WorkApart, Touch
<1>3. ASSUME UNCHANGED rootOf,
             \A a \in Actors, s \in SessionIds : WorksOn(a, s)' => WorksOn(a, s)
      PROVE WorkApart'
  BY <1>3 DEF WorkApart, Touch
<1>4. ASSUME NEW a \in Actors, CloseUpdate(a) PROVE WorkApart'
  BY <1>4, <1>3 DEF CloseUpdate, Goto, locals, WorksOn, Admitted, Inv, TypeOK
<1> QED
  BY <1>1, <1>2, <1>3, <1>4, OthersStart, Writers DEF records

(* Managed code a call waits for has its workspace to itself.              *)
THEOREM ManagedCodeAlone == Spec => []SoleExecution
<1>1. Init => JobsWaited /\ WorkApart
  BY DEF Init, JobsWaited, WorkApart, WorksOn, Admitted
<1>2. Inv /\ JobsWaited /\ WorkApart => SoleExecution
  <2> SUFFICES ASSUME Inv, JobsWaited, WorkApart, NEW j \in jobs, NEW k \in jobs,
                      j.by # NoActor, k.by # NoActor, Touch(j.sid, k.sid)
               PROVE j = k
    BY DEF SoleExecution
  <2>1. /\ j \in Job /\ k \in Job /\ j.by \in Actors /\ k.by \in Actors
        /\ WorksOn(j.by, j.sid) /\ WorksOn(k.by, k.sid)
    BY DEF Inv, TypeOK, Job, JobsWaited, WorksOn, Admitted
  <2>2. j.sid = k.sid
    BY <2>1 DEF WorkApart, Job
  <2>3. j.by = k.by
    BY <2>1, <2>2 DEF Inv, LocksHeld, WorksOn, Admitted, Locked, OpSteps, Job
  <2> QED
    BY <2>1, <2>2, <2>3 DEF Job
<1> QED
  BY <1>1, <1>2, WaitedInductive, ApartInductive, SessionInvariant, PTL DEF Spec
=============================================================================
