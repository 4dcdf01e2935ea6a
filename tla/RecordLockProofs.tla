-------------------------- MODULE RecordLockProofs --------------------------
(***************************************************************************)
(* record_lock excludes, for any number of threads and processes, and      *)
(* implements the abstract mutex.                                          *)
(***************************************************************************)
EXTENDS RecordLock, TLAPS

(* Each lock variable names exactly the thread whose code holds the lock.  *)
(* The claims about pc alone are not inductive: an acquire is guarded by   *)
(* the lock variables, not by where the other threads stand.               *)
ThreadLockHeld == \A t \in Threads : pc[t] \in Holding <=> threadLock[ProcessOf[t]] = t

FileLockHeld == \A t \in Threads : pc[t] = "inside" <=> fileLock = t

LockInv == TypeOK /\ ThreadLockHeld /\ FileLockHeld

(* The lock variables name the holders in the initial state and after      *)
(* every step of record_lock.                                              *)
LEMMA LockInvariant == Spec => []LockInv
<1> USE LockConstants
<1>1. Init => LockInv
  BY DEF Init, LockInv, TypeOK, ThreadLockHeld, FileLockHeld, Steps, Holding
<1>2. LockInv /\ [Next]_vars => LockInv'
  <2> SUFFICES ASSUME LockInv, [Next]_vars PROVE LockInv'
    OBVIOUS
  <2> USE DEF LockInv, TypeOK, ThreadLockHeld, FileLockHeld, Steps, Holding
  <2>1. ASSUME NEW t \in Threads, Request(t) PROVE LockInv'
    BY <2>1 DEF Request, Goto
  <2>2. ASSUME NEW t \in Threads, AcquireThreadLock(t) PROVE LockInv'
    BY <2>2 DEF AcquireThreadLock, Goto, TakeThreadLock
  <2>3. ASSUME NEW t \in Threads, AcquireFileLock(t) PROVE LockInv'
    BY <2>3 DEF AcquireFileLock, Goto
  <2>4. ASSUME NEW t \in Threads, OpenLockFile(t) PROVE LockInv'
    BY <2>4 DEF OpenLockFile, Goto
  <2>5. ASSUME NEW t \in Threads, OpenFails(t) PROVE LockInv'
    BY <2>5 DEF OpenFails, Goto, DropThreadLock
  <2>6. ASSUME NEW t \in Threads, Unlock(t) PROVE LockInv'
    BY <2>6 DEF Unlock, Goto
  <2>7. ASSUME NEW t \in Threads, Exit(t) PROVE LockInv'
    BY <2>7 DEF Exit, Goto, DropThreadLock
  <2>8. ASSUME NEW p \in Processes, Crash(p) PROVE LockInv'
    BY <2>8 DEF Crash
  <2>9. ASSUME NEW t \in Threads, LockFails(t) PROVE LockInv'
    BY <2>9 DEF LockFails, Goto
  <2>10. CASE UNCHANGED vars
    BY <2>10 DEF vars
  <2> QED
    BY <2>1, <2>2, <2>3, <2>4, <2>5, <2>6, <2>7, <2>8, <2>9, <2>10 DEF Next, Advance
<1> QED
  BY <1>1, <1>2, PTL DEF Spec

(* The variables of record_lock keep their types.                          *)
THEOREM LockTypes == Spec => []TypeOK
<1>1. LockInv => TypeOK
  BY DEF LockInv
<1> QED
  BY <1>1, LockInvariant, PTL

(* No two threads of any processes are inside one record_lock together.    *)
THEOREM LockExcludes == Spec => []MutualExclusion
<1>1. LockInv => MutualExclusion
  BY DEF LockInv, FileLockHeld, MutualExclusion
<1> QED
  BY <1>1, LockInvariant, PTL

(* One thread of a process at a time is past the thread lock.              *)
THEOREM LockOneHolder == Spec => []OneHolderPerProcess
<1>1. LockInv => OneHolderPerProcess
  BY DEF LockInv, ThreadLockHeld, OneHolderPerProcess
<1> QED
  BY <1>1, LockInvariant, PTL

(* record_lock implements the mutex: its requests are Want, the file lock  *)
(* Enter, and errors, exits and crashes are Depart.                        *)
THEOREM LockRefines == Spec => ImplementsMutex
<1>1. Init => Lock!Init
  BY DEF Init, Lock!Init, Phase, PhaseOf
<1>2. LockInv /\ [Next]_vars => [Lock!Next]_Phase
  <2> SUFFICES ASSUME LockInv, [Next]_vars PROVE [Lock!Next]_Phase
    OBVIOUS
  <2> USE LockConstants DEF LockInv, TypeOK, Phase, PhaseOf
  <2>1. ASSUME NEW t \in Threads, Request(t) PROVE Lock!Want(t)
    BY <2>1 DEF Request, Goto, Lock!Want
  <2>2. ASSUME NEW t \in Threads, AcquireThreadLock(t) PROVE UNCHANGED Phase
    BY <2>2 DEF AcquireThreadLock, Goto
  <2>3. ASSUME NEW t \in Threads, AcquireFileLock(t) PROVE Lock!Enter(t)
    <3>1. \A u \in Threads : pc[u] # "inside"
      BY <2>3 DEF AcquireFileLock, FileLockHeld
    <3> QED
      BY <2>3, <3>1 DEF AcquireFileLock, Goto, Lock!Enter
  <2>4. ASSUME NEW t \in Threads, OpenLockFile(t) PROVE UNCHANGED Phase
    BY <2>4 DEF OpenLockFile, Goto
  <2>5. ASSUME NEW t \in Threads, OpenFails(t) PROVE Lock!Depart({t})
    BY <2>5 DEF OpenFails, Goto, Lock!Depart
  <2>6. ASSUME NEW t \in Threads, Unlock(t) PROVE Lock!Depart({t})
    BY <2>6 DEF Unlock, Goto, Lock!Depart
  <2>7. ASSUME NEW t \in Threads, Exit(t) PROVE UNCHANGED Phase
    BY <2>7 DEF Exit, Goto
  <2>8. ASSUME NEW p \in Processes, Crash(p)
        PROVE Lock!Depart({t \in Threads : ProcessOf[t] = p})
    BY <2>8 DEF Crash, Lock!Depart
  <2>9. CASE UNCHANGED vars
    BY <2>9 DEF vars
  <2>12. ASSUME NEW t \in Threads, LockFails(t) PROVE Lock!Depart({t})
    BY <2>12 DEF LockFails, Goto, Lock!Depart
  <2>10. \A S \in SUBSET Threads : Lock!Depart(S) => Lock!Next
    BY DEF Lock!Next
  <2>11. \A t \in Threads : Lock!Want(t) \/ Lock!Enter(t) => Lock!Next
    BY DEF Lock!Next
  <2> HIDE DEF LockInv, TypeOK, Phase, PhaseOf
  <2> QED
    BY <2>1, <2>2, <2>3, <2>4, <2>5, <2>6, <2>7, <2>8, <2>9, <2>10, <2>11, <2>12
       DEF Next, Advance
<1> QED
  BY <1>1, <1>2, LockInvariant, PTL DEF Spec, ImplementsMutex, Lock!Spec
=============================================================================
