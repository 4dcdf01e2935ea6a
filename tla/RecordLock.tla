----------------------------- MODULE RecordLock -----------------------------
(***************************************************************************)
(* record_lock(path) of repositories/locking.py for one lock path.  The    *)
(* context manager takes two locks in order: the thread lock its process   *)
(* keeps for the path, then an advisory lock on a lock file that every     *)
(* server process of the state directory opens.  A process may die at any  *)
(* point; the kernel then drops its file lock and its memory is gone.      *)
(***************************************************************************)
EXTENDS Naturals

CONSTANTS Threads,    \* every thread of every server process
          Processes,  \* server processes that share the state directory
          ProcessOf,  \* the process a thread belongs to
          NoThread    \* nobody

ASSUME LockConstants ==
  /\ ProcessOf \in [Threads -> Processes]
  /\ NoThread \notin Threads

VARIABLES
  pc,          \* where each thread stands in record_lock
  threadLock,  \* _locks[path] of each process: its holder or NoThread
  fileLock     \* holder of the advisory lock on the file, or NoThread

vars == <<pc, threadLock, fileLock>>

Steps == {"out", "queued", "opening", "flocking", "inside", "closing"}

TypeOK ==
  /\ pc \in [Threads -> Steps]
  /\ threadLock \in [Processes -> Threads \cup {NoThread}]
  /\ fileLock \in Threads \cup {NoThread}

Init ==
  /\ pc = [t \in Threads |-> "out"]
  /\ threadLock = [p \in Processes |-> NoThread]
  /\ fileLock = NoThread

Goto(t, from, to) ==
  /\ pc[t] = from
  /\ pc' = [pc EXCEPT ![t] = to]

TakeThreadLock(t) == threadLock' = [threadLock EXCEPT ![ProcessOf[t]] = t]

DropThreadLock(t) == threadLock' = [threadLock EXCEPT ![ProcessOf[t]] = NoThread]

(***************************************************************************)
(* Faulty variants of the actions below, one per property: mutation runs   *)
(* put them in place of the action they are named after.                   *)
(***************************************************************************)
OpenFailsKeepsLock(t) ==
  /\ Goto(t, "opening", "out")
  /\ UNCHANGED <<threadLock, fileLock>>

CrashFreesFile(p) ==
  /\ pc' = [t \in Threads |-> IF ProcessOf[t] = p THEN "out" ELSE pc[t]]
  /\ threadLock' = [threadLock EXCEPT ![p] = NoThread]
  /\ fileLock' = NoThread

-----------------------------------------------------------------------------
(* A thread enters record_lock and finds, or installs under _guard, the    *)
(* one thread lock of its process for this path.                           *)
Request(t) ==
  /\ Goto(t, "out", "queued")
  /\ UNCHANGED <<threadLock, fileLock>>

AcquireThreadLock(t) ==
  /\ threadLock[ProcessOf[t]] = NoThread
  /\ Goto(t, "queued", "opening")
  /\ TakeThreadLock(t)
  /\ UNCHANGED fileLock

OpenLockFile(t) ==
  /\ Goto(t, "opening", "flocking")
  /\ UNCHANGED <<threadLock, fileLock>>

(* mkdir or open raises: the with statement lets go of the thread lock. *)
OpenFails(t) ==
  /\ Goto(t, "opening", "out")
  /\ DropThreadLock(t)
  /\ UNCHANGED fileLock

(* flock, or the retry loop of the Windows branch, succeeds once the file  *)
(* is free; each thread opened the file itself, so threads of one process  *)
(* exclude each other here too.                                            *)
AcquireFileLock(t) ==
  /\ fileLock = NoThread
  /\ Goto(t, "flocking", "inside")
  /\ fileLock' = t
  /\ UNCHANGED threadLock

(* flock or locking raises: the file is closed, and the thread lock let go *)
(* of after it.                                                            *)
LockFails(t) ==
  /\ Goto(t, "flocking", "closing")
  /\ UNCHANGED <<threadLock, fileLock>>

(* The body ends, normally or by an exception: finally unlocks the file. *)
Unlock(t) ==
  /\ Goto(t, "inside", "closing")
  /\ fileLock' = NoThread
  /\ UNCHANGED threadLock

Exit(t) ==
  /\ Goto(t, "closing", "out")
  /\ DropThreadLock(t)
  /\ UNCHANGED fileLock

(* The process dies and a new one takes its place. *)
Crash(p) ==
  /\ pc' = [t \in Threads |-> IF ProcessOf[t] = p THEN "out" ELSE pc[t]]
  /\ threadLock' = [threadLock EXCEPT ![p] = NoThread]
  /\ fileLock' = IF \E t \in Threads : ProcessOf[t] = p /\ fileLock = t
                 THEN NoThread ELSE fileLock

Advance(t) ==
  \/ OpenLockFile(t)
  \/ OpenFails(t)
  \/ Unlock(t)
  \/ Exit(t)

Next ==
  \/ \E t \in Threads :
       \/ Request(t)
       \/ AcquireThreadLock(t)
       \/ AcquireFileLock(t)
       \/ LockFails(t)
       \/ Advance(t)
  \/ \E p \in Processes : Crash(p)

Spec == Init /\ [][Next]_vars

(* A thread keeps running its code and takes a lock that stays free for    *)
(* it.  Nothing more: neither threading.Lock nor flock queues its waiters, *)
(* so a lock freed again and again may be withheld from one of them.       *)
Fairness ==
  \A t \in Threads :
    /\ WF_vars(Advance(t))
    /\ WF_vars(AcquireThreadLock(t))
    /\ WF_vars(AcquireFileLock(t))

FairSpec == Spec /\ Fairness

-----------------------------------------------------------------------------
(* No two threads of any processes are inside the same record_lock: the    *)
(* claim of locking.py that thread locks serialise callers of a process    *)
(* and file locks coordinate the processes.                                *)
MutualExclusion ==
  \A t, u \in Threads : pc[t] = "inside" /\ pc[u] = "inside" => t = u

(* A process never has two threads between the thread lock and its         *)
(* release, so at most one of its threads blocks in the kernel on flock.   *)
Holding == {"opening", "flocking", "inside", "closing"}

OneHolderPerProcess ==
  \A t, u \in Threads :
    /\ ProcessOf[t] = ProcessOf[u]
    /\ pc[t] \in Holding
    /\ pc[u] \in Holding
    => t = u

NewRequest == \E t \in Threads : Request(t)

FiniteTraffic == <>[][~NewRequest]_vars

(* The lock is never lost: once requests cease, each one made gets inside, *)
(* or ends with an error or the death of its process, although threads     *)
(* fail to open or lock the file, raise in the body or die holding both.   *)
AttemptsEnd ==
  FiniteTraffic =>
    \A t \in Threads : pc[t] = "queued" ~> pc[t] \in {"inside", "out"}

(* What the state store sees of a thread. *)
PhaseOf(step) ==
  IF step = "inside" THEN "inside"
  ELSE IF step \in {"queued", "opening", "flocking"} THEN "waiting" ELSE "out"

Phase == [t \in Threads |-> PhaseOf(pc[t])]

Lock == INSTANCE Mutex WITH Clients <- Threads, phase <- Phase

(* record_lock is a mutex for all threads of all server processes. *)
ImplementsMutex == Lock!Spec
=============================================================================
