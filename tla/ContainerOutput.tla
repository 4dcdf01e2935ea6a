-------------------------- MODULE ContainerOutput ---------------------------
(***************************************************************************)
(* DockerBackend.execute of execution_backends/docker.py once the docker   *)
(* client is started.  The code in the container prints; the client passes *)
(* it on into two pipes; a thread of the server drains each pipe into a    *)
(* capped buffer (_drain); the calling thread waits for the client, kills  *)
(* the container and then the client when they take too long, joins the    *)
(* two threads for a while and makes a result of what the buffers hold.    *)
(*                                                                         *)
(* Output is the number of its characters.                                 *)
(***************************************************************************)
EXTENDS Naturals

CONSTANTS
  MaxOutput,       \* max_output_chars
  PipeSize,        \* what a pipe holds
  ReadSize,        \* what stream.read asks for
  MaxPrinted,      \* bound: characters the code prints to each stream
  Faults,          \* "kill": docker kill has no effect.  "hang": it does not end in time.
                   \* "slow": a thread drains for longer than it is waited for.
  NoResult

ASSUME OutputConstants ==
  /\ {MaxOutput, PipeSize, ReadSize} \subseteq Nat \ {0} /\ MaxPrinted \in Nat
  /\ Faults \subseteq {"kill", "hang", "slow"}

VARIABLES
  container,  \* how the container ended, or "running"
  client,     \* the docker client: "new", "up" or "down"
  call,       \* where the calling thread stands
  timedOut,   \* timed_out
  printed,    \* characters that reached the pipe of each stream
  pipe,       \* those that are in it
  held,       \* those a thread has read towards its next chunk
  kept,       \* those in its buffer
  cut,        \* the truncated event of the stream
  reader,     \* the thread: "reading" or "ended"
  missed,     \* streams whose thread was not waited for to the end
  result      \* what execute returned, or NoResult

outputVars ==
  <<container, client, call, timedOut, printed, pipe, held, kept, cut, reader, missed, result>>

Streams == {"stdout", "stderr"}
Ends == {"succeeded", "failed"}
Lesser(a, b) == IF a <= b THEN a ELSE b

OutputTypes ==
  /\ container \in Ends \cup {"running", "killed"}
  /\ client \in {"new", "up", "down"}
  /\ call \in {"new", "waiting", "killing", "waiting again", "collecting", "returned", "raised"}
               \cup Streams
  /\ timedOut \in BOOLEAN
  /\ printed \in [Streams -> 0 .. MaxPrinted]
  /\ pipe \in [Streams -> 0 .. PipeSize]
  /\ held \in [Streams -> 0 .. ReadSize]
  /\ kept \in [Streams -> 0 .. MaxOutput]
  /\ cut \in [Streams -> BOOLEAN]
  /\ reader \in [Streams -> {"reading", "ended"}]
  /\ missed \subseteq Streams
  /\ result \in [status : Ends \cup {"timed_out"}, kept : [Streams -> 0 .. MaxOutput],
                 cut : [Streams -> BOOLEAN]] \cup {NoResult}

OutputInit ==
  /\ container = "running" /\ client = "new" /\ call = "new" /\ timedOut = FALSE
  /\ printed = [s \in Streams |-> 0] /\ pipe = [s \in Streams |-> 0]
  /\ held = [s \in Streams |-> 0] /\ kept = [s \in Streams |-> 0]
  /\ cut = [s \in Streams |-> FALSE] /\ reader = [s \in Streams |-> "reading"]
  /\ missed = {} /\ result = NoResult

threads == <<held, kept, cut, reader>>

-----------------------------------------------------------------------------
(* The container and the docker client. *)
PrintOut(s) ==
  /\ container = "running" /\ client = "up"
  /\ printed[s] < MaxPrinted /\ pipe[s] < PipeSize
  /\ printed' = [printed EXCEPT ![s] = @ + 1]
  /\ pipe' = [pipe EXCEPT ![s] = @ + 1]
  /\ UNCHANGED <<container, client, call, timedOut, threads, missed, result>>

CodeEnds(how) ==
  /\ container = "running" /\ client # "new"
  /\ container' = how
  /\ UNCHANGED <<client, call, timedOut, printed, pipe, threads, missed, result>>

ClientEnds ==
  /\ client = "up" /\ container # "running"
  /\ client' = "down"
  /\ UNCHANGED <<container, call, timedOut, printed, pipe, threads, missed, result>>

-----------------------------------------------------------------------------
(* _drain.  A read ends when it has ReadSize characters, or at the end of  *)
(* the stream: when the client is down and nothing is left.                *)
AtEnd(s) == client = "down" /\ pipe[s] = 0

(* A faulty variant of Fill: nothing is read of a stream that is full.     *)
FillUntilFull(s) ==
  LET n == Lesser(pipe[s], ReadSize - held[s]) IN
  /\ client # "new" /\ reader[s] = "reading" /\ n > 0 /\ kept[s] < MaxOutput
  /\ pipe' = [pipe EXCEPT ![s] = @ - n]
  /\ held' = [held EXCEPT ![s] = @ + n]
  /\ UNCHANGED <<container, client, call, timedOut, printed, kept, cut, reader, missed, result>>

Fill(s) ==
  LET n == Lesser(pipe[s], ReadSize - held[s]) IN
  /\ client # "new" /\ reader[s] = "reading" /\ n > 0
  /\ pipe' = [pipe EXCEPT ![s] = @ - n]
  /\ held' = [held EXCEPT ![s] = @ + n]
  /\ UNCHANGED <<container, client, call, timedOut, printed, kept, cut, reader, missed, result>>

(* A faulty variant of Keep: only a chunk that is too long alone is told.  *)
KeepByChunk(s) ==
  /\ reader[s] = "reading"
  /\ held[s] = ReadSize \/ (AtEnd(s) /\ held[s] > 0)
  /\ cut' = [cut EXCEPT ![s] = @ \/ held[s] > MaxOutput]
  /\ kept' = [kept EXCEPT ![s] = Lesser(MaxOutput, @ + held[s])]
  /\ held' = [held EXCEPT ![s] = 0]
  /\ UNCHANGED <<container, client, call, timedOut, printed, pipe, reader, missed, result>>

(* Another: the chunk that reaches the cap is kept whole. *)
KeepWhole(s) ==
  /\ reader[s] = "reading"
  /\ held[s] = ReadSize \/ (AtEnd(s) /\ held[s] > 0)
  /\ cut' = [cut EXCEPT ![s] = @ \/ held[s] > MaxOutput - kept[s]]
  /\ kept' = [kept EXCEPT ![s] = IF @ < MaxOutput THEN @ + held[s] ELSE @]
  /\ held' = [held EXCEPT ![s] = 0]
  /\ UNCHANGED <<container, client, call, timedOut, printed, pipe, reader, missed, result>>

Keep(s) ==
  /\ reader[s] = "reading"
  /\ held[s] = ReadSize \/ (AtEnd(s) /\ held[s] > 0)
  /\ cut' = [cut EXCEPT ![s] = @ \/ held[s] > MaxOutput - kept[s]]
  /\ kept' = [kept EXCEPT ![s] = Lesser(MaxOutput, @ + held[s])]
  /\ held' = [held EXCEPT ![s] = 0]
  /\ UNCHANGED <<container, client, call, timedOut, printed, pipe, reader, missed, result>>

Shut(s) ==
  /\ reader[s] = "reading" /\ AtEnd(s) /\ held[s] = 0
  /\ reader' = [reader EXCEPT ![s] = "ended"]
  /\ UNCHANGED <<container, client, call, timedOut, printed, pipe, held, kept, cut, missed, result>>

Read(s) == Fill(s) \/ Keep(s) \/ Shut(s)

-----------------------------------------------------------------------------
(* execute: the calling thread. *)
Start ==
  /\ call = "new" /\ client = "new"
  /\ client' = "up" /\ call' = "waiting"
  /\ UNCHANGED <<container, timedOut, printed, pipe, threads, missed, result>>

(* proc.wait, the first time or after the kill. *)
ClientSeen ==
  /\ call \in {"waiting", "waiting again"} /\ client = "down"
  /\ call' = "stdout"
  /\ UNCHANGED <<container, client, timedOut, printed, pipe, threads, missed, result>>

TimeOut ==
  /\ call = "waiting" /\ client = "up"
  /\ call' = "killing" /\ timedOut' = TRUE
  /\ UNCHANGED <<container, client, printed, pipe, threads, missed, result>>

KillContainer ==
  /\ call = "killing"
  /\ \/ call' = "waiting again" /\ container' = IF container = "running" THEN "killed" ELSE container
     \/ "kill" \in Faults /\ call' = "waiting again" /\ UNCHANGED container
     \/ "hang" \in Faults /\ call' = "raised" /\ UNCHANGED container
  /\ UNCHANGED <<client, timedOut, printed, pipe, threads, missed, result>>

(* The container may still be running: its client is killed. *)
KillClient ==
  /\ call = "waiting again" /\ client = "up"
  /\ call' = "stdout" /\ client' = "down"
  /\ UNCHANGED <<container, timedOut, printed, pipe, threads, missed, result>>

(* The threads are joined one after the other. *)
Join(s) ==
  /\ call = s
  /\ \/ reader[s] = "ended" /\ UNCHANGED missed
     \/ "slow" \in Faults /\ reader[s] # "ended" /\ missed' = missed \cup {s}
  /\ call' = IF s = "stdout" THEN "stderr" ELSE "collecting"
  /\ UNCHANGED <<container, client, timedOut, printed, pipe, threads, result>>

Collect ==
  /\ call = "collecting" /\ call' = "returned"
  /\ result' = [status |-> IF timedOut THEN "timed_out"
                           ELSE IF container = "succeeded" THEN "succeeded" ELSE "failed",
                kept |-> kept, cut |-> cut]
  /\ UNCHANGED <<container, client, timedOut, printed, pipe, threads, missed>>

CallSteps ==
  ClientSeen \/ TimeOut \/ KillContainer \/ KillClient \/ (\E s \in Streams : Join(s)) \/ Collect

-----------------------------------------------------------------------------
(* The docstring of _drain, and SC-008, explicit truncation: a result holds *)
(* what the code printed up to the cap and is marked truncated exactly when *)
(* there was more, whatever was killed in between, unless a thread was not  *)
(* waited for; and it says how the code ended.                              *)
OutputTold ==
  call = "returned" =>
    /\ result.status # "timed_out" => result.status = container
    /\ \A s \in Streams \ missed :
         /\ result.kept[s] = Lesser(printed[s], MaxOutput)
         /\ result.cut[s] <=> printed[s] > MaxOutput

(* "continuing to drain": code never waits on a full pipe for good, though *)
(* nobody keeps what it prints; and a call ends, even when docker kill has *)
(* no effect.                                                              *)
ExecuteEnds ==
  /\ \A s \in Streams : pipe[s] = PipeSize ~> pipe[s] < PipeSize
  /\ call = "waiting" ~> call \in {"returned", "raised"}
=============================================================================
