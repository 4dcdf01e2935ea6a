------------------------- MODULE DockerBackendProofs ------------------------
(***************************************************************************)
(* Proofs about DockerBackend.execute: what a result tells of the output,  *)
(* for any caps and any amount of it; and what managed code can do to the  *)
(* workspace through the mounts, for any workspace and any number of its   *)
(* steps.                                                                  *)
(***************************************************************************)
EXTENDS DockerBackend, FiniteSetTheorems, TLAPS

(* What a thread took off its pipe and passed on is in the buffer, up to   *)
(* the cap; a thread ends when there is nothing left to come.              *)
Streamed(s) ==
  /\ pipe[s] + held[s] <= printed[s]
  /\ kept[s] = Lesser(printed[s] - pipe[s] - held[s], MaxOutput)
  /\ cut[s] <=> printed[s] - pipe[s] - held[s] > MaxOutput
  /\ reader[s] = "ended" => client = "down" /\ pipe[s] = 0 /\ held[s] = 0

Joined(s) == s \notin missed => reader[s] = "ended"

(* Where the calling thread stands, and what it may rely on there.         *)
CallInv ==
  /\ client = "new" => call = "new" /\ container = "running"
  /\ call = "new" => ~ timedOut
  /\ call \in {"killing", "waiting again", "raised"} => timedOut
  /\ ~ timedOut => container # "killed"
  /\ client = "down" /\ ~ timedOut => container \in Ends
  /\ call \in Streams \cup {"collecting", "returned"} => client = "down"
  /\ call \in {"stderr", "collecting", "returned"} => Joined("stdout")
  /\ call \in {"collecting", "returned"} => Joined("stderr")

(* A result keeps what was in the buffers of the threads that had ended.   *)
ResultInv ==
  call = "returned" =>
    /\ result.status = IF timedOut THEN "timed_out"
                       ELSE IF container = "succeeded" THEN "succeeded" ELSE "failed"
    /\ \A s \in Streams \ missed : result.kept[s] = kept[s] /\ result.cut[s] = cut[s]

OutputInv == OutputTypes /\ CallInv /\ (\A s \in Streams : Streamed(s)) /\ ResultInv

-----------------------------------------------------------------------------
LEMMA Caps == MaxOutput \in Nat /\ PipeSize \in Nat /\ ReadSize \in Nat /\ MaxPrinted \in Nat
BY OutputConstants

LEMMA OutputStart == OutputInit => OutputInv
<1> SUFFICES ASSUME OutputInit PROVE OutputInv
  OBVIOUS
<1>1. OutputTypes
  <2>1. 0 \in 0 .. MaxPrinted /\ 0 \in 0 .. PipeSize /\ 0 \in 0 .. ReadSize /\ 0 \in 0 .. MaxOutput
    BY Caps
  <2> QED
    BY <2>1 DEF OutputInit, OutputTypes, Ends
<1>2. CallInv /\ ResultInv
  BY DEF OutputInit, CallInv, ResultInv, Streams
<1>3. ASSUME NEW s \in Streams PROVE Streamed(s)
  <2>1. /\ printed[s] = 0 /\ pipe[s] = 0 /\ held[s] = 0 /\ kept[s] = 0
        /\ cut[s] = FALSE /\ reader[s] = "reading"
    BY DEF OutputInit
  <2>2. 0 = Lesser(0 - 0 - 0, MaxOutput) /\ ~ 0 - 0 - 0 > MaxOutput /\ 0 + 0 <= 0
    BY OutputConstants DEF Lesser
  <2> QED
    BY <2>1, <2>2 DEF Streamed
<1> QED
  BY <1>1, <1>2, <1>3 DEF OutputInv

(* The thread of one stream, and the code that prints to it.               *)
LEMMA StreamStep ==
  ASSUME OutputInv, NEW s \in Streams, Read(s) \/ PrintOut(s)
  PROVE  OutputInv'
<1> USE OutputConstants DEF OutputInv
<1>1. /\ s \in Streams /\ pipe[s] \in 0 .. PipeSize /\ held[s] \in 0 .. ReadSize
      /\ kept[s] \in 0 .. MaxOutput /\ printed[s] \in 0 .. MaxPrinted /\ cut[s] \in BOOLEAN
  BY DEF OutputTypes
<1>2. UNCHANGED <<container, client, call, timedOut, missed, result>>
  BY DEF Read, Fill, Keep, Shut, PrintOut
<1>3. ASSUME NEW r \in Streams \ {s} PROVE Streamed(r)'
  <2>1. /\ pipe'[r] = pipe[r] /\ held'[r] = held[r] /\ printed'[r] = printed[r]
        /\ kept'[r] = kept[r] /\ cut'[r] = cut[r] /\ reader'[r] = reader[r]
    BY DEF Read, Fill, Keep, Shut, PrintOut, threads, OutputTypes
  <2>2. Streamed(r)
    OBVIOUS
  <2> QED
    BY <1>2, <2>1, <2>2 DEF Streamed
<1>4. CASE Fill(s)
  <2> DEFINE n == Lesser(pipe[s], ReadSize - held[s])
  <2>1. n \in Nat /\ n <= pipe[s] /\ held[s] + n <= ReadSize
    BY <1>1 DEF Lesser
  <2>2. /\ pipe' = [pipe EXCEPT ![s] = @ - n] /\ held' = [held EXCEPT ![s] = @ + n]
        /\ UNCHANGED <<printed, kept, cut, reader>> /\ reader[s] = "reading"
    BY <1>4 DEF Fill
  <2> HIDE DEF n
  <2>3. pipe'[s] = pipe[s] - n /\ held'[s] = held[s] + n
    BY <2>2 DEF OutputTypes
  <2>4. OutputTypes'
    <3>1. pipe[s] - n \in 0 .. PipeSize /\ held[s] + n \in 0 .. ReadSize
      BY <1>1, <2>1
    <3> QED
      BY <1>2, <2>2, <3>1 DEF OutputTypes
  <2>5. printed'[s] - pipe'[s] - held'[s] = printed[s] - pipe[s] - held[s]
    BY <1>1, <2>1, <2>2, <2>3
  <2>6. Streamed(s)'
    BY <1>1, <2>1, <2>2, <2>3, <2>5 DEF Streamed
  <2>7. CallInv' /\ ResultInv'
    BY <1>2, <2>2 DEF CallInv, ResultInv, Joined
  <2> QED
    BY <1>3, <2>4, <2>6, <2>7
<1>5. CASE Keep(s)
  <2> DEFINE total == printed[s] - pipe[s] - held[s]
             less == Lesser(MaxOutput, kept[s] + held[s])
             more == cut[s] \/ held[s] > MaxOutput - kept[s]
  <2>1. /\ cut' = [cut EXCEPT ![s] = more] /\ kept' = [kept EXCEPT ![s] = less]
        /\ held' = [held EXCEPT ![s] = 0]
        /\ UNCHANGED <<printed, pipe, reader>> /\ reader[s] = "reading"
    BY <1>5 DEF Keep
  <2>2. total \in Nat /\ kept[s] = Lesser(total, MaxOutput) /\ (cut[s] <=> total > MaxOutput)
        /\ pipe[s] + held[s] <= printed[s]
    BY <1>1 DEF Streamed
  <2>3. /\ less \in 0 .. MaxOutput /\ less = Lesser(printed[s] - pipe[s] - 0, MaxOutput)
    BY <1>1, <2>2 DEF Lesser
  <2>4. more <=> printed[s] - pipe[s] - 0 > MaxOutput
    BY <1>1, <2>2 DEF Lesser
  <2>5. more \in BOOLEAN
    OBVIOUS
  <2> HIDE DEF total, less, more
  <2>6. /\ kept'[s] = less /\ held'[s] = 0 /\ pipe[s] + 0 <= printed[s]
        /\ cut'[s] = more
    <3>1. cut'[s] = more
      BY <2>1 DEF OutputTypes
    <3>2. kept'[s] = less /\ held'[s] = 0
      BY <2>1 DEF OutputTypes
    <3>3. pipe[s] + 0 <= printed[s]
      BY <1>1, <2>2
    <3> QED
      BY <3>1, <3>2, <3>3
  <2>7. OutputTypes'
    <3>1. 0 \in 0 .. ReadSize
      BY Caps
    <3>2. kept' \in [Streams -> 0 .. MaxOutput] /\ held' \in [Streams -> 0 .. ReadSize]
      BY <2>1, <2>3, <3>1 DEF OutputTypes
    <3>3. cut' \in [Streams -> BOOLEAN]
      BY <2>1, <2>5 DEF OutputTypes
    <3> QED
      BY <1>2, <2>1, <3>2, <3>3 DEF OutputTypes
  <2>8. Streamed(s)'
    BY <2>1, <2>3, <2>4, <2>6 DEF Streamed
  <2>9. \A r \in Streams : reader[r] = "ended" => kept'[r] = kept[r] /\ cut'[r] = cut[r]
    BY <2>1 DEF OutputTypes
  <2>10. CallInv' /\ UNCHANGED reader
    BY <1>2, <2>1 DEF CallInv, Joined
  <2>11. ResultInv'
    <3>1. CASE call = "returned"
      <4>1. \A r \in Streams \ missed : reader[r] = "ended"
        BY <3>1 DEF CallInv, Joined, Streams
      <4> QED
        BY <1>2, <2>9, <3>1, <4>1 DEF ResultInv
    <3>2. CASE call # "returned"
      BY <1>2, <3>2 DEF ResultInv
    <3> QED
      BY <3>1, <3>2
  <2> QED
    BY <1>3, <2>7, <2>8, <2>10, <2>11
<1>6. CASE Shut(s)
  <2>1. /\ UNCHANGED <<printed, pipe, held, kept, cut>> /\ AtEnd(s) /\ held[s] = 0
        /\ reader' = [reader EXCEPT ![s] = "ended"]
    BY <1>6 DEF Shut
  <2>2. OutputTypes'
    BY <1>2, <2>1 DEF OutputTypes
  <2>3. Streamed(s)'
    BY <1>2, <2>1 DEF Streamed, AtEnd
  <2>4. \A r \in Streams : reader[r] = "ended" => reader'[r] = "ended"
    BY <2>1 DEF OutputTypes
  <2>5. CallInv'
    BY <1>2, <2>4 DEF CallInv, Joined, Streams
  <2>6. ResultInv'
    BY <1>2, <2>1 DEF ResultInv
  <2> QED
    BY <1>3, <2>2, <2>3, <2>5, <2>6
<1>7. CASE PrintOut(s)
  <2>1. /\ client = "up" /\ printed[s] < MaxPrinted /\ pipe[s] < PipeSize
        /\ printed' = [printed EXCEPT ![s] = @ + 1] /\ pipe' = [pipe EXCEPT ![s] = @ + 1]
        /\ UNCHANGED <<held, kept, cut, reader>>
    BY <1>7 DEF PrintOut, threads
  <2>2. OutputTypes'
    <3>1. printed[s] + 1 \in 0 .. MaxPrinted /\ pipe[s] + 1 \in 0 .. PipeSize
      BY <1>1, <2>1, Caps
    <3>2. printed' \in [Streams -> 0 .. MaxPrinted] /\ pipe' \in [Streams -> 0 .. PipeSize]
      BY <2>1, <3>1 DEF OutputTypes
    <3> QED
      BY <1>2, <2>1, <3>2 DEF OutputTypes
  <2>3. printed'[s] = printed[s] + 1 /\ pipe'[s] = pipe[s] + 1
    BY <2>1 DEF OutputTypes
  <2>4. printed'[s] - pipe'[s] - held'[s] = printed[s] - pipe[s] - held[s]
    BY <1>1, <2>1, <2>3
  <2>5. Streamed(s)'
    BY <1>1, <1>2, <2>1, <2>3, <2>4 DEF Streamed
  <2>6. CallInv' /\ ResultInv'
    BY <1>2, <2>1 DEF CallInv, ResultInv, Joined
  <2> QED
    BY <1>3, <2>2, <2>5, <2>6
<1> QED
  BY <1>4, <1>5, <1>6, <1>7 DEF Read

(* Steps of the calling thread, the client and the end of the code: the    *)
(* streams are left alone.                                                 *)
LEMMA StreamsKept ==
  ASSUME OutputInv, UNCHANGED <<printed, pipe, threads>>, client = "down" => client' = "down"
  PROVE  \A s \in Streams : Streamed(s)'
BY DEF OutputInv, Streamed, threads

LEMMA CallStep ==
  ASSUME OutputInv,
         \/ Start \/ CallSteps \/ ClientEnds
         \/ \E how \in Ends : CodeEnds(how)
  PROVE  OutputInv'
<1> USE DEF OutputInv
<1>1. UNCHANGED <<printed, pipe, threads>> /\ (client = "down" => client' = "down")
  BY DEF Start, CallSteps, ClientSeen, TimeOut, KillContainer, KillClient, Join, Collect,
     ClientEnds, CodeEnds
<1>2. \A s \in Streams : Streamed(s)'
  BY <1>1, StreamsKept
<1>3. CASE Start
  BY <1>2, <1>3 DEF Start, OutputTypes, CallInv, ResultInv, threads, Ends, Joined, Streams
<1>4. CASE ClientSeen
  BY <1>2, <1>4 DEF ClientSeen, OutputTypes, CallInv, ResultInv, threads, Ends, Joined, Streams
<1>5. CASE TimeOut
  BY <1>2, <1>5 DEF TimeOut, OutputTypes, CallInv, ResultInv, threads, Ends, Joined, Streams
<1>6. CASE KillContainer
  BY <1>2, <1>6 DEF KillContainer, OutputTypes, CallInv, ResultInv, threads, Ends, Joined, Streams
<1>7. CASE KillClient
  BY <1>2, <1>7 DEF KillClient, OutputTypes, CallInv, ResultInv, threads, Ends, Joined, Streams
<1>8. ASSUME NEW s \in Streams, Join(s) PROVE OutputInv'
  BY <1>2, <1>8 DEF Join, OutputTypes, CallInv, ResultInv, threads, Ends, Joined, Streams
<1>9. CASE Collect
  <2> DEFINE status == IF timedOut THEN "timed_out"
                       ELSE IF container = "succeeded" THEN "succeeded" ELSE "failed"
  <2>1. /\ result' = [status |-> status, kept |-> kept, cut |-> cut] /\ call' = "returned"
        /\ UNCHANGED <<container, client, timedOut, printed, pipe, threads, missed>>
        /\ call = "collecting"
    BY <1>9 DEF Collect
  <2>2. status \in Ends \cup {"timed_out"}
    BY DEF Ends
  <2>3. CallInv'
    BY <2>1 DEF CallInv, Joined, Streams, threads
  <2>4. OutputTypes'
    BY <2>1, <2>2 DEF OutputTypes, threads
  <2>5. ResultInv'
    BY <2>1 DEF ResultInv, threads
  <2> QED
    BY <1>2, <2>3, <2>4, <2>5
<1>10. CASE ClientEnds
  BY <1>2, <1>10 DEF ClientEnds, OutputTypes, CallInv, ResultInv, threads, Ends, Joined, Streams
<1>11. ASSUME NEW how \in Ends, CodeEnds(how) PROVE OutputInv'
  BY <1>2, <1>11 DEF CodeEnds, OutputTypes, CallInv, ResultInv, threads, Ends, Joined, Streams
<1> QED
  BY <1>3, <1>4, <1>5, <1>6, <1>7, <1>8, <1>9, <1>10, <1>11 DEF CallSteps

LEMMA OutputStep == OutputInv /\ [BackendNext]_backendVars => OutputInv'
<1> SUFFICES ASSUME OutputInv, [BackendNext]_backendVars PROVE OutputInv'
  OBVIOUS
<1>1. ASSUME UNCHANGED outputVars PROVE OutputInv'
  BY ZenonT(60), <1>1 DEF outputVars, OutputInv, OutputTypes, CallInv, Joined, Streamed, ResultInv
<1>2. CASE NoImage \/ RefuseMounts \/ WorkOnFiles \/ UNCHANGED backendVars
  BY <1>1, <1>2 DEF NoImage, RefuseMounts, WorkOnFiles, backendVars
<1>3. CASE Execute
  BY <1>1, <1>3, CallStep DEF Execute
<1>4. CASE Code
  BY <1>4, CallStep, StreamStep DEF Code
<1>5. CASE Exit \/ Call
  BY <1>5, CallStep DEF Exit, Call
<1>6. ASSUME NEW s \in Streams, Drain(s) PROVE OutputInv'
  BY <1>6, StreamStep DEF Drain
<1> QED
  BY <1>2, <1>3, <1>4, <1>5, <1>6 DEF BackendNext

LEMMA OutputHeld == BackendSpec => []OutputInv
<1>1. BackendInit => OutputInv
  BY OutputStart DEF BackendInit
<1> QED
  BY <1>1, OutputStep, PTL DEF BackendSpec

(* The docstring of _drain: a result holds what the code printed up to the *)
(* cap and is marked truncated exactly when there was more, whatever was   *)
(* killed in between, unless a thread was not waited for; and it says how  *)
(* the code ended.                                                         *)
THEOREM Told == BackendSpec => []OutputTold
<1>1. ASSUME OutputInv PROVE OutputTold
  <2> SUFFICES ASSUME call = "returned"
               PROVE  /\ result.status # "timed_out" => result.status = container
                      /\ \A s \in Streams \ missed :
                           /\ result.kept[s] = Lesser(printed[s], MaxOutput)
                           /\ result.cut[s] <=> printed[s] > MaxOutput
    BY DEF OutputTold
  <2> USE <1>1 DEF OutputInv
  <2>1. result.status # "timed_out" => result.status = container
    BY DEF ResultInv, CallInv, Ends
  <2>2. ASSUME NEW s \in Streams \ missed
        PROVE  /\ result.kept[s] = Lesser(printed[s], MaxOutput)
               /\ result.cut[s] <=> printed[s] > MaxOutput
    <3>1. reader[s] = "ended" /\ result.kept[s] = kept[s] /\ result.cut[s] = cut[s]
      BY DEF CallInv, Joined, ResultInv, Streams
    <3>2. /\ pipe[s] = 0 /\ held[s] = 0 /\ Streamed(s)
          /\ kept[s] = Lesser(printed[s] - pipe[s] - held[s], MaxOutput)
      BY <3>1 DEF Streamed
    <3>3. cut[s] <=> printed[s] - pipe[s] - held[s] > MaxOutput
      BY <3>2 DEF Streamed
    <3>4. printed[s] - pipe[s] - held[s] = printed[s]
      BY <3>2 DEF OutputTypes
    <3>5. result.cut[s] <=> printed[s] > MaxOutput
      BY <3>1, <3>3, <3>4
    <3> QED
      BY <3>1, <3>2, <3>4, <3>5
  <2> QED
    BY <2>1, <2>2
<1>2. OutputInv => OutputTold
  BY <1>1
<1> QED
  BY <1>2, OutputHeld, PTL

-----------------------------------------------------------------------------
(* The directories above one.                                              *)
LEMMA UpSelf == ASSUME NEW L, NEW d \in Dirs PROVE d \in Upward(L, d) /\ Upward(L, d) \subseteq Dirs
BY DEF Upward

LEMMA UpClosed ==
  ASSUME NEW L \in SUBSET Entry, NEW d \in Dirs, NEW f \in L, f.node \in Upward(L, d)
  PROVE  f.dir \in Upward(L, d)
<1>1. f.dir \in Dirs
  BY DEF Entry
<1>2. ASSUME NEW S \in SUBSET (Dirs \ {f.dir}), d \in S
      PROVE  \E g \in L : g.node \in S /\ g.dir \notin S
  <2>1. CASE f.node \in S
    BY <1>2, <2>1
  <2>2. CASE f.node \notin S
    <3>1. S \in SUBSET (Dirs \ {f.node})
      BY <2>2
    <3> QED
      BY <1>2, <3>1 DEF Upward
  <2> QED
    BY <2>1, <2>2
<1> QED
  BY <1>1, <1>2 DEF Upward

LEMMA UpLeast ==
  ASSUME NEW L, NEW d \in Dirs, NEW T \in SUBSET Dirs, d \in T,
         \A f \in L : f.node \in T => f.dir \in T
  PROVE  Upward(L, d) \subseteq T
<1> SUFFICES ASSUME NEW x \in Upward(L, d), x \notin T PROVE FALSE
  OBVIOUS
<1>1. T \in SUBSET (Dirs \ {x})
  OBVIOUS
<1> QED
  BY <1>1 DEF Upward

LEMMA UpTransitive ==
  ASSUME NEW L \in SUBSET Entry, NEW d \in Dirs, NEW x \in Upward(L, d)
  PROVE  Upward(L, x) \subseteq Upward(L, d)
<1>1. x \in Dirs /\ Upward(L, d) \in SUBSET Dirs
  BY UpSelf
<1>2. \A f \in L : f.node \in Upward(L, d) => f.dir \in Upward(L, d)
  BY UpClosed
<1> QED
  BY <1>1, <1>2, UpLeast

(* A directory has one entry: what is above it is above its parent.        *)
OneEntry(L) == \A e, f \in L : e.node = f.node /\ e.node \in Dirs => e = f

LEMMA UpParent ==
  ASSUME NEW L \in SUBSET Entry, OneEntry(L), NEW f \in L, f.node \in Dirs,
         NEW x \in Upward(L, f.node), x # f.node
  PROVE  x \in Upward(L, f.dir)
<1> DEFINE T == {f.node} \cup Upward(L, f.dir)
<1>1. f.dir \in Dirs /\ f.dir \in Upward(L, f.dir) /\ Upward(L, f.dir) \subseteq Dirs
  BY UpSelf DEF Entry
<1>2. ASSUME NEW g \in L, g.node \in T PROVE g.dir \in T
  <2>1. CASE g.node = f.node
    BY <1>1, <2>1 DEF OneEntry
  <2>2. CASE g.node \in Upward(L, f.dir)
    BY <1>1, <2>2, UpClosed
  <2> QED
    BY <1>2, <2>1, <2>2
<1>3. T \in SUBSET Dirs /\ f.node \in T
  BY <1>1
<1> HIDE DEF T
<1>4. Upward(L, f.node) \subseteq T
  BY <1>2, <1>3, UpLeast
<1> QED
  BY <1>4 DEF T

(* Of two directories above one, one is above the other.                   *)
LEMMA UpChain ==
  ASSUME NEW L \in SUBSET Entry, OneEntry(L), NEW d \in Dirs,
         NEW x \in Upward(L, d), NEW y \in Upward(L, d)
  PROVE  x \in Upward(L, y) \/ y \in Upward(L, x)
<1> DEFINE T == {z \in Upward(L, d) : x \in Upward(L, z) \/ z \in Upward(L, x)}
<1>1. Upward(L, d) \subseteq Dirs /\ d \in Upward(L, d) /\ x \in Dirs
  BY UpSelf
<1>2. ASSUME NEW f \in L, f.node \in T PROVE f.dir \in T
  <2>1. f.dir \in Upward(L, d) /\ f.node \in Dirs
    BY <1>1, <1>2, UpClosed
  <2>2. CASE f.node \in Upward(L, x)
    BY <1>1, <2>1, <2>2, UpClosed
  <2>3. CASE x \in Upward(L, f.node) /\ x # f.node
    BY <2>1, <2>3, UpParent
  <2>4. CASE x = f.node
    BY <1>1, <2>1, <2>4, UpClosed, UpSelf
  <2> QED
    BY <1>2, <2>2, <2>3, <2>4
<1>3. T \in SUBSET Dirs /\ d \in T
  BY <1>1
<1> HIDE DEF T
<1>4. Upward(L, d) \subseteq T
  BY <1>2, <1>3, UpLeast
<1> QED
  BY <1>4 DEF T

-----------------------------------------------------------------------------
(* What is true of every layout the server may find.                       *)
LEMMA Trees ==
  ASSUME before \in Layouts
  PROVE  /\ before \in SUBSET Entry /\ OneEntry(before)
         /\ \A e, f \in before : <<e.dir, e.name>> = <<f.dir, f.name>> => e = f
         /\ \A e \in before : e.node # New
BY MountConstants DEF OneEntry

LEMMA DepthBound ==
  ASSUME before \in Layouts, NEW e \in before
  PROVE  /\ Depth(e) \in Nat /\ Depth(e) <= Cardinality(Dirs) /\ Cardinality(Dirs) \in Nat
         /\ \A x \in Upward(before, e.dir) : Cardinality(Upward(before, x)) <= Depth(e)
<1>1. e.dir \in Dirs /\ before \in SUBSET Entry
  BY Trees DEF Entry
<1>2. Upward(before, e.dir) \in SUBSET Dirs
  BY <1>1, UpSelf
<1>3. IsFiniteSet(Dirs) /\ IsFiniteSet(Upward(before, e.dir))
  BY <1>2, FS_Subset, MountConstants
<1>4. ASSUME NEW x \in Upward(before, e.dir)
      PROVE  Cardinality(Upward(before, x)) <= Depth(e)
  <2>1. Upward(before, x) \subseteq Upward(before, e.dir)
    BY <1>1, UpTransitive
  <2> QED
    BY <1>3, <2>1, FS_Subset DEF Depth
<1>5. Cardinality(Upward(before, e.dir)) \in Nat /\ Cardinality(Dirs) \in Nat
  BY <1>3, FS_CardinalityType
<1>6. Cardinality(Upward(before, e.dir)) <= Cardinality(Dirs)
  BY <1>2, <1>3, FS_Subset
<1> QED
  BY <1>4, <1>5, <1>6 DEF Depth

(* No mount is made on a directory above another one after it: directories *)
(* go before those in them, and what is masked holds nothing protected.    *)
LEMMA AllEffective ==
  ASSUME before \in Layouts
  PROVE  Effective(Layout) = Layout
<1>1. before \in SUBSET Entry /\ \A e \in before : e.dir \in Dirs
  BY Trees DEF Entry
<1>2. SUFFICES ASSUME NEW m \in Layout, NEW n \in Layout, n.order > m.order,
                      n.at.node \in Upward(before, m.at.dir)
               PROVE  FALSE
  BY DEF Effective
<1>3. /\ m.at \in Pinned \cup Masked \cup Protected /\ m.at \in before
      /\ n.at \in Pinned \cup Masked \cup Protected /\ n.at \in before
  BY DEF Layout, Pinned, Masked, Protected, Found
<1>4. n.at.node \in Dirs
  BY <1>1, <1>2, <1>3, UpSelf
<1>5. n.at \notin Protected
  BY <1>4, MountConstants DEF Protected, Found
<1>6. /\ Cardinality(Dirs) \in Nat
      /\ \A e \in before : Depth(e) \in Nat /\ Depth(e) <= Cardinality(Dirs)
  BY <1>3, DepthBound
<1>7. m.order = Depth(m.at) /\ m.at \in Pinned
  <2>1. n.order \in Nat /\ n.order <= Cardinality(Dirs) + 1
    BY <1>3, <1>6 DEF Layout, Order
  <2>2. m.order # Cardinality(Dirs) + 1
    BY <1>2, <1>6, <2>1
  <2> QED
    BY <2>2 DEF Layout, Order
<1>8. CASE n.at \in Masked /\ n.kind = "mask"
  <2>1. n.at.node = State
    BY <1>8 DEF Masked
  <2>2. PICK e \in Protected \cup Masked : m.at.node \in Upward(before, e.dir)
    BY <1>7 DEF Pinned
  <2>3. e \in before /\ e.dir \in Dirs
    BY <1>1, <2>2 DEF Protected, Found, Masked
  <2>4. m.at.dir \in Upward(before, e.dir)
    BY <1>1, <1>3, <2>2, <2>3, UpClosed
  <2>5. State \in Upward(before, e.dir)
    BY <1>1, <1>2, <2>1, <2>3, <2>4, UpTransitive
  <2>6. e \in Masked
    BY <2>2, <2>5 DEF Protected, Found, Under
  <2> QED
    BY <2>3, <2>5, <2>6, LayoutTrees, MountConstants DEF Masked, Under
<1>9. CASE n.at \in Pinned /\ n.kind = "pin"
  <2>1. n.order = Depth(n.at)
    BY <1>9 DEF Layout, Order
  <2>2. n.at.dir \in Upward(before, m.at.dir)
    BY <1>1, <1>2, <1>3, UpClosed
  <2>3. Depth(n.at) <= Depth(m.at)
    BY <1>3, <2>2, DepthBound DEF Depth
  <2> QED
    BY <1>2, <1>3, <1>6, <1>7, <2>1, <2>3
<1> QED
  BY <1>3, <1>5, <1>8, <1>9 DEF Layout

-----------------------------------------------------------------------------
(* What holds while managed code is running.                               *)
SourceNodes == {s.node : s \in sources}

(* The mounts are those laid out, and their mount points are in place.     *)
Laid ==
  /\ ~ Rejected
  /\ mounts = Layout
  /\ {m.at : m \in Layout} \subseteq entries
  /\ OneEntry(entries)

(* No directory in the state directory is ever within reach.               *)
Hidden == \A d \in Dirs : State \in Upward(before, d) => d \notin Inside

(* An entry within reach is not of a file of the state directory, and one  *)
(* of a source is mounted read-only.                                       *)
Shown ==
  \A e \in entries : e.dir \in Inside =>
    /\ e.node \notin StateNodes
    /\ e.node \in SourceNodes \cup {Script} => e \in Protected

Kept ==
  /\ {e \in before : Under(before, e, State)} \subseteq entries
  /\ written \cap (StateNodes \cup SourceNodes) = {}

MountsInv ==
  /\ TypeOK
  /\ before \in Layouts
  /\ sources \subseteq {e \in before : e.node \in Registrable /\ Under(before, e, Workspace)}
  /\ pc = "asked" => entries = before /\ written = {} /\ mounts = {}
  /\ pc = "running" => Laid /\ Hidden /\ Shown /\ Kept

(* What the mounts are laid out on.                                        *)
LEMMA Points ==
  ASSUME mounts = Layout, NEW e
  PROVE  /\ Is(e, "mask") <=> e \in Masked
         /\ Is(e, "readonly") <=> e \in Protected
         /\ MountPoint(e) <=> e \in Pinned \cup Masked \cup Protected
<1>1. ASSUME NEW m \in Layout
      PROVE  \/ m.kind = "pin" /\ m.at \in Pinned
             \/ m.kind = "mask" /\ m.at \in Masked
             \/ m.kind = "readonly" /\ m.at \in Protected
  BY DEF Layout
<1>2. ASSUME e \in Pinned PROVE \E m \in Layout : m.at = e /\ m.kind = "pin"
  <2>1. [at |-> e, order |-> Order(e, "pin"), kind |-> "pin"] \in Layout
    BY <1>2 DEF Layout
  <2> QED
    BY <2>1
<1>3. ASSUME e \in Masked PROVE \E m \in Layout : m.at = e /\ m.kind = "mask"
  <2>1. [at |-> e, order |-> Order(e, "mask"), kind |-> "mask"] \in Layout
    BY <1>3 DEF Layout
  <2> QED
    BY <2>1
<1>4. ASSUME e \in Protected PROVE \E m \in Layout : m.at = e /\ m.kind = "readonly"
  <2>1. [at |-> e, order |-> Order(e, "readonly"), kind |-> "readonly"] \in Layout
    BY <1>4 DEF Layout
  <2> QED
    BY <2>1
<1> QED
  BY <1>1, <1>2, <1>3, <1>4 DEF Is, MountPoint

(* Within reach is what is in the workspace and not in the state directory *)
(* masked there.                                                           *)
Reach ==
  \A d \in Dirs :
    d \in Inside <=>
      Workspace \in Upward(entries, d) /\ (Masked = {} \/ State \notin Upward(entries, d))

LEMMA InsideIs == Laid => Reach
<1> SUFFICES ASSUME Laid, NEW d \in Dirs
             PROVE  d \in Inside <=>
                      Workspace \in Upward(entries, d)
                      /\ (Masked = {} \/ State \notin Upward(entries, d))
  BY DEF Reach
<1>1. \A e : (Is(e, "mask") <=> e \in Masked) /\ (e \in Masked => MountPoint(e))
  BY Points DEF Laid
<1>2. \A e \in Masked : e.node = State /\ e \in entries
  <2> SUFFICES ASSUME NEW e \in Masked PROVE e.node = State /\ e \in entries
    OBVIOUS
  <2>1. \E m \in Layout : m.at = e
    BY <1>1 DEF MountPoint, Laid
  <2> QED
    BY <2>1 DEF Laid, Masked
<1>3. (\E e \in Mount(d) : Is(e, "mask")) <=> Masked # {} /\ State \in Upward(entries, d)
  <2>1. ASSUME NEW e \in Mount(d), Is(e, "mask")
        PROVE  Masked # {} /\ State \in Upward(entries, d)
    BY <1>1, <1>2, <2>1 DEF Mount
  <2>2. ASSUME NEW e \in Masked, State \in Upward(entries, d)
        PROVE  e \in Mount(d) /\ Is(e, "mask")
    BY <1>1, <1>2, <2>2 DEF Mount
  <2> QED
    BY <2>1, <2>2
<1> QED
  BY <1>3 DEF Inside

LEMMA InsideIsNext == Laid' => Reach'
BY InsideIs, PTL

(* A step of the code changes entries within reach that are no mount       *)
(* points, and what it adds is new or has another such entry.              *)
Moved(g) ==
  \/ g.node = New
  \/ \E e \in entries : e.node = g.node /\ e.dir \in Inside /\ ~ MountPoint(e)

LEMMA WorkShape ==
  ASSUME TypeOK, Work
  PROVE  /\ pc = "running" /\ moves \in Nat /\ moves < MaxMoves /\ moves' = moves + 1
         /\ UNCHANGED <<pc, before, sources, mounts>>
         /\ \A f \in entries \ entries' : f.dir \in Inside /\ ~ MountPoint(f)
         /\ \A g \in entries' \ entries : g \in Entry /\ g.dir \in Inside /\ Moved(g)
         /\ written' = written \/ \E e \in entries :
              e.dir \in Inside /\ e.node \notin Dirs /\ Writable(e) /\ written' = written \cup {e.node}
         /\ \A e, f \in entries' : <<e.dir, e.name>> = <<f.dir, f.name>> => e = f
         /\ OneEntry(entries) => OneEntry(entries)'
<1> DEFINE Shape ==
             /\ \A f \in entries \ entries' : f.dir \in Inside /\ ~ MountPoint(f)
             /\ \A g \in entries' \ entries : g \in Entry /\ g.dir \in Inside /\ Moved(g)
             /\ written' = written \/ \E e \in entries :
                  e.dir \in Inside /\ e.node \notin Dirs /\ Writable(e) /\ written' = written \cup {e.node}
             /\ \A e, f \in entries' : <<e.dir, e.name>> = <<f.dir, f.name>> => e = f
             /\ OneEntry(entries) => OneEntry(entries)'
<1>1. /\ pc = "running" /\ moves \in Nat /\ moves < MaxMoves /\ moves' = moves + 1
      /\ UNCHANGED <<pc, before, sources, mounts>>
  BY DEF Work, TypeOK
<1>2. ASSUME NEW e \in entries, e.dir \in Inside, Write(e) PROVE Shape
  BY <1>2 DEF Write, TypeOK, OneEntry
<1>3. ASSUME NEW e \in entries, e.dir \in Inside, Remove(e) PROVE Shape
  BY <1>3 DEF Remove, TypeOK, OneEntry
<1>4. ASSUME NEW e \in entries, e.dir \in Inside, NEW d \in Inside, NEW n \in Names, Rename(e, d, n)
      PROVE  Shape
  <2> DEFINE g == [dir |-> d, name |-> n, node |-> e.node]
             way == {f \in entries : f.dir = d /\ f.name = n}
  <2>1. e \in Entry /\ g \in Entry /\ g.node = e.node /\ g.dir = d /\ g.name = n /\ d \in Dirs
    BY DEF TypeOK, Entry, Inside
  <2>2. /\ ~ MountPoint(e) /\ entries' = (entries \ ({e} \cup way)) \cup {g} /\ written' = written
        /\ \A f \in way : ~ MountPoint(f) /\ {f.node, e.node} \cap Dirs = {}
    BY <1>4 DEF Rename
  <2>3. \A f \in way : f.dir = d /\ f \in entries
    OBVIOUS
  <2>4. \A f \in entries : f.dir = d /\ f.name = n => f \in way
    OBVIOUS
  <2> HIDE DEF g, way
  <2>5. \A f \in entries \ entries' : f.dir \in Inside /\ ~ MountPoint(f)
    BY <1>4, <2>2, <2>3
  <2>6. \A h \in entries' \ entries : h \in Entry /\ h.dir \in Inside /\ Moved(h)
    BY <1>4, <2>1, <2>2 DEF Moved
  <2>7. \A h, f \in entries' : <<h.dir, h.name>> = <<f.dir, f.name>> => h = f
    BY <2>1, <2>2, <2>4 DEF TypeOK
  <2>8. OneEntry(entries) => OneEntry(entries)'
    BY <2>1, <2>2 DEF OneEntry
  <2> QED
    BY <2>2, <2>5, <2>6, <2>7, <2>8
<1>5. ASSUME NEW e \in entries, e.dir \in Inside, NEW d \in Inside, NEW n \in Names, Link(e, d, n)
      PROVE  Shape
  <2> DEFINE g == [dir |-> d, name |-> n, node |-> e.node]
  <2>1. e \in Entry /\ g \in Entry /\ g.node = e.node /\ g.dir = d /\ g.name = n /\ d \in Dirs
    BY DEF TypeOK, Entry, Inside
  <2>2. /\ ~ MountPoint(e) /\ entries' = entries \cup {g} /\ written' = written
        /\ e.node \notin Dirs /\ Free(d, n)
    BY <1>5 DEF Link
  <2> HIDE DEF g
  <2>3. \A h \in entries' \ entries : h \in Entry /\ h.dir \in Inside /\ Moved(h)
    BY <1>5, <2>1, <2>2 DEF Moved
  <2>4. \A h, f \in entries' : <<h.dir, h.name>> = <<f.dir, f.name>> => h = f
    BY <2>1, <2>2 DEF TypeOK, Free
  <2>5. OneEntry(entries) => OneEntry(entries)'
    BY <2>1, <2>2 DEF OneEntry
  <2> QED
    BY <2>2, <2>3, <2>4, <2>5
<1>6. ASSUME NEW d \in Inside, NEW n \in Names, Create(d, n) PROVE Shape
  <2> DEFINE g == [dir |-> d, name |-> n, node |-> New]
  <2>1. g \in Entry /\ g.node = New /\ g.dir = d /\ g.name = n /\ d \in Dirs
    BY DEF Entry, Inside, Nodes
  <2>2. entries' = entries \cup {g} /\ written' = written /\ Free(d, n)
    BY <1>6 DEF Create
  <2> HIDE DEF g
  <2>3. \A h \in entries' \ entries : h \in Entry /\ h.dir \in Inside /\ Moved(h)
    BY <1>6, <2>1, <2>2 DEF Moved
  <2>4. \A h, f \in entries' : <<h.dir, h.name>> = <<f.dir, f.name>> => h = f
    BY <2>1, <2>2 DEF TypeOK, Free
  <2>5. OneEntry(entries) => OneEntry(entries)'
    BY <2>1, <2>2, MountConstants DEF OneEntry
  <2> QED
    BY <2>2, <2>3, <2>4, <2>5
<1>7. Shape
  <2> HIDE DEF Shape
  <2> QED
    BY <1>2, <1>3, <1>4, <1>5, <1>6 DEF Work
<1> QED
  BY <1>1, <1>7

(* The layout stays what it was while the code works.                      *)
LEMMA Static ==
  ASSUME UNCHANGED <<before, sources>>
  PROVE  /\ Layout' = Layout /\ Masked' = Masked /\ Protected' = Protected
         /\ StateNodes' = StateNodes /\ SourceNodes' = SourceNodes /\ Rejected' = Rejected
BY DEF Layout, Pinned, Masked, Protected, Found, StateNodes, SourceNodes, Rejected, Order, Depth,
       Under, Spine

(* The code brings nothing into the workspace and, when the state          *)
(* directory is masked, takes nothing out of it: reach only shrinks.       *)
LEMMA InsideShrinks ==
  ASSUME MountsInv, Work, Laid'
  PROVE  Inside' \subseteq Inside
<1>1. /\ entries \in SUBSET Entry /\ entries' \in SUBSET Entry /\ OneEntry(entries)
      /\ pc = "running" /\ UNCHANGED <<before, sources>>
      /\ \A f \in entries \ entries' : f.dir \in Inside
      /\ \A g \in entries' \ entries : Moved(g)
  BY WorkShape DEF MountsInv, TypeOK, Laid
<1>2. Reach /\ Reach' /\ Masked' = Masked
  BY <1>1, InsideIs, InsideIsNext, Static DEF MountsInv
<1>3. Workspace \in Dirs /\ State \in Dirs /\ New \notin Dirs
  BY MountConstants
<1>4. ASSUME NEW z \in Dirs, Workspace \in Upward(entries', z)
      PROVE  Workspace \in Upward(entries, z)
  <2> SUFFICES ASSUME Workspace \notin Upward(entries, z) PROVE FALSE
    OBVIOUS
  <2> DEFINE T == Upward(entries, z)
  <2>1. T \in SUBSET Dirs /\ z \in T
    BY UpSelf
  <2>2. ASSUME NEW g \in entries', g.node \in T PROVE g.dir \in T
    <3>1. CASE g \in entries
      BY <1>1, <2>2, <3>1, UpClosed
    <3>2. CASE g \notin entries
      <4>1. PICK e \in entries : e.node = g.node /\ e.dir \in Inside
        BY <1>1, <1>3, <2>1, <2>2, <3>2 DEF Moved
      <4>2. e.dir \in T /\ e.dir \in Dirs
        BY <1>1, <2>1, <2>2, <4>1, UpClosed
      <4>3. Workspace \in Upward(entries, e.dir)
        BY <1>2, <4>1, <4>2 DEF Reach
      <4> QED
        BY <1>1, <4>2, <4>3, UpTransitive
    <3> QED
      BY <3>1, <3>2
  <2> HIDE DEF T
  <2>3. Upward(entries', z) \subseteq T
    BY <2>1, <2>2, UpLeast
  <2> QED
    BY <1>4, <2>3 DEF T
<1>5. ASSUME NEW z \in Dirs, Masked # {}, State \in Upward(entries, z)
      PROVE  State \in Upward(entries', z)
  <2> DEFINE Below == {y \in Dirs : State \in Upward(entries, y)}
  <2>1. \A y \in Below : y \notin Inside
    BY <1>2, <1>5 DEF Reach
  <2>2. ASSUME NEW S \in SUBSET (Dirs \ {State}), z \in S
        PROVE  \E f \in entries' : f.node \in S /\ f.dir \notin S
    <3> DEFINE T == S \cap Below
    <3>1. T \in SUBSET (Dirs \ {State}) /\ z \in T
      BY <1>5, <2>2
    <3> HIDE DEF T
    <3>2. PICK f \in entries : f.node \in T /\ f.dir \notin T
      BY <1>3, <1>5, <3>1 DEF Upward
    <3>3. f.node \in Below /\ f.node \in S /\ f.node # State
      BY <3>1, <3>2 DEF T
    <3>4. f.dir \in Below
      <4>1. f.dir \in Dirs
        BY <1>1, <3>2 DEF Entry
      <4>2. State \in Upward(entries, f.dir)
        BY <1>1, <3>2, <3>3, UpParent
      <4> QED
        BY <4>1, <4>2
    <3>5. f \in entries'
      BY <1>1, <2>1, <3>2, <3>4
    <3> QED
      BY <3>2, <3>3, <3>4, <3>5 DEF T
  <2> QED
    BY <1>3, <2>2 DEF Upward
<1>6. ASSUME NEW d \in Inside' PROVE d \in Inside
  <2>1. d \in Dirs
    BY DEF Inside
  <2>2. Workspace \in Upward(entries', d) /\ (Masked = {} \/ State \notin Upward(entries', d))
    BY <1>2, <1>6, <2>1 DEF Reach
  <2> QED
    BY <1>2, <1>4, <1>5, <2>1, <2>2 DEF Reach
<1> QED
  BY <1>6

LEMMA WorkStep == ASSUME MountsInv, Work PROVE MountsInv'
<1>1. /\ TypeOK /\ before \in Layouts /\ Laid /\ Hidden /\ Shown /\ Kept
      /\ sources \subseteq {e \in before : e.node \in Registrable /\ Under(before, e, Workspace)}
  BY WorkShape DEF MountsInv
<1>2. /\ pc = "running" /\ UNCHANGED <<pc, before, sources, mounts>>
      /\ moves \in Nat /\ moves < MaxMoves /\ moves' = moves + 1
      /\ \A f \in entries \ entries' : f.dir \in Inside /\ ~ MountPoint(f)
      /\ \A g \in entries' \ entries : g \in Entry /\ g.dir \in Inside /\ Moved(g)
      /\ \A e, f \in entries' : <<e.dir, e.name>> = <<f.dir, f.name>> => e = f
      /\ OneEntry(entries)'
  BY <1>1, WorkShape DEF Laid
<1>3. /\ Layout' = Layout /\ Masked' = Masked /\ Protected' = Protected
      /\ StateNodes' = StateNodes /\ SourceNodes' = SourceNodes /\ Rejected' = Rejected
  BY <1>2, Static
<1>4. SourceNodes \cup {Script} \subseteq Files /\ StateNodes \subseteq Files
  BY <1>1, MountConstants DEF SourceNodes, StateNodes
<1>5. Laid'
  <2>1. \A m \in Layout : m.at \in entries /\ MountPoint(m.at)
    BY <1>1 DEF Laid, MountPoint
  <2>2. {m.at : m \in Layout} \subseteq entries'
    BY <1>2, <2>1
  <2> QED
    BY <1>1, <1>2, <1>3, <2>2 DEF Laid
<1>6. Inside' \subseteq Inside
  BY <1>5, InsideShrinks
<1>7. Hidden'
  BY <1>1, <1>2, <1>6 DEF Hidden
<1>8. Shown'
  <2> SUFFICES ASSUME NEW e \in entries', e.dir \in Inside'
               PROVE  /\ e.node \notin StateNodes
                      /\ e.node \in SourceNodes \cup {Script} => e \in Protected
    BY <1>3 DEF Shown
  <2>1. CASE e \in entries
    BY <1>1, <1>6, <2>1 DEF Shown
  <2>2. CASE e \notin entries /\ e.node = New
    BY <1>4, <2>2, MountConstants
  <2>3. CASE e \notin entries /\ e.node # New
    <3>1. PICK f \in entries : f.node = e.node /\ f.dir \in Inside /\ ~ MountPoint(f)
      BY <1>2, <2>3 DEF Moved
    <3>2. f \notin Protected
      BY <1>1, <3>1, Points DEF Laid
    <3> QED
      BY <1>1, <3>1, <3>2 DEF Shown
  <2> QED
    BY <2>1, <2>2, <2>3
<1>9. Kept' /\ written' \subseteq Files \cup {New}
  <2>1. {e \in before : Under(before, e, State)} \subseteq entries'
    <3> SUFFICES ASSUME NEW e \in before, Under(before, e, State) PROVE e \in entries'
      OBVIOUS
    <3>1. e \in entries /\ e.dir \in Dirs
      BY <1>1 DEF Kept, TypeOK, Entry
    <3>2. e.dir \notin Inside
      BY <1>1, <3>1 DEF Hidden, Under
    <3> QED
      BY <1>2, <3>1, <3>2
  <2>2. CASE written' = written
    BY <1>1, <1>2, <1>3, <2>1, <2>2 DEF Kept, TypeOK
  <2>3. ASSUME NEW e \in entries, e.dir \in Inside, e.node \notin Dirs, Writable(e),
               written' = written \cup {e.node}
        PROVE  Kept' /\ written' \subseteq Files \cup {New}
    <3>1. e \notin Protected
      BY <1>1, <2>3, Points DEF Laid, Writable
    <3>2. e.node \notin StateNodes \cup SourceNodes
      BY <1>1, <2>3, <3>1 DEF Shown
    <3>3. e.node \in Files \cup {New}
      BY <1>1, <2>3 DEF TypeOK, Entry, Nodes
    <3> QED
      BY <1>1, <1>2, <1>3, <2>1, <2>3, <3>2, <3>3 DEF Kept, TypeOK
  <2> QED
    BY <2>2, <2>3, WorkShape, <1>1
<1>10. TypeOK'
  <2>1. moves' \in 0 .. MaxMoves
    BY <1>2, MountConstants
  <2>2. entries' \subseteq Entry
    BY <1>1, <1>2 DEF TypeOK
  <2> QED
    BY <1>1, <1>2, <1>9, <2>1, <2>2 DEF TypeOK
<1> QED
  BY <1>1, <1>2, <1>5, <1>7, <1>8, <1>9, <1>10 DEF MountsInv

(* When the state directory is below the workspace, its entry is masked.   *)
LEMMA StateMasked ==
  ASSUME before \in Layouts, ~ Rejected, NEW d \in Dirs,
         State \in Upward(before, d), Workspace \in Upward(before, d)
  PROVE  Masked # {}
<1>1. before \in SUBSET Entry /\ OneEntry(before) /\ Workspace \in Dirs /\ State \in Dirs
  BY Trees, MountConstants
<1>2. State \notin Upward(before, Workspace)
  BY DEF Rejected
<1>3. Workspace \in Upward(before, State) /\ State # Workspace
  BY <1>1, <1>2, UpChain, UpSelf
<1>4. PICK f \in before : f.node = State
  <2> SUFFICES ASSUME \A f \in before : f.node # State PROVE FALSE
    OBVIOUS
  <2>1. Upward(before, State) \subseteq {State}
    <3>1. {State} \in SUBSET Dirs /\ \A f \in before : f.node \in {State} => f.dir \in {State}
      BY <1>1
    <3> QED
      BY <1>1, <3>1, UpLeast
  <2> QED
    BY <1>3, <2>1
<1>5. Workspace \in Upward(before, f.dir)
  BY <1>1, <1>3, <1>4, UpParent
<1> QED
  BY <1>4, <1>5 DEF Masked, Under

LEMMA LaunchStep == ASSUME MountsInv, Launch PROVE MountsInv'
<1>1. /\ TypeOK /\ before \in Layouts /\ entries = before /\ written = {}
      /\ sources \subseteq {e \in before : e.node \in Registrable /\ Under(before, e, Workspace)}
      /\ pc' = "running" /\ ~ Rejected /\ UNCHANGED <<entries, before, sources, moves, written>>
  BY DEF MountsInv, Launch
<1>2. /\ Layout' = Layout /\ Masked' = Masked /\ Protected' = Protected
      /\ StateNodes' = StateNodes /\ SourceNodes' = SourceNodes /\ Rejected' = Rejected
  BY <1>1, Static
<1>3. mounts' = Layout
  BY <1>1, AllEffective DEF Launch
<1>4. before \in SUBSET Entry /\ OneEntry(before)
  BY <1>1, Trees
<1>5. Pinned \cup Masked \cup Protected \subseteq before
  BY DEF Pinned, Masked, Protected, Found
<1>6. SourceNodes \cup {Script} \subseteq Files /\ StateNodes \subseteq Files
  BY <1>1, MountConstants DEF SourceNodes, StateNodes
<1>7. Laid'
  <2>1. \A m \in Layout : m.at \in before
    BY <1>5 DEF Layout
  <2>2. OneEntry(entries)'
    BY <1>1, <1>4 DEF OneEntry
  <2> QED
    BY <1>1, <1>2, <1>3, <2>1, <2>2 DEF Laid
<1>8. Reach'
  BY <1>7, InsideIsNext
<1>9. Hidden'
  <2> SUFFICES ASSUME NEW d \in Dirs, State \in Upward(before, d), d \in Inside' PROVE FALSE
    BY <1>1 DEF Hidden
  <2>1. Workspace \in Upward(before, d) /\ (Masked = {} \/ State \notin Upward(before, d))
    BY <1>1, <1>2, <1>8 DEF Reach
  <2> QED
    BY <1>1, <2>1, StateMasked
<1>10. Shown'
  <2> SUFFICES ASSUME NEW e \in before, e.dir \in Inside'
               PROVE  /\ e.node \notin StateNodes
                      /\ e.node \in SourceNodes \cup {Script} => e \in Protected
    BY <1>1, <1>2 DEF Shown
  <2>1. CASE e.node \in Files
    <3>1. e.dir \in Dirs
      BY <1>4 DEF Entry
    <3>2. Workspace \in Upward(before, e.dir) /\ State \notin Upward(before, e.dir)
      BY <1>1, <1>8, <1>9, <3>1 DEF Reach, Hidden
    <3>3. e \in Found
      BY <2>1, <3>2 DEF Found, Under
    <3> QED
      BY <1>1, <3>3 DEF Rejected, Protected, SourceNodes
  <2>2. CASE e.node \notin Files
    BY <1>6, <2>2
  <2> QED
    BY <2>1, <2>2
<1>11. Kept'
  BY <1>1 DEF Kept
<1>12. TypeOK'
  <2> SUFFICES mounts' \subseteq [at : before, order : Nat, kind : Kinds]
    BY <1>1 DEF TypeOK
  <2>1. Cardinality(Dirs) + 1 \in Nat
    BY MountConstants, FS_CardinalityType
  <2>2. \A e \in before : \A kind \in Kinds : Order(e, kind) \in Nat
    BY <1>1, <2>1, DepthBound DEF Order
  <2>3. ASSUME NEW m \in Layout PROVE m \in [at : before, order : Nat, kind : Kinds]
    <3>1. PICK e \in before, kind \in Kinds : m = [at |-> e, order |-> Order(e, kind), kind |-> kind]
      BY <1>5 DEF Layout, Kinds
    <3> QED
      BY <2>2, <3>1
  <2> QED
    BY <1>3, <2>3
<1> QED
  BY <1>1, <1>7, <1>9, <1>10, <1>11, <1>12 DEF MountsInv

(* Everything that is not of the code or of the launch leaves the mounts   *)
(* and the workspace alone.                                                *)
LEMMA OtherStep ==
  ASSUME MountsInv, UNCHANGED <<entries, before, sources, mounts, moves, written>>,
         pc' \in {pc, "refused"}
  PROVE  MountsInv'
<1>1. CASE pc' = "refused"
  BY <1>1 DEF MountsInv, TypeOK
<1>2. CASE UNCHANGED vars
  BY <1>2 DEF MountsInv, TypeOK, Laid, Hidden, Shown, Kept, vars, Layout, Pinned, Masked, Protected,
              Found, StateNodes, SourceNodes, Rejected, Order, Depth, Under, Spine, Inside, Mount,
              MountPoint, Is, OneEntry
<1> QED
  BY <1>1, <1>2 DEF vars

LEMMA MountsHeld == BackendSpec => []MountsInv
<1>1. BackendInit => MountsInv
  <2> SUFFICES ASSUME Init PROVE MountsInv
    BY DEF BackendInit
  <2>1. before \in Layouts /\ pc = "asked" /\ entries = before /\ written = {} /\ mounts = {}
        /\ moves = 0 /\ sources \in SUBSET {e \in before : e.node \in Registrable /\ Under(before, e, Workspace)}
    BY DEF Init
  <2>2. before \in SUBSET Entry
        /\ \A e, f \in before : <<e.dir, e.name>> = <<f.dir, f.name>> => e = f
    BY <2>1, Trees
  <2>3. 0 \in 0 .. MaxMoves
    BY MountConstants
  <2> QED
    BY <2>1, <2>2, <2>3 DEF MountsInv, TypeOK
<1>2. MountsInv /\ [BackendNext]_backendVars => MountsInv'
  <2> SUFFICES ASSUME MountsInv, [BackendNext]_backendVars PROVE MountsInv'
    OBVIOUS
  <2>1. CASE NoImage
    BY <2>1, OtherStep DEF NoImage
  <2>2. CASE RefuseMounts
    BY <2>2, OtherStep DEF RefuseMounts, Refuse
  <2>3. CASE Execute
    BY <2>3, LaunchStep DEF Execute
  <2>4. CASE WorkOnFiles
    BY <2>4, WorkStep DEF WorkOnFiles
  <2>5. CASE UNCHANGED vars
    BY <2>5, OtherStep DEF vars
  <2> QED
    BY <2>1, <2>2, <2>3, <2>4, <2>5
       DEF BackendNext, backendVars, Code, Exit, Call, Drain
<1> QED
  BY <1>1, <1>2, PTL DEF BackendSpec

-----------------------------------------------------------------------------
(* Types: every variable of execute, of its mounts and of its output.      *)
THEOREM Typing == BackendSpec => []BackendTypes
<1> DEFINE Tasks == task \in {"files", "output"}
<1>1. BackendInit => Tasks
  BY DEF BackendInit
<1>2. Tasks /\ [BackendNext]_backendVars => Tasks'
  BY DEF BackendNext, NoImage, RefuseMounts, Execute, WorkOnFiles, Code, Exit, Call, Drain, backendVars
<1>3. MountsInv /\ OutputInv /\ Tasks => BackendTypes
  BY DEF MountsInv, OutputInv, BackendTypes
<1> HIDE DEF Tasks
<1> QED
  BY <1>1, <1>2, <1>3, MountsHeld, OutputHeld, PTL DEF BackendSpec

(* FR-033: every registered source stays under its name and its            *)
(* directories, with its bytes, whatever managed code does.                *)
THEOREM SourcesStay == BackendSpec => []SourcesHeld
<1>1. MountsInv => SourcesHeld
  <2> SUFFICES ASSUME MountsInv, pc = "running", NEW e \in sources
               PROVE  Spine(before, e) \subseteq entries /\ e.node \notin written
    BY DEF SourcesHeld
  <2>1. /\ Laid /\ Kept /\ before \in Layouts /\ e \in before
        /\ e.node \in Registrable /\ Under(before, e, Workspace)
    BY DEF MountsInv
  <2>2. ~ Under(before, e, State) /\ e.node \in Files
    BY <2>1, MountConstants DEF Laid, Rejected
  <2>3. e \in Protected
    BY <2>1, <2>2 DEF Protected, Found
  <2>4. Spine(before, e) \subseteq Pinned \cup Protected
    BY <2>3 DEF Spine, Pinned
  <2>5. \A f \in Pinned \cup Protected : f \in entries
    BY <2>1, Points DEF Laid, MountPoint
  <2>6. e.node \notin written
    BY <2>1 DEF Kept, SourceNodes
  <2> QED
    BY <2>4, <2>5, <2>6
<1> QED
  BY <1>1, MountsHeld, PTL

(* The state directory is out of reach and stays whole and in its place;   *)
(* none of its files is in reach by another name.                          *)
THEOREM StateStays == BackendSpec => []StateHeld
<1>1. MountsInv => StateHeld
  <2> SUFFICES ASSUME MountsInv, pc = "running" PROVE StateHeld
    BY DEF StateHeld
  <2>1. Laid /\ Hidden /\ Shown /\ Kept /\ State \in Dirs
    BY MountConstants DEF MountsInv
  <2>2. State \notin Inside
    BY <2>1, UpSelf DEF Hidden
  <2>3. \A e \in Masked : Spine(before, e) \subseteq Pinned \cup Masked
    BY DEF Spine, Pinned
  <2>4. \A f \in Pinned \cup Masked : f \in entries
    BY <2>1, Points DEF Laid, MountPoint
  <2> QED
    BY <2>1, <2>2, <2>3, <2>4 DEF StateHeld, Shown, Kept
<1> QED
  BY <1>1, MountsHeld, PTL

(* What is in reach and is no source may be written: the mounts take       *)
(* nothing else away.                                                      *)
THEOREM SiblingsStay == BackendSpec => []SiblingsWritable
<1>1. MountsInv => SiblingsWritable
  <2> SUFFICES ASSUME MountsInv, pc = "running", NEW e \in entries, e.dir \in Inside,
                      e.node \notin SourceNodes
               PROVE  Writable(e)
    BY DEF SiblingsWritable, SourceNodes
  <2>1. Laid /\ Shown /\ before \in Layouts /\ mounts = Layout
    BY DEF MountsInv, Laid
  <2>2. Script \in StateNodes
    BY <2>1, LayoutTrees, MountConstants DEF StateNodes
  <2>3. e \notin Protected
    BY <2>1, <2>2 DEF Shown, Protected, SourceNodes
  <2>4. ASSUME NEW f \in Mount(e.dir), Is(f, "readonly") PROVE FALSE
    <3>1. f.node \in Files
      BY <2>1, <2>4, Points DEF Protected, Found
    <3>2. f.node \in Dirs
      BY UpSelf DEF Mount, Inside
    <3> QED
      BY <3>1, <3>2, MountConstants
  <2> QED
    BY <2>1, <2>3, <2>4, Points DEF Writable, ReadOnly
<1> QED
  BY <1>1, MountsHeld, PTL
=============================================================================
