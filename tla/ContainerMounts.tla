-------------------------- MODULE ContainerMounts --------------------------
(***************************************************************************)
(* What managed code can do to the workspace through the bind mounts that  *)
(* DockerBackend._mount_args of execution_backends/docker.py asks for.     *)
(*                                                                         *)
(* A workspace is a set of entries: a name in a directory for a file or a  *)
(* directory.  A file may have several entries, as hard links do; symbolic *)
(* links are not followed by the code and are left out.  The server lays   *)
(* out the mounts once; then the code renames, links, removes, creates and *)
(* writes whatever the kernel lets it.                                     *)
(***************************************************************************)
EXTENDS Naturals, FiniteSets

CONSTANTS
  Dirs, Workspace, State,   \* the workspace and the state directory are directories
  Files, Registrable,       \* the files, and those of them that may be sources
  Script,                     \* a file of the server, in the state directory
  New,                      \* a file the code creates
  Names, Internal,          \* Internal stands for ".agentic-analytics"
  Layouts,                  \* the sets of entries the server may find
  MaxMoves                  \* bound: the code's steps

Nodes == Dirs \cup Files \cup {New}
Entry == [dir : Dirs, name : Names, node : Nodes]

ASSUME MountConstants ==
  /\ MaxMoves \in Nat
  /\ IsFiniteSet(Dirs) /\ Dirs \cap Files = {} /\ New \notin Dirs \cup Files
  /\ {Workspace, State} \subseteq Dirs /\ Registrable \cup {Script} \subseteq Files
  /\ \A L \in Layouts :
       /\ L \subseteq Entry /\ \A e \in L : e.node # New
       /\ \A e, f \in L : e # f => <<e.dir, e.name>> # <<f.dir, f.name>>
       /\ \A e, f \in L : e # f /\ e.node = f.node => e.node \notin Dirs

VARIABLES
  pc,        \* "asked", "running" or "refused"
  entries,   \* the entries there are
  before,    \* those there were when the server laid out the mounts
  sources,   \* entries of the registered sources, read_only all of them
  mounts,    \* mount points, [at : Entry, order : Nat, kind : Kinds]
  moves,     \* steps the code has taken
  written    \* files whose bytes the code changed

vars == <<pc, entries, before, sources, mounts, moves, written>>

Kinds == {"pin", "mask", "readonly"}

(* A directory and those above it in a set of entries: every set with the  *)
(* one and without the other has an entry whose directory is not in it.    *)
Upward(L, d) ==
  {x \in Dirs : \A S \in SUBSET (Dirs \ {x}) :
                 d \in S => \E f \in L : f.node \in S /\ f.dir \notin S}

Under(L, e, d) == d \in Upward(L, e.dir)

(* Directories form trees, and execute_python keeps the script in the      *)
(* state directory.                                                        *)
ASSUME LayoutTrees ==
  \A L \in Layouts :
    /\ \A e \in L : e.node \in Dirs => ~ Under(L, e, e.node)
    /\ \E e \in L : e.node = Script /\ Under(L, e, State)

(* Entries on the way from the workspace to one of its entries. *)
Spine(L, e) == {e} \cup {f \in L : f.node \in Upward(L, e.dir) \ {Workspace} /\ Under(L, f, Workspace)}

TypeOK ==
  /\ pc \in {"asked", "running", "refused"}
  /\ entries \subseteq Entry
  /\ \A e, f \in entries : <<e.dir, e.name>> = <<f.dir, f.name>> => e = f
  /\ before \subseteq Entry /\ sources \subseteq before
  /\ mounts \subseteq [at : before, order : Nat, kind : Kinds]
  /\ moves \in 0 .. MaxMoves /\ written \subseteq Files \cup {New}

Init ==
  /\ pc = "asked"
  /\ before \in Layouts /\ entries = before
  /\ sources \in SUBSET {e \in before : e.node \in Registrable /\ Under(before, e, Workspace)}
  /\ mounts = {} /\ moves = 0 /\ written = {}

-----------------------------------------------------------------------------
StateNodes == {e.node : e \in {f \in before : f.node \in Files /\ Under(before, f, State)}}

(* The files found in the workspace, its state directory excepted. *)
Found ==
  {e \in before : e.node \in Files /\ Under(before, e, Workspace) /\ ~ Under(before, e, State)}

(* Faulty variants put in place of the definitions below by mutation runs. *)

(* Only the directory of a protected file is pinned. *)
PinnedParents ==
  {f \in before : f.node # Workspace /\ f.node \in {e.dir : e \in sources}}

(* Hard links into the state directory are not rejected. *)
RejectedBySource ==
  \/ State \in Upward(before, Workspace)
  \/ \E e \in sources : Under(before, e, State) \/ e.node = Script

-----------------------------------------------------------------------------
(* The files mounted read-only: sources, and every entry of their inodes.  *)
Protected == {e \in Found : e.node \in {s.node : s \in sources} \cup {Script}}

(* The entry of the state directory, when it is in the workspace. *)
Masked == {e \in before : e.node = State /\ Under(before, e, Workspace)}

(* Every directory between the workspace and what is protected. *)
Pinned ==
  {f \in before : f.node # Workspace /\ Under(before, f, Workspace)
                  /\ \E e \in Protected \cup Masked : f.node \in Upward(before, e.dir)}

Rejected ==
  \/ State \in Upward(before, Workspace)
  \/ \E e \in sources :
       \/ Under(before, e, State) \/ e.node = Script
       \/ \E f \in Spine(before, e) : f.dir = Workspace /\ f.name = Internal
  \/ \E e \in Found : e.node \in StateNodes

(* Directories first, the outer before the inner ones; the leaves last. *)
Depth(e) == Cardinality(Upward(before, e.dir))

Order(e, kind) == IF kind = "pin" THEN Depth(e) ELSE Cardinality(Dirs) + 1

(* A faulty variant of Layout: the pinned directories are read-only too. *)
LayoutReadonly ==
  {[at |-> e, order |-> Order(e, "readonly"), kind |-> "readonly"] : e \in Pinned \cup Protected}
    \cup {[at |-> e, order |-> Order(e, "mask"), kind |-> "mask"] : e \in Masked}

Layout ==
  {[at |-> e, order |-> Order(e, "pin"), kind |-> "pin"] : e \in Pinned}
    \cup {[at |-> e, order |-> Order(e, "mask"), kind |-> "mask"] : e \in Masked}
    \cup {[at |-> e, order |-> Order(e, "readonly"), kind |-> "readonly"] : e \in Protected}

(* What the kernel mounts on a directory hides the mounts made below it    *)
(* before: only the rest take effect.                                      *)
Effective(asked) ==
  {m \in asked :
     ~ \E n \in asked : n.order > m.order /\ n.at.node \in Upward(before, m.at.dir)}

Refuse ==
  /\ pc = "asked" /\ Rejected
  /\ pc' = "refused"
  /\ UNCHANGED <<entries, before, sources, mounts, moves, written>>

Launch ==
  /\ pc = "asked" /\ ~ Rejected
  /\ pc' = "running"
  /\ mounts' = Effective(Layout)
  /\ UNCHANGED <<entries, before, sources, moves, written>>

-----------------------------------------------------------------------------
(* The kernel. *)
MountPoint(e) == \E m \in mounts : m.at = e
Is(e, kind) == \E m \in mounts : m.at = e /\ m.kind = kind

(* The mount points above a directory tell which mount it is in, and       *)
(* whether that is read-only; what is masked is not reached.               *)
Mount(d) == LET up == Upward(entries, d) IN {e \in entries : e.node \in up /\ MountPoint(e)}
ReadOnly(d) == \E e \in Mount(d) : Is(e, "readonly")
Inside ==
  {d \in Dirs : Workspace \in Upward(entries, d) /\ ~ \E e \in Mount(d) : Is(e, "mask")}

Free(d, n) == ~ \E e \in entries : e.dir = d /\ e.name = n

Writable(e) == ~ Is(e, "readonly") /\ ~ ReadOnly(e.dir)

Write(e) ==
  /\ e.node \notin Dirs /\ Writable(e)
  /\ written' = written \cup {e.node}
  /\ UNCHANGED entries

Create(d, n) ==
  /\ Free(d, n) /\ ~ ReadOnly(d) /\ \A e \in entries : e.node # New
  /\ entries' = entries \cup {[dir |-> d, name |-> n, node |-> New]}
  /\ UNCHANGED written

Remove(e) ==
  /\ ~ MountPoint(e) /\ ~ ReadOnly(e.dir)
  /\ \A f \in entries : f.dir # e.node
  /\ entries' = entries \ {e}
  /\ UNCHANGED written

(* Within one mount only; a file in the way is replaced. *)
Rename(e, d, n) ==
  LET way == {f \in entries : f.dir = d /\ f.name = n} IN
  /\ ~ MountPoint(e) /\ Mount(e.dir) = Mount(d) /\ ~ ReadOnly(d)
  /\ e.node \notin Upward(entries, d)
  /\ \A f \in way : f # e /\ ~ MountPoint(f) /\ {f.node, e.node} \cap Dirs = {}
  /\ entries' = (entries \ ({e} \cup way)) \cup {[dir |-> d, name |-> n, node |-> e.node]}
  /\ UNCHANGED written

Link(e, d, n) ==
  /\ e.node \notin Dirs /\ ~ MountPoint(e) /\ Mount(e.dir) = Mount(d) /\ ~ ReadOnly(d)
  /\ Free(d, n)
  /\ entries' = entries \cup {[dir |-> d, name |-> n, node |-> e.node]}
  /\ UNCHANGED written

(* A step of the managed code. *)
Work ==
  /\ pc = "running" /\ moves < MaxMoves
  /\ moves' = moves + 1
  /\ LET inside == Inside IN
     \/ \E e \in {f \in entries : f.dir \in inside} :
          \/ Write(e) \/ Remove(e)
          \/ \E d \in inside, n \in Names : Rename(e, d, n) \/ Link(e, d, n)
     \/ \E d \in inside, n \in Names : Create(d, n)
  /\ UNCHANGED <<pc, before, sources, mounts>>

Next == Refuse \/ Launch \/ Work

Spec == Init /\ [][Next]_vars

-----------------------------------------------------------------------------
(* FR-033: whatever the code moves, links or writes, each registered       *)
(* source is where it was registered, under every directory on the way,    *)
(* with the bytes it had.                                                  *)
SourcesHeld ==
  pc = "running" => \A e \in sources : Spine(before, e) \subseteq entries /\ e.node \notin written

(* The comments on hard links and on ancestors in _mount_args: the state   *)
(* directory is out of sight of the code, in its place, and its files have *)
(* the bytes they had, whichever name the code may know them by.           *)
StateHeld ==
  pc = "running" =>
    /\ LET inside == Inside
           nodes == StateNodes IN
       /\ State \notin inside /\ \A e \in entries : e.dir \in inside => e.node \notin nodes
       /\ nodes \cap written = {}
    /\ {e \in before : Under(before, e, State)} \subseteq entries
    /\ \A e \in Masked : Spine(before, e) \subseteq entries

(* The comment on pinned ancestors, "Sibling files remain writable": the   *)
(* mounts take nothing else away from the code.                            *)
SiblingsWritable ==
  pc = "running" =>
    LET inside == Inside IN
    \A e \in entries :
      e.dir \in inside /\ e.node \notin Dirs \cup {s.node : s \in sources} => Writable(e)
=============================================================================
