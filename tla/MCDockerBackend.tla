-------------------------- MODULE MCDockerBackend ---------------------------
(***************************************************************************)
(* Workspaces with two directories, one inside the other or beside it; a   *)
(* file, perhaps with a hard link; another file; and a state directory     *)
(* outside of the workspace, in it, or around it, whose file may have a    *)
(* hard link outside.  Code that prints does so in one plain layout.       *)
(***************************************************************************)
EXTENDS DockerBackend

CONSTANTS ws, d1, d2, st, src, other, script, a, b, internal

At(d, n, x) == [dir |-> d, name |-> n, node |-> x]
Free2(L) == \A e, f \in L : e # f => <<e.dir, e.name>> # <<f.dir, f.name>>

Base == {At(ws, a, d1), At(st, a, script), At(d2, internal, other)}

MCLayouts ==
  {L \in
    { Base \cup {At(d1, a, d2)} \cup state \cup file \cup link :
        state \in {{}, {At(st, b, ws)}, {At(ws, b, st)}, {At(d1, b, st)}, {At(d2, a, st)}},
        file \in {{At(d, b, src)} : d \in {ws, d1, d2}},
        link \in {{}, {At(ws, internal, src)}, {At(d1, internal, src)}, {At(ws, b, script)}} }
    \cup
    { Base \cup {At(ws, internal, d2)} \cup state \cup file :
        state \in {{At(ws, b, st)}, {At(d2, a, st)}},
        file \in {{At(d, b, src)} : d \in {d1, d2}} } :
   Free2(L)}

PlainLayouts == {L \in MCLayouts : L = Base \cup {At(d1, a, d2)} \cup {At(d2, b, src)}}
=============================================================================
