--------------------------- MODULE DockerBackend ----------------------------
(***************************************************************************)
(* DockerBackend.execute: the image is looked for, the mounts are laid     *)
(* out, the client is started, and the code in the container works on      *)
(* files (ContainerMounts) or prints (ContainerOutput).  The two share     *)
(* nothing, so the code of a behaviour does one of them.                   *)
(***************************************************************************)
EXTENDS ContainerMounts, ContainerOutput

CONSTANT Plain     \* layouts for code that prints

VARIABLE task      \* "files" or "output"

backendVars == <<vars, outputVars, task>>

BackendTypes == TypeOK /\ OutputTypes /\ task \in {"files", "output"}

BackendInit ==
  /\ Init /\ OutputInit
  /\ task \in {"files", "output"}
  /\ task = "output" => before \in Plain /\ sources = {}

(* docker image inspect finds no image. *)
NoImage ==
  /\ pc = "asked" /\ pc' = "refused"
  /\ UNCHANGED <<entries, before, sources, mounts, moves, written, outputVars, task>>

RefuseMounts == Refuse /\ UNCHANGED <<outputVars, task>>

Execute ==
  /\ Launch
  /\ IF task = "output" THEN Start ELSE UNCHANGED outputVars
  /\ UNCHANGED task

WorkOnFiles == task = "files" /\ Work /\ UNCHANGED <<outputVars, task>>

Code ==
  /\ \/ \E s \in Streams : PrintOut(s)
     \/ \E how \in Ends : CodeEnds(how)
  /\ UNCHANGED <<vars, task>>

Exit == ClientEnds /\ UNCHANGED <<vars, task>>
Drain(s) == Read(s) /\ UNCHANGED <<vars, task>>
Call == CallSteps /\ UNCHANGED <<vars, task>>

BackendNext ==
  \/ NoImage \/ RefuseMounts \/ Execute \/ WorkOnFiles
  \/ Code \/ Exit \/ Call
  \/ \E s \in Streams : Drain(s)

BackendSpec == BackendInit /\ [][BackendNext]_backendVars

(* The threads of the server go on, time passes for what they wait for,    *)
(* and a docker client ends once its container has.                        *)
FairSpec ==
  /\ BackendSpec
  /\ WF_backendVars(Exit) /\ WF_backendVars(Call)
  /\ \A s \in Streams : WF_backendVars(Drain(s))
=============================================================================
