---------------------------- MODULE MCValidation ----------------------------
(***************************************************************************)
(* An instance of validation: versions of two source files, the first with *)
(* a duplicate row and too many missing values, the others with the same   *)
(* content of just few enough; the claims of an analysis, one of them      *)
(* causal, with good and faulty figures, in evidence that is material and  *)
(* in evidence that is not.                                                *)
(***************************************************************************)
EXTENDS Validation, TLC

ContentOf == [v \in Versions |-> IF v = 1 THEN 1 ELSE 2]

FormsOf ==
  [x \in Claims |->
     IF x \in Causal THEN {[figure |-> "none", material |-> FALSE]}
     ELSE {[figure |-> "good", material |-> FALSE]}
          \cup [figure : {"good", "mismatch", "bad"}, material : {TRUE}]]

RowsOf == [x \in Contents |-> IF x = 1 THEN 12 ELSE 11]
DistinctOf == [x \in Contents |-> 11]
GapsOf == [x \in Contents |-> IF x = 1 THEN 2 ELSE 1]

TwoSelections == {CheckNames, {"causal_language"}}

(* States the view merges: a run that has found a warning or something     *)
(* blocking, or makes only some of the checks, cannot validate completely  *)
(* any more, and no property and no other action but those of the run      *)
(* tells such runs apart; of one that is inconclusive only its place       *)
(* matters; no action reads the verdict, and no property one that is not   *)
(* validated and complete; times are compared between records of a path;   *)
(* and the sources an item names are among those it used.                  *)
Lost == run # NoRun /\ (run.checks # CheckNames \/ run.found \cap {"blocking", "warning"} # {})
Running ==
  IF Lost THEN <<>>
  ELSE IF run # NoRun /\ run.found # {} THEN <<run.step, run.todo, run.counted>>
  ELSE run
Judged == IF Validated /\ Complete THEN verdict ELSE NoRun
Recorded == [s \in Known |-> [sources[s] EXCEPT !.at = 0]]
Dated ==
  IF Len(sources) < MaxSources THEN [s \in Known |-> sources[s].at]
  ELSE {pair \in Known \X Known : /\ sources[pair[1]].path = sources[pair[2]].path
                                  /\ sources[pair[1]].at < sources[pair[2]].at}
Used == [x \in Registered |-> [used |-> items[x].used, form |-> items[x].form]]
View == <<files, newest, restored, inspected, Recorded, Dated, Used, Running, Judged>>

Alike == Permutations(Paths)
=============================================================================
