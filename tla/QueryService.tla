---------------------------- MODULE QueryService ----------------------------
(***************************************************************************)
(* What a query runs and what it shows: the statement SqlReferences makes  *)
(* of its text, and the preview Previews takes of its result.  Both depend *)
(* on nothing that changes while the query runs.                           *)
(***************************************************************************)
EXTENDS Queries, SqlReferences, Previews

(* The statement a query runs is the one that was checked, whichever of    *)
(* these texts the client sent.                                            *)
QueriesAsChecked == \A q \in Queries : pc[q] \in Statements => ExecutedAsChecked

(* The preview a query returns keeps to its budget and tells what it cuts, *)
(* whichever of these results it has; so did the sample of the source.     *)
PreviewsFit ==
  \A q \in Queries : pc[q] \in {"previewed", "recording"} => PreviewFits /\ SampleFits
=============================================================================
