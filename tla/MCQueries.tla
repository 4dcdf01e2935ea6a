----------------------------- MODULE MCQueries ------------------------------
(***************************************************************************)
(* A query over one source, while other calls of the session take from the *)
(* artifact budget.  With it, the texts it may have: a reference to a      *)
(* source, with one fragment before and two after it, or two before and    *)
(* one after, and one on each side when it begins with WITH.  And the      *)
(* results it may have a preview of: up to three columns and three rows of *)
(* cells around the budgets.                                               *)
(***************************************************************************)
EXTENDS QueryService, TLC

CONSTANTS s1, s2

MCViewNames == [id \in {s1, s2} |-> IF id = s1 THEN "v1" ELSE "v2"]

Reference == <<"source", "(", "'", s1, "'", ")">>

Fragments ==
  { <<>>, <<"source">>, <<"(", "$", "$", s1, "$", "$", ")">>, <<"(", "e", "'", s1, "'", ")">>,
    <<"\"", "source", "\"", "(", "\"", s2, "\"", ")">>,
    <<"'">>, <<"\"">>, <<"-", "-">>, <<"newline">>, <<"/", "*">>, <<"*", "/">>, <<"$">>, <<"x">>,
    <<"e", "'">>, <<"\\">>, <<";">>, <<" ">>, <<"read_csv">>, <<",">>, <<"pg_catalog">> }

Pairs == {f \o g : f \in Fragments, g \in Fragments}

MCTexts ==
  {<<"select", " ">> \o f \o Reference \o g : f \in Fragments, g \in Pairs}
    \cup {<<"select", " ">> \o f \o Reference \o g : f \in Pairs, g \in Fragments}
    \cup {<<"with", " ">> \o f \o Reference \o g : f, g \in Fragments}

MCCell(kind, sizes, weights) == [kind : {kind}, chars : sizes, per : weights]

MCCells ==
  MCCell("text", {0, 1, 3, 6}, {1, 6}) \cup MCCell("blob", {0, 2, 4}, {1})
    \cup MCCell("number", {1, 3}, {1}) \cup MCCell("string", {4}, {1})

(* Fewer kinds of cells in results of more than one row or two columns.    *)
ResultsOf(m, n, cells) == [columns : {n}, rows : [1 .. m -> [1 .. n -> cells]]]

MCResults ==
  ResultsOf(0, 1, MCCells) \cup ResultsOf(0, 4, MCCells)
    \cup ResultsOf(1, 1, MCCells) \cup ResultsOf(2, 1, MCCells) \cup ResultsOf(3, 1, MCCells)
    \cup ResultsOf(1, 2, MCCells) \cup ResultsOf(2, 2, {c \in MCCells : c.chars \in {0, 3}})
    \cup ResultsOf(1, 3, {c \in MCCells : c.chars # 1})
    \cup ResultsOf(1, 4, {c \in MCCells : c.chars = 3})
=============================================================================
