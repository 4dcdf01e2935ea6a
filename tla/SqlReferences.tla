--------------------------- MODULE SqlReferences ----------------------------
(***************************************************************************)
(* The text of a query: tokenize_sql of services/sql_tokens.py, and what   *)
(* services/query.py does with its tokens.  It accepts or rejects a text,  *)
(* puts the name of a view in place of each source('src_...') and wraps    *)
(* the result in the statement it executes.                                *)
(*                                                                         *)
(* A text is a sequence of symbols.  A symbol is one character, except     *)
(* that a word, the identifier of a source or of a view is one symbol; as  *)
(* the letters of one identifier, words next to each other are one token.  *)
(***************************************************************************)
EXTENDS Naturals, Sequences, FiniteSetsExt

CONSTANTS
  SourceIds,       \* symbols that match _SOURCE_ID
  ViewNames,       \* the symbol of the view made for each of them
  Texts            \* the texts a client sends

Blanks == {" ", "newline"}
DoubleQuote == "\""
Forbidden == {<<"read_csv">>, <<"pg_catalog">>}
CatalogRelations == {<<"pg_catalog">>}
Words == {"select", "with", "from", "source", "read_csv", "pg_catalog", "x", "e"}
           \cup SourceIds \cup {ViewNames[id] : id \in SourceIds}

(* Identifiers are words of their own.                                     *)
ASSUME TextConstants ==
  /\ SourceIds \cap {"source"} = {}
  /\ Words \cap {" ", "newline", "$", "-", "/", "*", "'", DoubleQuote, "(", ")", ";"} = {}
  /\ \A t \in Texts : t \in Seq({t[i] : i \in DOMAIN t})

Found(t, i, s) == i + Len(s) - 1 <= Len(t) /\ \A k \in DOMAIN s : t[i + k - 1] = s[k]

(* The first place in S, or 0. *)
First(S) == IF S = {} THEN 0 ELSE Min(S)

-----------------------------------------------------------------------------
(* Where what starts at i ends: the index after it, or 0 when it does not. *)
LineEnd(t, i) ==
  LET breaks == {j \in i + 2 .. Len(t) : t[j] = "newline"} IN
  IF breaks = {} THEN Len(t) + 1 ELSE Min(breaks) + 1

(* Comments nest. *)
CommentEnd(t, i) ==
  LET end[j \in 1 .. Len(t) + 1] ==
        [depth \in Nat |->
           IF depth = 0 THEN j
           ELSE IF j > Len(t) THEN 0
           ELSE IF Found(t, j, <<"/", "*">>) THEN end[j + 2][depth + 1]
           ELSE IF Found(t, j, <<"*", "/">>) THEN end[j + 2][depth - 1]
           ELSE end[j + 1][depth]]
  IN end[i + 2][1]

(* A quote is doubled to stand for itself; a backslash escapes after e.    *)
QuotedEnd(t, i, escapes) ==
  LET end[j \in 1 .. Len(t) + 2] ==
        IF j > Len(t) THEN 0
        ELSE IF t[j] \in escapes THEN end[j + 2]
        ELSE IF t[j] # t[i] THEN end[j + 1]
        ELSE IF Found(t, j, <<t[i], t[i]>>) THEN end[j + 2]
        ELSE j + 1
  IN end[i + 1]

WordEnd(t, i) == First({j \in i + 1 .. Len(t) + 1 : j > Len(t) \/ t[j] \notin Words \cup {"$"}})

(* $$ or $tag$, the index after it. *)
MarkerEnd(t, i) ==
  LET j == First({k \in i + 1 .. Len(t) : t[k] = "$"}) IN
  IF t[i] = "$" /\ j > 0 /\ \A k \in i + 1 .. j - 1 : t[k] \in Words THEN j + 1 ELSE 0

DollarEnd(t, i) ==
  LET marker == SubSeq(t, i, MarkerEnd(t, i) - 1)
      j == First({k \in MarkerEnd(t, i) .. Len(t) : Found(t, k, marker)})
  IN IF j = 0 THEN 0 ELSE j + Len(marker)

(* A token from i to j, whose value is between the delimiters of a string. *)
Token(i, j, kind, value) ==
  [kind |-> IF j = 0 THEN "unterminated" ELSE kind, start |-> i, end |-> j, value |-> value]

Quoted(t, i, q, kind) ==
  LET j == QuotedEnd(t, q, IF q > i THEN {"\\"} ELSE {}) IN Token(i, j, kind, SubSeq(t, q + 1, j - 2))

Dollar(t, i) ==
  LET m == MarkerEnd(t, i) j == DollarEnd(t, i) IN
  Token(i, j, "string", SubSeq(t, m, j - (m - i) - 1))

Plain(t, i, j, kind) == Token(i, j, kind, SubSeq(t, i, j - 1))

(* The token or comment at i. *)
Scan(t, i) ==
  CASE t[i] \in Blanks -> Plain(t, i, i + 1, "blank")
    [] Found(t, i, <<"-", "-">>) -> Plain(t, i, LineEnd(t, i), "comment")
    [] Found(t, i, <<"/", "*">>) -> Plain(t, i, CommentEnd(t, i), "comment")
    [] MarkerEnd(t, i) > 0 -> Dollar(t, i)
    [] Found(t, i, <<"e", "'">>) -> Quoted(t, i, i + 1, "string")
    [] t[i] = "'" -> Quoted(t, i, i, "string")
    [] t[i] = DoubleQuote -> Quoted(t, i, i, "quoted_identifier")
    [] t[i] \in Words /\ ~ Found(t, i, <<"e", "'">>) -> Plain(t, i, WordEnd(t, i), "identifier")
    [] OTHER -> Plain(t, i, i + 1, "symbol")

(* The tokens from i on; an unterminated one, which is an error, ends them. *)
TokensFrom(t, i) ==
  LET from[j \in 1 .. Len(t) + 1] ==
        IF j > Len(t) THEN <<>>
        ELSE LET token == Scan(t, j) IN
             IF token.kind = "unterminated" THEN <<token>>
             ELSE IF token.kind \in {"blank", "comment"} THEN from[token.end]
             ELSE <<token>> \o from[token.end]
  IN from[i]

(* tokenize_sql *)
Tokens(t) == TokensFrom(t, 1)

-----------------------------------------------------------------------------
(* strip: the text without the blanks around it. *)
Strip(t) ==
  LET kept == {i \in DOMAIN t : t[i] \notin Blanks} IN
  IF kept = {} THEN <<>> ELSE SubSeq(t, Min(kept), Max(kept))

IsSymbol(token, s) == token.kind = "symbol" /\ token.value = <<s>>

(* A terminating semicolon is dropped, and the comments after it. *)
Semicolon(tokens) == tokens # <<>> /\ IsSymbol(tokens[Len(tokens)], ";")

WithoutSemicolon(t, tokens) ==
  IF Semicolon(tokens) THEN Strip(SubSeq(t, 1, tokens[Len(tokens)].start - 1)) ELSE t

Normalized(t) == WithoutSemicolon(Strip(t), Tokens(Strip(t)))

(* The tokens that are checked: those of the text as it comes. *)
Checked(t) ==
  LET tokens == Tokens(Strip(t)) IN
  IF Semicolon(tokens) THEN SubSeq(tokens, 1, Len(tokens) - 1) ELSE tokens

Executable(tokens, i) ==
  LET following == IF i < Len(tokens) THEN tokens[i + 1].value ELSE <<>>
      preceding == IF i > 1 THEN tokens[i - 1].value ELSE <<>>
  IN \/ tokens[i].kind = "identifier"
     \/ /\ tokens[i].kind = "quoted_identifier"
        /\ \/ following = <<"(">>
           \/ /\ tokens[i].value \in CatalogRelations
              /\ following = <<".">> \/ preceding \in {<<"from">>, <<",">>, <<".">>}

(* Places of the references in a sequence of tokens. *)
References(tokens) ==
  {i \in 1 .. Len(tokens) - 3 :
     /\ tokens[i].kind \in {"identifier", "quoted_identifier"} /\ tokens[i].value = <<"source">>
     /\ tokens[i + 1].value = <<"(">> /\ tokens[i + 3].value = <<")">>
     /\ tokens[i + 2].kind \in {"string", "quoted_identifier"}
     /\ tokens[i + 2].value \in {<<id>> : id \in SourceIds}}

(* What _validate_sql asks of the tokens. *)
Analytical(tokens) ==
  /\ tokens # <<>> /\ tokens[1].kind = "identifier"
  /\ tokens[1].value \in {<<"select">>, <<"with">>}
  /\ \A i \in DOMAIN tokens :
       ~ IsSymbol(tokens[i], ";") /\ (Executable(tokens, i) => tokens[i].value \notin Forbidden)

Terminated(tokens) == \A i \in DOMAIN tokens : tokens[i].kind # "unterminated"

(* execute takes the references from the normalized text, tokenized again. *)
Accepted(t) ==
  /\ Terminated(Tokens(Strip(t))) /\ Analytical(Checked(t))
  /\ References(Tokens(Normalized(t))) # {}

View(id) == <<DoubleQuote, ViewNames[id], DoubleQuote>>

Replaced(t, tokens, i) ==
  SubSeq(t, 1, tokens[i].start - 1) \o View(tokens[i + 2].value[1])
    \o SubSeq(t, tokens[i + 3].end, Len(t))

(* A faulty variant of Rewritten: the first reference is replaced first,   *)
(* and the offsets of the others are no longer true.                       *)
RewrittenForward(t) ==
  LET tokens == Tokens(t)
      after[i \in 0 .. Len(tokens)] ==
        IF i = 0 THEN t
        ELSE IF i \in References(tokens) THEN Replaced(after[i - 1], tokens, i)
        ELSE after[i - 1]
  IN after[Len(tokens)]

(* The references replaced, the last one first, down to the one at token i. *)
RewrittenFrom(t, i) ==
  LET tokens == Tokens(t)
      after[j \in 1 .. Len(tokens) + 1] ==
        IF j > Len(tokens) THEN t
        ELSE IF j \in References(tokens) THEN Replaced(after[j + 1], tokens, j)
        ELSE after[j + 1]
  IN after[i]

Rewritten(t) == RewrittenFrom(t, 1)

Wrapped(t) == <<"select", "*", "from", "(">> \o t \o <<")", "x">>

-----------------------------------------------------------------------------
Bare(tokens) == [i \in DOMAIN tokens |-> [kind |-> tokens[i].kind, value |-> tokens[i].value]]

(* What the tokens of the rewritten text should be, from i on. *)
SubstitutedFrom(tokens, i) ==
  LET from[j \in 1 .. Len(tokens) + 1] ==
        IF j > Len(tokens) THEN <<>>
        ELSE IF j \in References(tokens)
        THEN <<[kind |-> "quoted_identifier", value |-> <<ViewNames[tokens[j + 2].value[1]]>>]>>
               \o from[j + 4]
        ELSE <<[kind |-> tokens[j].kind, value |-> tokens[j].value]>> \o from[j + 1]
  IN from[i]

Substituted(tokens) == SubstitutedFrom(tokens, 1)

(* A comment runs to the end of the text: what comes next is in it. *)
OpenComment(t) == Len(Tokens(t \o <<")">>)) = Len(Tokens(t))

(* A quoted identifier next to a view's name, with nothing in between, is  *)
(* one token with it.                                                      *)
Touching(t) ==
  LET tokens == Tokens(t)
      refs == References(tokens)
      ends == {tokens[i + 3].end : i \in refs}
      starts == {tokens[i].start : i \in refs}
  IN \/ ends \cap starts # {}
     \/ \E j \in ends : j <= Len(t) /\ t[j] = DoubleQuote
     \/ \E j \in starts : j > 1 /\ t[j - 1] = DoubleQuote

(* What was checked is what is executed: the tokens of the statement are   *)
(* those _validate_sql accepted, with a view's name for each reference and *)
(* nothing changed in strings and comments, inside the wrapping select.    *)
(* Two kinds of text are excepted, which the code accepts and spoils: one  *)
(* that ends in a line comment, and one with a quoted identifier right     *)
(* next to a reference.                                                    *)
ExecutedAsChecked ==
  \A t \in Texts :
    Accepted(t) =>
      LET n == Normalized(t) IN
      \/ OpenComment(n) \/ Touching(n)
      \/ Bare(Tokens(Wrapped(Rewritten(n))))
           = Bare(Tokens(<<"select", "*", "from", "(">>)) \o Substituted(Checked(t))
               \o Bare(Tokens(<<")", "x">>))
=============================================================================
