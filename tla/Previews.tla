------------------------------ MODULE Previews ------------------------------
(***************************************************************************)
(* The preview of a query's result: the cells that services/preview.py and *)
(* _preview_projection of services/query.py cut in SQL, and the rows that  *)
(* _fetch_preview_bounded takes under a budget of JSON bytes.  And the     *)
(* sample of a source, which _sample of services/inspector.py takes under  *)
(* the same budget, names of columns included.                             *)
(*                                                                         *)
(* A cell is what it takes: its characters, the JSON bytes of each, and    *)
(* how it comes, as text, as bytes or as a scalar whose size is bounded,   *)
(* which reaches JSON as a number or as a string.                          *)
(***************************************************************************)
EXTENDS Naturals, Sequences, FiniteSetsExt, ByteSums

CONSTANTS
  Budget,          \* max_result_preview_bytes
  CellChars,       \* max_result_cell_chars
  Limit,           \* rows asked for
  MaxColumns,      \* _MAX_PREVIEW_COLUMNS
  MinCell,         \* _MIN_PREVIEW_CELL_CHARS
  ScalarBytes,     \* _MAX_SCALAR_BYTES_PER_COL
  NameBytes,       \* the JSON of a column's name in a row of a sample
  MetadataBytes,   \* the JSON of a column in the schema and the null counts
  Results          \* [columns, rows]: a sequence of rows, of a cell for each column

Kinds == {"text", "blob", "number", "string"}
Cell == [kind : Kinds, chars : Nat, per : Nat \ {0}]

(* What JSON adds to a cell: its comma, and its quotes unless a number.    *)
Separator == 2
Quotes(c) == IF c.kind = "number" THEN 0 ELSE 2
CellBytes(c) == c.chars * c.per + Quotes(c)

(* The smallest of Settings and of the types _SMALL_SCALAR lists.          *)
ASSUME PreviewConstants ==
  /\ {Budget, CellChars, Limit, MaxColumns, MinCell, ScalarBytes, MetadataBytes} \subseteq Nat \ {0}
  /\ NameBytes \in Nat
  /\ Separator + 2 <= ScalarBytes /\ ScalarBytes <= Budget
  /\ \A r \in Results :
       /\ r.columns \in Nat \ {0} /\ r.rows \in Seq([1 .. r.columns -> Cell])
       /\ \A i \in DOMAIN r.rows : \A k \in 1 .. r.columns :
            r.rows[i][k].kind = "number" => CellBytes(r.rows[i][k]) + Separator <= ScalarBytes

(* _row_bytes: as many separators as cells, the brackets being one. *)
RowBytes(row) == Bytes([k \in DOMAIN row |-> CellBytes(row[k]) + Separator])

(* Columns shown, and the characters shown of a cell. *)
Shown(columns) == Min({columns, MaxColumns, Max({1, Budget \div ScalarBytes})})
CellCap(columns) == Min({CellChars, Max({MinCell, Budget \div (2 * Shown(columns))})})

(* cell_bound_expr: one more than the cap of what can be long; bytes are   *)
(* made twice as many hexadecimal digits.                                  *)
Projected(c, cap) ==
  CASE c.kind = "text" -> [c EXCEPT !.chars = Min({@, cap + 1})]
    [] c.kind = "blob" -> [kind |-> "text", chars |-> 2 * Min({c.chars, cap + 1}), per |-> 1]
    [] OTHER -> c

Trims(c, cap) == c.kind # "number" /\ c.chars > cap
Trimmed(c, cap) == IF Trims(c, cap) THEN [c EXCEPT !.chars = cap] ELSE c

TrimsRow(row, cap) == \E k \in DOMAIN row : Trims(row[k], cap)
TrimmedRow(row, cap) == [k \in DOMAIN row |-> Trimmed(row[k], cap)]

(* The longest string is halved until the row fits in the bytes, or no     *)
(* string is left.                                                         *)
Strings(row) == {k \in DOMAIN row : row[k].kind # "number" /\ row[k].chars > 0}

Longest(row) ==
  CHOOSE k \in Strings(row) : \A l \in Strings(row) :
    row[k].chars > row[l].chars \/ (row[k].chars = row[l].chars /\ k <= l)

Halve(row, bytes) ==
  IF RowBytes(row) <= bytes \/ Strings(row) = {} THEN row
  ELSE [row EXCEPT ![Longest(row)].chars = @ \div 2]

Shrunk(row, bytes) ==
  LET after[n \in 0 .. RowBytes(row)] ==
        IF n = 0 THEN row ELSE Halve(after[n - 1], bytes)
  IN after[RowBytes(row)]

(* A faulty variant of ShrinkRow: the first row is kept whole. *)
ShrinkRowNever(row) == row

ShrinkRow(row) == Shrunk(row, Budget)

(* A row more, until there are enough, no more or no budget left. *)
Fetch(p, row, cap) ==
  LET new == TrimmedRow(row, cap) IN
  IF p.over THEN p
  ELSE IF p.used + RowBytes(new) <= Budget
  THEN [kept |-> Append(p.kept, new), used |-> p.used + RowBytes(new),
        truncated |-> p.truncated \/ TrimsRow(row, cap), over |-> FALSE]
  ELSE [kept |-> IF p.kept = <<>> THEN <<ShrinkRow(new)>> ELSE p.kept,
        used |-> p.used, truncated |-> TRUE, over |-> TRUE]

Fetched(rows, cap) ==
  LET after[n \in 0 .. Min({Limit, Len(rows)})] ==
        IF n = 0 THEN [kept |-> <<>>, used |-> 0, truncated |-> FALSE, over |-> FALSE]
        ELSE Fetch(after[n - 1], rows[n], cap)
  IN after[Min({Limit, Len(rows)})]

(* The first columns of the rows of a result. *)
ProjectedRows(r, columns, cap) ==
  [i \in DOMAIN r.rows |-> [k \in 1 .. columns |-> Projected(r.rows[i][k], cap)]]

Preview(r) ==
  LET cap == CellCap(r.columns)
      fetched == Fetched(ProjectedRows(r, Shown(r.columns), cap), cap)
  IN [kept |-> fetched.kept,
      truncated |-> fetched.truncated \/ Shown(r.columns) < r.columns \/ Len(r.rows) > Limit]

-----------------------------------------------------------------------------
(* Columns of a sample: those whose description fits in the budget. *)
Described(columns) ==
  Min({columns, MaxColumns, Budget \div ScalarBytes, Budget \div MetadataBytes})

(* The names in a row, a row with them, and a list of rows. *)
Names(row) == Len(row) * NameBytes + Separator
NamedBytes(row) == RowBytes(row) + Names(row)
SampleBytes(rows) == Bytes([i \in DOMAIN rows |-> NamedBytes(rows[i])])

Take(p, row, cap) ==
  LET new == TrimmedRow(row, cap)
      least == IF Names(new) > Budget THEN new ELSE Shrunk(new, Budget - Names(new))
  IN IF p.over THEN p
     ELSE IF SampleBytes(Append(p.sample, new)) <= Budget
     THEN [sample |-> Append(p.sample, new), truncated |-> p.truncated \/ TrimsRow(row, cap),
           over |-> FALSE]
     ELSE IF p.sample = <<>> /\ NamedBytes(least) <= Budget
     THEN [sample |-> <<least>>, truncated |-> TRUE, over |-> FALSE]
     ELSE [sample |-> p.sample, truncated |-> TRUE, over |-> TRUE]

Sampled(rows, cap) ==
  LET after[n \in 0 .. Min({Limit, Len(rows)})] ==
        IF n = 0 THEN [sample |-> <<>>, truncated |-> FALSE, over |-> FALSE]
        ELSE Take(after[n - 1], rows[n], cap)
  IN after[Min({Limit, Len(rows)})]

SampleCap(columns) == Min({CellChars, Max({MinCell, Budget \div (2 * Described(columns))})})

Sample(r) ==
  LET columns == Described(r.columns)
      cap == SampleCap(r.columns)
      sampled == IF columns = 0 THEN [sample |-> <<>>, truncated |-> TRUE]
                 ELSE Sampled(ProjectedRows(r, columns, cap), cap)
  IN [sample |-> sampled.sample,
      truncated |-> Len(r.rows) > Len(sampled.sample) \/ sampled.truncated
                      \/ columns < r.columns]

-----------------------------------------------------------------------------
(* A blob's digits are all there. *)
Entire(c) == IF c.kind = "blob" THEN Projected(c, c.chars) ELSE c

AllOf(r) == [i \in DOMAIN r.rows |-> [k \in 1 .. r.columns |-> Entire(r.rows[i][k])]]

(* The JSON of the rows that are returned: as many separators as rows, the *)
(* brackets of the list being one.                                         *)
PreviewBytes(rows) == Bytes([i \in DOMAIN rows |-> RowBytes(rows[i]) + Separator])

(* FR-030 and the docstring of _fetch_preview_bounded: whatever the cells  *)
(* are, a preview takes no more than the budget, which counts each row but *)
(* not what separates it from the next, is not empty when the result is    *)
(* not, and is marked truncated exactly when a row, a column or a          *)
(* character is missing of the result.                                     *)
PreviewFits ==
  \A r \in Results :
    LET p == Preview(r) IN
    /\ PreviewBytes(p.kept) <= Budget + Separator * Len(p.kept)
    /\ r.rows # <<>> => p.kept # <<>>
    /\ p.truncated <=> p.kept # AllOf(r) \/ Shown(r.columns) < r.columns

(* A row without the characters of its strings. *)
Emptied(row, columns) ==
  [k \in 1 .. columns |-> IF row[k].kind = "number" THEN row[k] ELSE [row[k] EXCEPT !.chars = 0]]

(* The same of a sample, which is empty only when the budget is not enough *)
(* for the names and numbers of the first row.                             *)
SampleFits ==
  \A r \in Results :
    LET s == Sample(r) columns == Described(r.columns) IN
    /\ SampleBytes(s.sample) <= Budget
    /\ r.rows # <<>> /\ s.sample = <<>> =>
         columns = 0 \/ NamedBytes(Emptied(r.rows[1], columns)) > Budget
    /\ s.truncated <=> s.sample # AllOf(r) \/ columns < r.columns
=============================================================================
