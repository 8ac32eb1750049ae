----------------------------- MODULE Csv ------------------------------------
(***************************************************************************)
(* CSV: the writer and the reader, and the viewer. They share no state:    *)
(* which says what a behaviour is about.                                   *)
(***************************************************************************)
EXTENDS FiniteSetsExt, Integers, SequencesExt

VARIABLES which, core, abs
vars == <<which, core, abs>>
-----------------------------------------------------------------------------
(***************************************************************************)
(* Bu::CsvWriter and CsvReader in the style of Excel                       *)
(* (src/stable/csvwriter.cpp, csvreader.cpp) with Stream::readLine         *)
(* (stream.cpp).  A character is itself, "nl" the newline.  core is the    *)
(* stream between writer and reader; abs the rows written and read.        *)
(***************************************************************************)
CONSTANTS Chars,            \* the characters of values
          MaxChars,         \* bound: of a value
          MaxValues,        \* bound: of a row
          MaxRows           \* bound: rows written

Quote == "\""
-----------------------------------------------------------------------------
\* Mutant: quotes inside are not doubled.
QuotesOnce(s) == IF \E k \in DOMAIN s : s[k] \in {Quote, ","} THEN <<Quote>> \o s \o <<Quote>> ELSE s

encodeExcel(s) ==
    IF \E k \in DOMAIN s : s[k] \in {Quote, ","}
    THEN <<Quote>> \o FlattenSeq([k \in DOMAIN s |-> IF s[k] = Quote THEN <<Quote, Quote>> ELSE <<s[k]>>]) \o <<Quote>>
    ELSE s

writeLine(row) == FlattenSeq([k \in DOMAIN row |-> (IF k = 1 THEN <<>> ELSE <<",">>) \o encodeExcel(row[k])]) \o <<"nl">>

\* Stream::readLine: <<line, rest>>
readLine(in) ==
    LET n == IF \E k \in DOMAIN in : in[k] = "nl" THEN CHOOSE k \in DOMAIN in : in[k] = "nl" /\ \A m \in 1..(k - 1) : in[m] # "nl"
             ELSE Len(in) + 1
    IN  <<SubSeq(in, 1, n - 1), SubSeq(in, n + 1, Len(in))>>

\* The decoders: <<value, rest of the line>>; a quote that is not doubled ends the value.
RECURSIVE inQuotes(_, _)
inQuotes(l, v) == CASE l = <<>> -> <<v, l>>
                    [] Head(l) # Quote -> inQuotes(Tail(l), Append(v, Head(l)))
                    [] Len(l) >= 2 /\ l[2] = Quote -> inQuotes(Tail(Tail(l)), Append(v, Quote))
                    [] OTHER -> <<v, Tail(l)>>

RECURSIVE toComma(_, _)
toComma(l, v) == IF l = <<>> \/ Head(l) = "," THEN <<v, l>> ELSE toComma(Tail(l), Append(v, Head(l)))

RECURSIVE decodeExcel(_)
decodeExcel(l) == CASE l = <<>> -> <<<<>>, l>>
                    [] Head(l) = " " -> decodeExcel(Tail(l))
                    [] Head(l) = Quote -> inQuotes(Tail(l), <<>>)
                    [] OTHER -> toComma(l, <<>>)

\* What stands between a closing quote and the comma is dropped.
RECURSIVE values(_, _)
values(l, row) ==
    CASE l = <<>> -> row
      [] l = <<",">> -> Append(row, <<>>)
      [] Head(l) = "," -> LET d == decodeExcel(Tail(l)) IN values(d[2], Append(row, d[1]))
      [] OTHER -> values(Tail(l), row)

\* CsvReader::readLine: an empty line has no values.
readRow(line) == IF line = <<>> THEN <<>> ELSE LET d == decodeExcel(line) IN values(d[2], <<d[1]>>)
-----------------------------------------------------------------------------
\* Blanks in front of a value are layout to the reader, and a row of one empty value is an empty line.
Values == {s \in BoundedSeq(Chars, MaxChars) : s = <<>> \/ s[1] # " "}
CsvRows == BoundedSeq(Values, MaxValues) \ {<<<<>>>>}

CsvInit == core = <<>> /\ abs = [wrote |-> <<>>, got |-> <<>>]

WriteLine == /\ Len(abs.wrote) < MaxRows
             /\ \E row \in CsvRows : /\ core' = core \o writeLine(row)
                                     /\ abs' = [abs EXCEPT !.wrote = Append(@, row)]

ReadLine == /\ core # <<>>
            /\ LET l == readLine(core) IN /\ core' = l[2]
                                          /\ abs' = [abs EXCEPT !.got = Append(@, readRow(l[1]))]

CsvNext == WriteLine \/ ReadLine

-----------------------------------------------------------------------------
\* The rows that are read are the rows that were written, value for value: commas, quotes and empty
\* values included, in each place of a row.
RowsComeBack == IsPrefix(abs.got, abs.wrote)
-----------------------------------------------------------------------------
(***************************************************************************)
(* The CSV viewer (src/tools/viewcsv.cpp): CsvDoc, CsvView and the keys of *)
(* main.  A cell is its size, and a search matches the cells of one size.  *)
(* core is the document and the view on it; abs the file and how often the *)
(* search was repeated.                                                    *)
(***************************************************************************)
CONSTANTS Files,            \* sequences of rows, a row is a sequence of sizes of cells
          Height, Width,    \* of the screen
          MaxSearch         \* bound: repeats of a search

Bigger(x, y) == IF x < y THEN y ELSE x
Smaller(x, y) == IF x < y THEN x ELSE y
-----------------------------------------------------------------------------
addRow(doc, row) ==
    LET cols == Bigger(doc.iMaxCols, Len(row))
        old(j) == IF j <= Len(doc.aWidths) THEN doc.aWidths[j] ELSE 0
    IN  [sgData |-> Append(doc.sgData, row), iMaxCols |-> cols,
         aWidths |-> [j \in 1..cols |-> Bigger(old(j), IF j <= Len(row) THEN row[j] ELSE 0)]]

\* main's loop stops as soon as the file is at its end.  The buffer, emptied by the last byte of the
\* last row, reads on at once and meets it: the last row is not in the document.
loaded(file) == FoldLeft(addRow, [sgData |-> <<>>, iMaxCols |-> 0, aWidths |-> <<>>], SubSeq(file, 1, Len(file) - 1))

CsvViewRows(v) == Len(v.doc.sgData)

\* Mutant: the last row is not the limit.
MovePastEnd(v, x, y) ==
    LET top == IF v.bHeaderRow THEN 1 ELSE 0
    IN  [v EXCEPT !.iXOff = Smaller(Bigger(@ + x, 0), v.doc.iMaxCols - 1), !.iYOff = Smaller(Bigger(@ + y, top), CsvViewRows(v))]

move(v, x, y) ==
    LET top == IF v.bHeaderRow THEN 1 ELSE 0
    IN  [v EXCEPT !.iXOff = Smaller(Bigger(@ + x, 0), v.doc.iMaxCols - 1), !.iYOff = Smaller(Bigger(@ + y, top), CsvViewRows(v) - 1)]

Page(v) == Height - (IF v.bHeaderRow THEN 4 ELSE 3)
pageDown(v) == move(v, 0, Page(v))
pageUp(v) == move(v, 0, -Page(v))
home(v) == [v EXCEPT !.iYOff = IF v.bHeaderRow THEN 1 ELSE 0]
end(v) == [v EXCEPT !.iYOff = CsvViewRows(v) - 1]
setHeaderRow(v, on) == IF v.bHeaderRow = on THEN v ELSE move([v EXCEPT !.bHeaderRow = on], 0, IF on THEN 1 ELSE -1)

scrollToCaret(v) == [v EXCEPT !.iXOff = v.iCol, !.iYOff = v.iRow]

\* Rows and columns count from 0; a search matches the cells of its size.
Matches(v, size) == {p \in (0..(CsvViewRows(v) - 1)) \X (0..(v.doc.iMaxCols - 1)) :
                         p[2] < Len(v.doc.sgData[p[1] + 1]) /\ v.doc.sgData[p[1] + 1][p[2] + 1] = size}
Before(p, q) == p[1] < q[1] \/ (p[1] = q[1] /\ p[2] < q[2])

\* Mutant: the column is not set back to the start in the next row.
FindKeepsColumn(v, size) ==
    LET from == <<Bigger(v.iRow, 0), v.iCol + 1>>
        hits == {p \in Matches(v, size) : p[1] >= from[1] /\ p[2] >= from[2]}
        first == CHOOSE p \in hits : \A q \in hits : p = q \/ Before(p, q)
    IN  IF hits = {} THEN v ELSE scrollToCaret([v EXCEPT !.iRow = first[1], !.iCol = first[2]])

findNext(v, size) ==
    LET from == <<Bigger(v.iRow, 0), v.iCol + 1>>
        hits == {p \in Matches(v, size) : ~Before(p, from)}
        first == CHOOSE p \in hits : \A q \in hits : p = q \/ Before(p, q)
    IN  IF hits = {} THEN v ELSE scrollToCaret([v EXCEPT !.iRow = first[1], !.iCol = first[2]])

resetCaret(v) == [v EXCEPT !.iRow = -1, !.iCol = -1]

\* render: the rows and the columns whose cells it draws, and the ends of the columns on the screen.
\* A cell outside the document throws, which ends the row.
rowsDrawn(v) == {r \in v.iYOff..(v.iYOff + Smaller(CsvViewRows(v), Page(v)) - 1) : r < CsvViewRows(v)}
RECURSIVE columns(_, _, _)
columns(v, col, x) ==
    LET w == Smaller(v.doc.aWidths[col + v.iXOff + 1], Width - x - 1)
    IN  IF col >= Smaller(v.doc.iMaxCols, Width - 1) \/ x >= Width \/ col + v.iXOff >= v.doc.iMaxCols THEN <<>>
        ELSE <<[col |-> col + v.iXOff, first |-> x + 1, last |-> x + w]>> \o columns(v, col + 1, x + w + 1)
-----------------------------------------------------------------------------
CsvViewInit == \E f \in Files, header \in BOOLEAN :
           /\ core = setHeaderRow([doc |-> loaded(f), iXOff |-> 0, iYOff |-> 0, bHeaderRow |-> FALSE, iRow |-> -1, iCol |-> -1], header)
           /\ abs = [file |-> f, term |-> 0, finds |-> 0]

Key == /\ \/ core' \in {move(core, 0, 1), move(core, 0, -1), move(core, -1, 0), move(core, 1, 0)}
          \/ core' \in {pageDown(core), pageUp(core), home(core), end(core)}
          \/ core' = setHeaderRow(core, ~core.bHeaderRow)
       /\ UNCHANGED abs

Search == \E size \in 1..2 : /\ core' = findNext(resetCaret(core), size)
                             /\ abs' = [abs EXCEPT !.term = size, !.finds = 1]

SearchAgain == /\ abs.term # 0 /\ abs.finds < MaxSearch
               /\ core' = findNext(core, abs.term) /\ abs' = [abs EXCEPT !.finds = @ + 1]

CsvViewNext == Key \/ Search \/ SearchAgain

-----------------------------------------------------------------------------
\* Whatever keys are pressed, the corner of the view is a cell of a document with more than a header,
\* some rows are drawn, and what is drawn lies on the screen and in the document.
ViewInDocument ==
    /\ CsvViewRows(core) > 1 => core.iYOff \in 0..(CsvViewRows(core) - 1)
    /\ core.doc.iMaxCols > 0 => core.iXOff \in 0..(core.doc.iMaxCols - 1)
    /\ CsvViewRows(core) > 1 => rowsDrawn(core) # {}
    /\ \A c \in Range(columns(core, 0, 6)) : c.col < core.doc.iMaxCols /\ c.last < Width

\* Searching again goes through all the cells that match, in the order of the rows, and stays on the
\* last one; moving the view in between does not lose the place.
SearchVisitsAll ==
    abs.term # 0 =>
        LET hits == Matches(core, abs.term)
            at == <<core.iRow, core.iCol>>
            behind == {p \in hits : ~Before(at, p)}
        IN  IF hits = {} THEN at = <<-1, -1>>
            ELSE /\ at \in hits /\ Cardinality(behind) = Smaller(abs.finds, Cardinality(hits))
-----------------------------------------------------------------------------
Init == \/ which = "Csv" /\ CsvInit
        \/ which = "CsvView" /\ CsvViewInit

Next == /\ UNCHANGED which
        /\ \/ which = "Csv" /\ CsvNext
           \/ which = "CsvView" /\ CsvViewNext

Spec == Init /\ [][Next]_vars
=============================================================================
