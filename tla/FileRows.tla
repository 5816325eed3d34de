------------------------------ MODULE FileRows ------------------------------
(***************************************************************************)
(* From the lines of an uploaded file to the rows of a batch: which header *)
(* means which field (DetectColumns), what a row has in its fields and     *)
(* which number it bears (XLSParser.Parse), and whether it fits the rules  *)
(* (FieldValidator).  Pure functions, with no state.                       *)
(*                                                                         *)
(* A header is what TrimSpace and ToLower leave of it; a cell is a member  *)
(* of a small set; a line is a sequence of cells, the empty one if blank.  *)
(* All revisions have the same aliases (revisionAliasExtensions is empty), *)
(* but not the same rules.                                                 *)
(***************************************************************************)
EXTENDS Naturals, Sequences, FiniteSets

CONSTANTS
    Fields,    \* field codes, DAC to DBD
    Headers,   \* header texts
    Aliases,   \* for each field, the headers that mean it (defaultColumnAliases)
    Cells,     \* texts of cells; "" is the empty one
    Blanks,    \* the cells of which TrimSpace leaves nothing
    Revisions, \* values of the form field revision, which nobody checks
    Rules      \* for each revision, the rules of those fields that have one

\* A rule is [required, fitting], where fitting are the texts that its pattern and
\* its lengths admit: the empty one, too, if it has no least length.
ASSUME FileRowsAssumption ==
    /\ Aliases \in [Fields -> SUBSET Headers]
    /\ \A f, g \in Fields : f # g => Aliases[f] \cap Aliases[g] = {}
    /\ \A f \in Fields : "" \notin Aliases[f]
    /\ \A v \in Revisions :
          /\ DOMAIN Rules[v] \subseteq Fields
          /\ \A f \in DOMAIN Rules[v] : Rules[v][f] \in [required: BOOLEAN, fitting: SUBSET Cells]

\* A header means at most one field; the other columns are skipped.
DetectColumns(header) == {f \in Fields : header \in Aliases[f]}

\* excelize drops what is empty at the end of a row and of the sheet.
Trim(seq, empty) ==
    LET kept == {i \in DOMAIN seq : seq[i] # empty}
    IN  IF kept = {} THEN <<>> ELSE SubSeq(seq, 1, CHOOSE i \in kept : \A j \in kept : j <= i)
TrimRow(line) == Trim(line, "")

\* encoding/csv skips blank lines ...
Records(lines) ==
    LET kept[n \in 0 .. Len(lines)] ==
            IF n = 0 THEN <<>>
            ELSE IF lines[n] = <<>> THEN kept[n - 1] ELSE Append(kept[n - 1], lines[n])
    IN  kept[Len(lines)]

WorkbookRows(lines) == Trim([i \in DOMAIN lines |-> TrimRow(lines[i])], <<>>)

\* A deliberate bug, used by no specification: a record may have fewer fields
\* than the first.
RaggedReadFirstSheet(format, lines) ==
    [ok |-> TRUE, rows |-> IF format = "csv" THEN Records(lines) ELSE lines]

\* ... and refuses records of different lengths.  The rows of an old .xls file are
\* taken as long as they are.
ReadFirstSheet(format, lines) ==
    IF format = "csv"
    THEN [ok   |-> \A i, j \in DOMAIN Records(lines) : Len(Records(lines)[i]) = Len(Records(lines)[j]),
          rows |-> Records(lines)]
    ELSE [ok |-> TRUE, rows |-> IF format = "xlsx" THEN WorkbookRows(lines) ELSE lines]

TrimSpace(cell) == IF cell \in Blanks THEN "" ELSE cell

NoData == [f \in {} |-> ""]

\* A deliberate bug, used by no specification: the first column of a field wins.
BrokenAddColumn(headers, row, data, i) ==
    LET found == IF i <= Len(row) THEN DetectColumns(headers[i]) ELSE {}
    IN  [f \in DOMAIN data \cup found |->
            IF f \in DOMAIN data THEN data[f] ELSE TrimSpace(row[i])]

\* A column of the header; a row may be shorter than the header.
AddColumn(headers, row, data, i) ==
    LET found == IF i <= Len(row) THEN DetectColumns(headers[i]) ELSE {}
    IN  [f \in DOMAIN data \cup found |-> IF f \in found THEN TrimSpace(row[i]) ELSE data[f]]

\* The columns from left to right.
ParseRow(headers, row) ==
    LET data[i \in 0 .. Len(headers)] ==
            IF i = 0 THEN NoData ELSE AddColumn(headers, row, data[i - 1], i)
    IN  data[Len(headers)]

\* The rows of the file, numbered as in the sheet, where the header is line 1.
ParseSheet(format, lines, maxRows) ==
    LET sheet   == ReadFirstSheet(format, lines)
        headers == Head(sheet.rows)
        refused == [ok |-> FALSE, rows |-> <<>>]
    IN  IF ~sheet.ok \/ sheet.rows = <<>> THEN refused
        ELSE IF maxRows > 0 /\ Len(sheet.rows) - 1 > maxRows THEN refused
        ELSE IF \A i \in DOMAIN headers : DetectColumns(headers[i]) = {} THEN refused
        ELSE [ok |-> TRUE,
              rows |-> [i \in 1 .. Len(sheet.rows) - 1 |->
                           [number |-> i + 1, data |-> ParseRow(headers, sheet.rows[i + 1])]]]

Mandatory(revision) == {f \in DOMAIN Rules[revision] : Rules[revision][f].required}

\* The rule of a field is asked only for a row that has the field, and a field
\* without a rule passes.
ValidateFields(revision, data) ==
    \A f \in DOMAIN data \cap DOMAIN Rules[revision] :
        /\ f \in Mandatory(revision) => data[f] # ""
        /\ data[f] \in Rules[revision][f].fitting

---------------------------------------------------------------------------
\* Files of a header of at most three columns and one or two more lines.
HeaderLines == UNION {[1 .. n -> Headers] : n \in 1 .. 3}
Lines       == UNION {[1 .. n -> Cells] : n \in 0 .. 3}
Files       == UNION {{<<h, l>>, <<h, <<>>, l>>, <<h, l, l>>} : h \in HeaderLines, l \in Lines}
Formats     == {"xlsx", "xls", "csv"}

\* The columns of a field that a line reaches, and what the line says of the
\* field: the text in the cell of the last of them.
Columns(headers, line, f) ==
    {i \in DOMAIN headers \cap DOMAIN line : f \in DetectColumns(headers[i])}
LastCells(headers, line, f) ==
    LET columns == Columns(headers, line, f)
    IN  {TrimSpace(line[i]) : i \in {c \in columns : \A d \in columns : d <= c}}

\* The rows of a file that the limit lets through.
ParsedRows(file, format) == ParseSheet(format, file, Len(file)).rows

\* A row has in every field what the line of its number says.  Only a blank line
\* in a CSV file shifts the numbers of the lines after it.
LinesAreKept(file, format) ==
    LET rows == ParsedRows(file, format)
    IN  format # "csv" \/ (\A k \in DOMAIN file : file[k] # <<>>) =>
          \A i \in DOMAIN rows :
              LET text == file[rows[i].number]
                  line == IF format = "xlsx" THEN TrimRow(text) ELSE text
                  data == rows[i].data
              IN  \A f \in Fields :
                      LastCells(Head(file), line, f) = {data[g] : g \in {f} \cap DOMAIN data}

\* In a CSV file a row that fits the rules of the revision has a text in every
\* field that is mandatory under it and has a column.  (In a workbook it may lack
\* those at the end of its line.  Under a revision without rules nothing is
\* mandatory.)
FittingIsComplete(file, revision) ==
    \A i \in DOMAIN ParsedRows(file, "csv"), f \in Mandatory(revision) :
        LET data == ParsedRows(file, "csv")[i].data
        IN  /\ \E c \in DOMAIN Head(file) : f \in DetectColumns(Head(file)[c])
            /\ ValidateFields(revision, data)
            => f \in DOMAIN data /\ data[f] # ""

AllLinesAreKept      == \A file \in Files, format \in Formats : LinesAreKept(file, format)
AllFittingIsComplete ==
    \A file \in Files, revision \in Revisions : FittingIsComplete(file, revision)
=============================================================================
