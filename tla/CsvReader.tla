----------------------------- MODULE CsvReader -----------------------------
(***************************************************************************)
(* CSVReader (csv.h) over the lines of a file: which column of a row ends  *)
(* in which variable of the caller, after which calls, and what is left    *)
(* behind by the ones that throw.  A call is one action: one thread makes  *)
(* them all.  A line is a comment or the sequence of its cells, which are  *)
(* names, values, values that do not convert and a quote that never closes *)
(* (CsvRow says how a line becomes cells and a cell a value).  A char* is  *)
(* the line and the column it points into.                                 *)
(***************************************************************************)
EXTENDS Integers, Sequences, FiniteSetsExt

CONSTANTS
  Cells,        (* the texts a cell may hold                               *)
  Files,        (* the sequences of lines a file may be                    *)
  DefaultNames, (* the column names before the caller gives any            *)
  NameLists,    (* those the caller may give                               *)
  Unclosed,     (* the cell with a quote that never closes                 *)
  Bad,          (* the cells that do not convert                           *)
  MaxCalls      (* bound: calls of the caller                              *)

VARIABLES
  file,         (* the lines                                               *)
  file_line,    (* how many of them were taken (LineReader::file_line)     *)
  calls,        (* bound: how many calls were made                         *)
  column_names, col_order, row,
  cols,         (* the cell each variable of the caller was set from       *)
  answer,       (* history: what the last call returned or threw           *)
  header        (* history: the cells of the header in force, how it came  *)

vars == <<file, file_line, calls, column_names, col_order, row, cols, answer, header>>

column_count == Len(column_names)
Columns == 1 .. column_count
Null == <<0, 0>>
Comment == <<"comment">>
NoRow == [c \in Columns |-> Null]

(* The code asserts that there are as many names as columns; the caller    *)
(* gives no two columns the same name.                                     *)
ASSUME CsvReaderConstants ==
  /\ Files \subseteq Seq(Seq(Cells) \cup {Comment})
  /\ NameLists \cup {DefaultNames} \subseteq Seq(Cells)
  /\ \A names \in NameLists : Len(names) = Len(DefaultNames)
  /\ \A names \in NameLists \cup {DefaultNames} : \A c, d \in DOMAIN names :
       names[c] = names[d] => c = d

Returned(what) == [kind |-> what, line |-> -1, column |-> "none", content |-> Null]

(* The lines from the next one that is not a comment; the file's end.      *)
NextData == Min({n \in file_line + 1 .. Len(file) + 1 : n = Len(file) + 1 \/ file[n] # Comment})
Cell(p) == file[p[1]][p[2]]

Init ==
  /\ file \in Files /\ file_line = 0 /\ calls = 0
  /\ column_names = DefaultNames
  /\ col_order = [c \in Columns |-> c] /\ row = NoRow /\ cols = NoRow
  /\ answer = Returned("none")
  /\ header = [cells |-> column_names, ignored |-> {}, ok |-> TRUE, reread |-> FALSE]

Call == calls < MaxCalls /\ calls' = calls + 1 /\ UNCHANGED file

Take(n) == file_line' = Min({n, Len(file)})

-----------------------------------------------------------------------------
(* Headers                                                                 *)

(* The names take the columns in their order, and the row is forgotten.    *)
SetHeader(names) ==
  /\ Call /\ column_names' = names
  /\ col_order' = [c \in Columns |-> c] /\ row' = NoRow
  /\ header' = [cells |-> names, ignored |-> {}, ok |-> TRUE, reread |-> FALSE]
  /\ answer' = Returned("none") /\ UNCHANGED <<file_line, cols>>

(* parse_header_line goes through the cells up to one that stops it.       *)
ColumnOf(cell, names) ==
  IF \E c \in DOMAIN names : names[c] = cell
    THEN Min({c \in DOMAIN names : names[c] = cell}) ELSE -1
HeaderStops(cells, k, names, ignored) ==
  \/ cells[k] = Unclosed
  \/ IF ColumnOf(cells[k], names) # -1 THEN \E j \in 1 .. k - 1 : cells[j] = cells[k]
                                       ELSE "extra" \notin ignored
HeaderError(cells, k, names) ==
  IF cells[k] = Unclosed THEN Returned("escaped_string_not_closed")
  ELSE [Returned(IF ColumnOf(cells[k], names) # -1 THEN "duplicated_column_in_header"
                                                   ELSE "extra_column_in_header")
          EXCEPT !.column = cells[k]]

(* Neither the row nor, when it throws, the rest of the order is put back. *)
ReadHeader(names, ignored) ==
  LET n       == NextData
      cells   == file[n]
      stop    == Min({k \in 1 .. Len(cells) + 1 :
                        k = Len(cells) + 1 \/ HeaderStops(cells, k, names, ignored)})
      missing == {c \in DOMAIN names : \A k \in DOMAIN cells : cells[k] # names[c]}
      result  == IF stop <= Len(cells) THEN HeaderError(cells, stop, names)
                 ELSE IF missing # {} /\ "missing" \notin ignored
                   THEN [Returned("missing_column_in_header")
                           EXCEPT !.column = names[Min(missing)]]
                 ELSE Returned("none")
  IN  /\ Call /\ Take(n) /\ column_names' = names
      /\ IF n > Len(file)
           THEN /\ answer' = Returned("header_missing") /\ UNCHANGED col_order
                /\ header' = [header EXCEPT !.ok = FALSE, !.reread = TRUE]
           ELSE /\ col_order' = [k \in 1 .. stop - 1 |-> ColumnOf(cells[k], names)]
                /\ answer' = result
                /\ header' = [cells |-> cells, ignored |-> ignored,
                              ok |-> result.kind = "none", reread |-> row # NoRow]
      /\ UNCHANGED <<row, cols>>

has_column(name) ==
  \E k \in DOMAIN col_order : col_order[k] # -1 /\ column_names[col_order[k]] = name

-----------------------------------------------------------------------------
(* Rows                                                                    *)

(* parse_line sets the row column by column until it throws.               *)
CutBefore(cells) ==
  Min({k \in 1 .. Len(col_order) + 1 :
         \/ k = Len(col_order) + 1 \/ k > Len(cells) \/ cells[k] = Unclosed})
CutRowUnordered(n, k) == [c \in Columns |-> IF c < k THEN <<n, c>> ELSE row[c]]

CutRow(n, k) ==
  [c \in Columns |-> IF \E j \in 1 .. k - 1 : col_order[j] = c
                       THEN <<n, CHOOSE j \in 1 .. k - 1 : col_order[j] = c>> ELSE row[c]]

WithLineBefore(kind) == [Returned(kind) EXCEPT !.line = file_line]

WithLine(kind) == [Returned(kind) EXCEPT !.line = file_line']

CutErrorLenient(cells, k) ==
  IF k <= Len(col_order) /\ k <= Len(cells) THEN "escaped_string_not_closed"
  ELSE IF Len(cells) > Len(col_order) THEN "too_many_columns" ELSE "none"

CutError(cells, k) ==
  IF k <= Len(col_order)
    THEN IF k > Len(cells) THEN "too_few_columns" ELSE "escaped_string_not_closed"
    ELSE IF Len(cells) > Len(col_order) THEN "too_many_columns" ELSE "none"

(* parse_helper converts in the order of the variables, not of the file,   *)
(* and leaves a variable alone whose column has no text.                   *)
Convert ==
  LET bad  == {c \in Columns : row'[c] # Null /\ Cell(row'[c]) \in Bad}
      stop == IF bad = {} THEN column_count + 1 ELSE Min(bad)
  IN  /\ cols' = [c \in Columns |-> IF c < stop /\ row'[c] # Null THEN row'[c] ELSE cols[c]]
      /\ answer' = IF bad = {} THEN Returned("row")
                   ELSE [WithLine("no_digit") EXCEPT
                           !.column = column_names[stop], !.content = row'[stop]]

ReadRow ==
  LET n == NextData  cells == file[n]  k == CutBefore(cells)
  IN  /\ Call /\ Take(n)
      /\ IF n > Len(file) THEN answer' = Returned("end") /\ UNCHANGED <<row, cols>>
         ELSE /\ row' = CutRow(n, k)
              /\ IF CutError(cells, k) = "none" THEN Convert
                 ELSE answer' = WithLine(CutError(cells, k)) /\ UNCHANGED cols
      /\ UNCHANGED <<column_names, col_order, header>>

(* next_line() hands out a line unread.                                    *)
SkipLine ==
  /\ Call /\ file_line < Len(file) /\ Take(file_line + 1) /\ answer' = Returned("line")
  /\ UNCHANGED <<column_names, col_order, row, cols, header>>

Next ==
  \/ \E names \in NameLists : SetHeader(names)
  \/ \E names \in NameLists, ignored \in SUBSET {"extra", "missing"} :
       ReadHeader(names, ignored)
  \/ ReadRow \/ SkipLine

Spec == Init /\ [][Next]_vars

-----------------------------------------------------------------------------
(* Properties                                                              *)

(* A row that is returned has set every variable from its own line, from   *)
(* the column that has the variable's name in the header; only a column    *)
(* the caller let be missing, which has_column() tells, keeps what it had. *)
(* This takes a header that did not throw, nor was read over a row.        *)
RowsAreUnderTheirHeader ==
  answer.kind = "row" /\ header.ok /\ ~header.reread =>
    \A c \in Columns :
      IF has_column(column_names[c])
        THEN cols[c][1] = file_line /\ header.cells[cols[c][2]] = column_names[c]
        ELSE /\ "missing" \in header.ignored /\ row[c] = Null
             /\ \A k \in DOMAIN header.cells : header.cells[k] # column_names[c]

(* What goes wrong otherwise is bounded: a variable set by this row, or    *)
(* any pointer that is left from an earlier line, is of a column that the  *)
(* order in force does not have.                                           *)
StaleColumnsAreNotInTheOrder ==
  answer.kind = "row" =>
    \A c \in Columns : row[c] # Null /\ row[c][1] # file_line =>
      \A k \in DOMAIN col_order : col_order[k] # c

(* An error in a row carries the line it was found in, and a value that    *)
(* does not convert its own text and the name its column has in the header. *)
(* A header with a quote that never closes has no line to name, although   *)
(* its message does.                                                       *)
ErrorsSayWhere ==
  answer.kind \in {"escaped_string_not_closed", "too_few_columns", "too_many_columns",
                   "no_digit"} =>
    /\ IF answer.line = -1
         THEN answer.kind = "escaped_string_not_closed" /\ ~header.ok
              /\ header.cells = file[file_line]
         ELSE answer.line = file_line
    /\ answer.kind = "no_digit" /\ header.ok /\ ~header.reread =>
         /\ Cell(answer.content) \in Bad /\ answer.content[1] = file_line
         /\ header.cells[answer.content[2]] = answer.column

=============================================================================
