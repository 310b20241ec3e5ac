-------------------------- MODULE CsvReaderProofs --------------------------
(***************************************************************************)
(* Whatever headers and rows a file has and in whatever order they are     *)
(* asked for: a row that is returned is set from its own line, under the   *)
(* names of the header in force; what an earlier line left behind is in    *)
(* columns that the order in force does not have; an error says where it   *)
(* was found.  Proved for every value of the constants.                    *)
(***************************************************************************)
EXTENDS CsvReader, WellFoundedInduction, TLAPS

InOrder(c) == \E k \in DOMAIN col_order : col_order[k] = c

TypesOK ==
  /\ file \in Files /\ file_line \in 0 .. Len(file)
  /\ column_names \in NameLists \cup {DefaultNames}
  /\ col_order \in Seq(Columns \cup {-1})
  /\ header \in [cells : Seq(Cells), ignored : SUBSET {"extra", "missing"},
                 ok : BOOLEAN, reread : BOOLEAN]

(* No variable is set from two columns of a line.                          *)
OrderIsOneToOne ==
  \A j, k \in DOMAIN col_order : col_order[j] = col_order[k] /\ col_order[j] # -1 => j = k

(* A header that was taken whole says of each of its columns which it is,  *)
(* and lacks none that the caller did not let be missing.                  *)
HeaderIsTheOrder ==
  header.ok =>
    /\ Len(col_order) = Len(header.cells)
    /\ \A k \in DOMAIN col_order, c \in Columns :
         col_order[k] = c <=> header.cells[k] = column_names[c]
    /\ \A c \in Columns : ~InOrder(c) => "missing" \in header.ignored

(* Over an empty row, only the columns of the order are ever filled.       *)
RestIsNull ==
  header.ok /\ ~header.reread => \A c \in Columns : ~InOrder(c) => row[c] = Null

Inv ==
  /\ TypesOK /\ OrderIsOneToOne /\ HeaderIsTheOrder /\ RestIsNull
  /\ RowsAreUnderTheirHeader /\ StaleColumnsAreNotInTheOrder /\ ErrorsSayWhere

-----------------------------------------------------------------------------
(* The operators                                                           *)

Less == {ss \in Nat \X Nat : ss[1] < ss[2]}

(* The least element of a set of natural numbers.                          *)
LEMMA Least ==
  ASSUME NEW S \in SUBSET Nat, S # {}
  PROVE  Min(S) \in S /\ \A y \in S : Min(S) <= y
<1>1. IsWellFoundedOn(Less, Nat)
  BY NatLessThanWellFounded DEF OpToRel, Less
<1>2. PICK x \in S : \A y \in S : ~(<<y, x>> \in Less)
  BY <1>1, WFMin
<1>3. ASSUME NEW y \in S PROVE x <= y
  <2>1. <<y, x>> \in Nat \X Nat /\ <<y, x>>[1] = y /\ <<y, x>>[2] = x
    OBVIOUS
  <2>2. ~(y < x)
    BY <2>1, <1>2 DEF Less
  <2> QED BY <2>2
<1> QED BY <1>3 DEF Min

LEMMA ListIs ==
  ASSUME NEW T, NEW n \in Nat, NEW f \in [1 .. n -> T]
  PROVE  f \in Seq(T) /\ Len(f) = n /\ DOMAIN f = 1 .. n
  OBVIOUS

(* Every caller's list has the columns of the reader, each under one name. *)
LEMMA NamesAre ==
  ASSUME NEW names \in NameLists \cup {DefaultNames}
  PROVE  /\ names \in Seq(Cells) /\ Len(names) = Len(DefaultNames)
         /\ Len(names) \in Nat /\ DOMAIN names = 1 .. Len(DefaultNames)
         /\ \A c, d \in DOMAIN names : names[c] = names[d] => c = d
  BY CsvReaderConstants

(* The column of a cell is the one that has its name.                      *)
LEMMA ColumnOfIs ==
  ASSUME NEW names \in NameLists \cup {DefaultNames}, NEW cell
  PROVE  /\ ColumnOf(cell, names) \in DOMAIN names \cup {-1}
         /\ \A c \in DOMAIN names : ColumnOf(cell, names) = c <=> cell = names[c]
<1> DEFINE S == {c \in DOMAIN names : names[c] = cell}
<1>1. DOMAIN names \in SUBSET Nat /\ -1 \notin DOMAIN names
  BY NamesAre
<1>2. S # {} => Min(S) \in S
  BY <1>1, Least
<1>3. \A c \in DOMAIN names : c \in S <=> names[c] = cell
  OBVIOUS
<1>4. S # {} <=> \E c \in DOMAIN names : names[c] = cell
  OBVIOUS
<1>5. ColumnOf(cell, names) = IF S # {} THEN Min(S) ELSE -1
  BY <1>4 DEF ColumnOf
<1> HIDE DEF S
<1>6. \A c, d \in DOMAIN names : names[c] = names[d] => c = d
  BY NamesAre
<1>7. CASE S # {}
  BY <1>1, <1>2, <1>3, <1>5, <1>6, <1>7 DEF S
<1>8. CASE S = {}
  BY <1>1, <1>3, <1>5, <1>8
<1> QED BY <1>7, <1>8

(* What NextData finds is a line of cells, or it is behind the last line.  *)
LEMMA NextDataIs ==
  ASSUME TypesOK
  PROVE  /\ NextData \in file_line + 1 .. Len(file) + 1 /\ Len(file) \in Nat
         /\ NextData <= Len(file) => /\ file[NextData] \in Seq(Cells)
                                     /\ Min({NextData, Len(file)}) = NextData
         /\ NextData > Len(file) => Min({NextData, Len(file)}) = Len(file)
<1>1. file \in Seq(Seq(Cells) \cup {Comment}) /\ Len(file) \in Nat /\ file_line \in Nat
      /\ file_line <= Len(file)
  BY CsvReaderConstants DEF TypesOK
<1> DEFINE S == {n \in file_line + 1 .. Len(file) + 1 :
                   n = Len(file) + 1 \/ file[n] # Comment}
<1>2. S \in SUBSET Nat /\ Len(file) + 1 \in S
  BY <1>1
<1>3. NextData \in S
  BY <1>2, Least DEF NextData
<1>4. NextData \in Nat /\ NextData \in file_line + 1 .. Len(file) + 1
  BY <1>1, <1>3
<1>5. NextData <= Len(file) => file[NextData] # Comment
  BY <1>1, <1>3, <1>4
<1>6. NextData <= Len(file) => file[NextData] \in Seq(Cells) \cup {Comment}
  BY <1>1, <1>4
<1>7. /\ Min({NextData, Len(file)}) \in {NextData, Len(file)}
      /\ \A y \in {NextData, Len(file)} : Min({NextData, Len(file)}) <= y
  BY <1>1, <1>4, Least
<1> QED BY <1>1, <1>4, <1>5, <1>6, <1>7

(* What a header line leaves in the order, up to the cell that stops it.   *)
StopOf(cells, names, ignored) ==
  Min({k \in 1 .. Len(cells) + 1 :
         k = Len(cells) + 1 \/ HeaderStops(cells, k, names, ignored)})
OrderOf(cells, names, stop) == [k \in 1 .. stop - 1 |-> ColumnOf(cells[k], names)]

LEMMA OrderIs ==
  ASSUME NEW names \in NameLists \cup {DefaultNames}, NEW cells \in Seq(Cells),
         NEW ignored, NEW stop, stop = StopOf(cells, names, ignored),
         NEW order, order = OrderOf(cells, names, stop)
  PROVE  /\ stop \in 1 .. Len(cells) + 1 /\ Len(cells) \in Nat
         /\ order \in Seq((1 .. Len(DefaultNames)) \cup {-1}) /\ Len(order) = stop - 1
         /\ \A j, k \in DOMAIN order : order[j] = order[k] /\ order[j] # -1 => j = k
         /\ \A k \in DOMAIN order, c \in 1 .. Len(DefaultNames) :
              order[k] = c <=> cells[k] = names[c]
<1> DEFINE S == {k \in 1 .. Len(cells) + 1 :
                   k = Len(cells) + 1 \/ HeaderStops(cells, k, names, ignored)}
<1>1. Len(cells) \in Nat /\ S \in SUBSET Nat /\ Len(cells) + 1 \in S
  OBVIOUS
<1>2. stop \in S /\ \A k \in S : stop <= k
  BY <1>1, Least DEF StopOf
<1>3. stop \in 1 .. Len(cells) + 1 /\ stop \in Nat
  BY <1>1, <1>2
<1>4. ASSUME NEW k \in 1 .. stop - 1
      PROVE  k \in 1 .. Len(cells) /\ ~HeaderStops(cells, k, names, ignored)
  BY <1>1, <1>2, <1>3
<1> HIDE DEF S
<1>5. ASSUME NEW k \in 1 .. stop - 1
      PROVE  /\ ColumnOf(cells[k], names) \in (1 .. Len(DefaultNames)) \cup {-1}
             /\ \A c \in 1 .. Len(DefaultNames) :
                  ColumnOf(cells[k], names) = c <=> cells[k] = names[c]
  BY NamesAre, ColumnOfIs
<1>6. DOMAIN order = 1 .. stop - 1 /\ Len(order) = stop - 1
      /\ order \in Seq((1 .. Len(DefaultNames)) \cup {-1})
  <2>1. order \in [1 .. stop - 1 -> (1 .. Len(DefaultNames)) \cup {-1}] /\ stop - 1 \in Nat
    BY <1>3, <1>5 DEF OrderOf
  <2> QED BY <2>1, ListIs
<1>7. ASSUME NEW j \in 1 .. stop - 1, NEW k \in 1 .. stop - 1, j < k,
             order[j] = order[k], order[k] # -1
      PROVE  FALSE
  <2>1. ColumnOf(cells[j], names) = order[k] /\ ColumnOf(cells[k], names) = order[k]
    BY <1>7 DEF OrderOf
  <2>2. cells[j] = cells[k]
    BY <2>1, <1>5, <1>7
  <2>3. j \in 1 .. k - 1
    BY <1>3, <1>7
  <2> QED BY <2>1, <2>2, <2>3, <1>4, <1>7 DEF HeaderStops
<1>8. \A j, k \in DOMAIN order : order[j] = order[k] /\ order[j] # -1 => j = k
  <2> SUFFICES ASSUME NEW j \in DOMAIN order, NEW k \in DOMAIN order, order[j] = order[k],
                      order[j] # -1, j # k
               PROVE  FALSE
    OBVIOUS
  <2>1. j < k \/ k < j
    BY <1>3, <1>6
  <2> QED BY <2>1, <1>6, <1>7
<1>9. \A k \in DOMAIN order, c \in 1 .. Len(DefaultNames) : order[k] = c <=> cells[k] = names[c]
  BY <1>5, <1>6 DEF OrderOf
<1> QED BY <1>1, <1>3, <1>6, <1>8, <1>9

-----------------------------------------------------------------------------
(* Every call preserves the invariant                                      *)

LEMMA InitInv == Init => Inv
<1> SUFFICES ASSUME Init PROVE Inv
  OBVIOUS
<1> DEFINE N == Len(DefaultNames)
<1>1. column_names = DefaultNames /\ Columns = 1 .. N /\ N \in Nat /\ answer = Returned("none")
      /\ col_order = [c \in 1 .. N |-> c] /\ row = [c \in 1 .. N |-> Null]
      /\ header.cells = DefaultNames /\ header.ok
  BY NamesAre DEF Init, Columns, column_count, NoRow
<1>2. col_order \in Seq(Columns \cup {-1}) /\ DOMAIN col_order = 1 .. N /\ Len(col_order) = N
  <2>1. col_order \in [1 .. N -> Columns \cup {-1}]
    BY <1>1
  <2> QED BY <2>1, <1>1
<1>3. TypesOK
  <2>1. Len(file) \in Nat
    BY CsvReaderConstants DEF Init
  <2>2. header = [cells |-> DefaultNames, ignored |-> {}, ok |-> TRUE, reread |-> FALSE]
    BY <1>1 DEF Init
  <2> QED BY <2>1, <2>2, <1>1, <1>2, NamesAre DEF Init, TypesOK
<1>4. \A c \in Columns : InOrder(c)
  BY <1>1, <1>2 DEF InOrder
<1>5. OrderIsOneToOne /\ HeaderIsTheOrder /\ RestIsNull
  <2>1. \A k \in 1 .. N, c \in 1 .. N : k = c <=> DefaultNames[k] = DefaultNames[c]
    BY NamesAre
  <2>2. OrderIsOneToOne
    BY <1>1, <1>2 DEF OrderIsOneToOne
  <2>3. HeaderIsTheOrder
    BY <1>1, <1>2, <1>4, <2>1, NamesAre DEF HeaderIsTheOrder
  <2> QED BY <1>4, <2>2, <2>3 DEF RestIsNull
<1>6. RowsAreUnderTheirHeader /\ StaleColumnsAreNotInTheOrder /\ ErrorsSayWhere
  BY <1>1 DEF RowsAreUnderTheirHeader, StaleColumnsAreNotInTheOrder, ErrorsSayWhere, Returned
<1> QED BY <1>3, <1>5, <1>6 DEF Inv

LEMMA SetHeaderStep ==
  ASSUME Inv, NEW names \in NameLists, SetHeader(names)
  PROVE  Inv'
<1> DEFINE N == Len(DefaultNames)
<1>1. Columns = 1 .. N /\ N \in Nat /\ Columns' = 1 .. N /\ column_names' = names
  BY NamesAre DEF Inv, TypesOK, SetHeader, Columns, column_count
<1>2. /\ col_order' = [c \in 1 .. N |-> c] /\ row' = [c \in 1 .. N |-> Null]
      /\ header'.cells = names /\ header'.ok /\ answer' = Returned("none")
  BY <1>1 DEF SetHeader, NoRow
<1>3. col_order' \in Seq(Columns' \cup {-1}) /\ DOMAIN col_order' = 1 .. N /\ Len(col_order') = N
  <2>1. col_order' \in [1 .. N -> Columns' \cup {-1}]
    BY <1>1, <1>2
  <2> QED BY <2>1, <1>1, ListIs
<1>4. TypesOK'
  <2>1. header' = [cells |-> names, ignored |-> {}, ok |-> TRUE, reread |-> FALSE]
        /\ names \in Seq(Cells)
    BY NamesAre DEF SetHeader
  <2> QED BY <2>1, <1>1, <1>3 DEF Inv, TypesOK, SetHeader, Call
<1>5. \A c \in Columns' : InOrder(c)'
  BY <1>1, <1>2, <1>3 DEF InOrder
<1>6. \A k \in 1 .. N, c \in 1 .. N : k = c <=> names[k] = names[c]
  BY NamesAre
<1>7. OrderIsOneToOne'
  BY <1>2, <1>3 DEF OrderIsOneToOne
<1>8. HeaderIsTheOrder'
  BY <1>1, <1>2, <1>3, <1>5, <1>6, NamesAre DEF HeaderIsTheOrder
<1>9. RestIsNull'
  BY <1>5 DEF RestIsNull
<1>10. (RowsAreUnderTheirHeader /\ StaleColumnsAreNotInTheOrder /\ ErrorsSayWhere)'
  BY <1>2 DEF RowsAreUnderTheirHeader, StaleColumnsAreNotInTheOrder, ErrorsSayWhere, Returned
<1> QED BY <1>4, <1>7, <1>8, <1>9, <1>10 DEF Inv

LEMMA ReadHeaderStep ==
  ASSUME Inv, NEW names \in NameLists, NEW ignored \in SUBSET {"extra", "missing"},
         ReadHeader(names, ignored)
  PROVE  Inv'
<1> DEFINE N       == Len(DefaultNames)
           n       == NextData
           cells   == file[n]
           stop    == StopOf(cells, names, ignored)
           missing == {c \in DOMAIN names : \A k \in DOMAIN cells : cells[k] # names[c]}
           result  == IF stop <= Len(cells) THEN HeaderError(cells, stop, names)
                      ELSE IF missing # {} /\ "missing" \notin ignored
                        THEN [Returned("missing_column_in_header")
                                EXCEPT !.column = names[Min(missing)]]
                      ELSE Returned("none")
<1>1. Columns = 1 .. N /\ N \in Nat /\ Columns' = 1 .. N /\ column_names' = names
      /\ names \in Seq(Cells) /\ DOMAIN names = 1 .. N
  BY NamesAre DEF Inv, TypesOK, ReadHeader, Columns, column_count
<1>2. /\ file' = file /\ row' = row /\ cols' = cols
      /\ file_line' = Min({n, Len(file)})
      /\ n > Len(file) => /\ answer' = Returned("header_missing") /\ col_order' = col_order
                          /\ header' = [header EXCEPT !.ok = FALSE, !.reread = TRUE]
      /\ n <= Len(file) =>
           /\ col_order' = OrderOf(cells, names, stop)
           /\ answer' = result
           /\ header' = [cells |-> cells, ignored |-> ignored,
                         ok |-> result.kind = "none", reread |-> row # NoRow]
  <2>1. n \in Int /\ Len(file) \in Int
    BY NextDataIs DEF Inv
  <2> QED BY <2>1 DEF ReadHeader, Call, Take, StopOf, OrderOf
<1>3. /\ n \in file_line + 1 .. Len(file) + 1 /\ Len(file) \in Nat
      /\ n <= Len(file) => cells \in Seq(Cells) /\ file_line' = n
      /\ n > Len(file) => file_line' = Len(file)
  BY <1>2, NextDataIs DEF Inv
<1>4. file_line' \in 0 .. Len(file) /\ file_line' \in Nat
  <2>1. file_line \in Nat
    BY <1>3 DEF Inv, TypesOK
  <2> QED BY <2>1, <1>3
<1> HIDE DEF n
<1>5. answer'.kind # "row"
  <2>1. n <= Len(file) => result.kind # "row"
    BY DEF HeaderError, Returned
  <2> HIDE DEF result
  <2>2. n <= Len(file) \/ n > Len(file)
    BY <1>3
  <2> QED BY <2>1, <2>2, <1>2 DEF Returned
<1>6. CASE n > Len(file)
  <2>1. ~header'.ok /\ col_order' = col_order /\ answer'.kind = "header_missing"
    <3>1. header'.ok = FALSE
      BY <1>2, <1>6 DEF Inv, TypesOK
    <3> QED BY <3>1, <1>2, <1>6 DEF Returned
  <2>2. header' = [header EXCEPT !.ok = FALSE, !.reread = TRUE]
    BY <1>2, <1>6
  <2>3. TypesOK' /\ OrderIsOneToOne'
    BY <2>1, <2>2, <1>1, <1>2, <1>4 DEF Inv, TypesOK, OrderIsOneToOne
  <2> QED BY <2>1, <2>3 DEF Inv, HeaderIsTheOrder, RestIsNull, RowsAreUnderTheirHeader,
                            StaleColumnsAreNotInTheOrder, ErrorsSayWhere
<1>7. CASE n <= Len(file)
  <2>1. /\ cells \in Seq(Cells) /\ Len(cells) \in Nat /\ DOMAIN cells = 1 .. Len(cells)
        /\ stop \in 1 .. Len(cells) + 1
        /\ col_order' \in Seq((1 .. N) \cup {-1}) /\ Len(col_order') = stop - 1
        /\ \A j, k \in DOMAIN col_order' :
             col_order'[j] = col_order'[k] /\ col_order'[j] # -1 => j = k
        /\ \A k \in DOMAIN col_order', c \in 1 .. N :
             col_order'[k] = c <=> cells[k] = names[c]
    <3> DEFINE order == OrderOf(cells, names, stop)
    <3>1. col_order' = order
      BY <1>2, <1>7
    <3>2. cells \in Seq(Cells) /\ names \in NameLists \cup {DefaultNames}
      BY <1>3, <1>7
    <3> HIDE DEF cells
    <3>3. /\ stop \in 1 .. Len(cells) + 1 /\ Len(cells) \in Nat
          /\ order \in Seq((1 .. N) \cup {-1}) /\ Len(order) = stop - 1
          /\ \A j, k \in DOMAIN order : order[j] = order[k] /\ order[j] # -1 => j = k
          /\ \A k \in DOMAIN order, c \in 1 .. N : order[k] = c <=> cells[k] = names[c]
      BY <3>2, OrderIs
    <3> HIDE DEF order, stop, result, missing
    <3> QED BY <3>1, <3>2, <3>3
  <2>2. TypesOK' /\ OrderIsOneToOne'
    <3>1. header' = [cells |-> cells, ignored |-> ignored,
                     ok |-> result.kind = "none", reread |-> row # NoRow]
      BY <1>2, <1>7
    <3>2. header' \in [cells : Seq(Cells), ignored : SUBSET {"extra", "missing"},
                       ok : BOOLEAN, reread : BOOLEAN]
      BY <3>1, <2>1
    <3> HIDE DEF stop, result, missing
    <3> QED BY <3>2, <2>1, <1>1, <1>2, <1>4 DEF Inv, TypesOK, OrderIsOneToOne
  <2>3. /\ header'.cells = cells /\ header'.ignored = ignored
        /\ header'.ok <=> (result.kind = "none")
        /\ header'.reread <=> (row # NoRow)
    <3>1. header' = [cells |-> cells, ignored |-> ignored,
                     ok |-> result.kind = "none", reread |-> row # NoRow]
      BY <1>2, <1>7
    <3> HIDE DEF cells, result
    <3> QED BY <3>1
  <2>4. header'.ok => stop = Len(cells) + 1 /\ (missing = {} \/ "missing" \in ignored)
    <3>1. stop <= Len(cells) => result.kind # "none"
      BY DEF HeaderError, Returned
    <3>2. stop > Len(cells) /\ missing # {} /\ "missing" \notin ignored => result.kind # "none"
      BY <2>1 DEF Returned
    <3> HIDE DEF stop, missing, result
    <3> QED BY <3>1, <3>2, <2>1, <2>3
  <2>5. DOMAIN col_order' = 1 .. stop - 1
    BY <2>1
  <2>6. HeaderIsTheOrder'
    <3> SUFFICES ASSUME header'.ok
                 PROVE  \A c \in 1 .. N : ~InOrder(c)' => "missing" \in ignored
      BY <2>1, <2>3, <2>4, <1>1, <1>2 DEF HeaderIsTheOrder
    <3> SUFFICES ASSUME NEW c \in 1 .. N, ~InOrder(c)', "missing" \notin ignored
                 PROVE  FALSE
      OBVIOUS
    <3>1. PICK k \in DOMAIN cells : cells[k] = names[c]
      BY <2>4, <1>1
    <3>2. k \in DOMAIN col_order'
      BY <2>1, <2>4, <2>5
    <3> QED BY <3>1, <3>2, <2>1 DEF InOrder
  <2>7. RestIsNull'
    <3>1. ~header'.reread => row' = NoRow
      BY <2>3, <1>2
    <3> QED BY <3>1, <1>1 DEF RestIsNull, NoRow
  <2>8. ErrorsSayWhere'
    <3>1. answer' = result /\ file'[file_line'] = cells
      BY <1>2, <1>3, <1>7
    <3>2. answer'.line = -1 /\ answer'.kind \notin {"too_few_columns", "too_many_columns",
                                                    "no_digit"}
      BY <3>1 DEF HeaderError, Returned
    <3>3. answer'.kind = "escaped_string_not_closed" => ~header'.ok
      BY <3>1, <2>3
    <3> HIDE DEF result, cells
    <3> QED BY <3>1, <3>2, <3>3, <2>3 DEF ErrorsSayWhere
  <2> QED BY <2>2, <2>6, <2>7, <2>8, <1>5
        DEF Inv, RowsAreUnderTheirHeader, StaleColumnsAreNotInTheOrder
<1> QED BY <1>3, <1>6, <1>7

(* Where a line is cut off, and what that says of its cells.               *)
LEMMA CutIs ==
  ASSUME TypesOK, NEW cells \in Seq(Cells), NEW k, k = CutBefore(cells)
  PROVE  /\ k \in 1 .. Len(col_order) + 1
         /\ DOMAIN col_order = 1 .. Len(col_order) /\ Len(col_order) \in Nat
         /\ CutError(cells, k) = "none" => k = Len(col_order) + 1
         /\ CutError(cells, k) \in {"none", "escaped_string_not_closed", "too_few_columns",
                                    "too_many_columns"}
<1> DEFINE S == {j \in 1 .. Len(col_order) + 1 :
                   \/ j = Len(col_order) + 1 \/ j > Len(cells) \/ cells[j] = Unclosed}
<1>1. Len(col_order) \in Nat /\ DOMAIN col_order = 1 .. Len(col_order) /\ S \in SUBSET Nat
      /\ Len(col_order) + 1 \in S
  BY DEF TypesOK
<1>2. k \in S
  BY <1>1, Least DEF CutBefore
<1>3. k \in 1 .. Len(col_order) + 1
  BY <1>2
<1> QED BY <1>1, <1>3 DEF CutError

(* Cutting a row sets the columns of the order from their places in it.    *)
LEMMA RowIs ==
  ASSUME TypesOK, NEW n, NEW k \in 1 .. Len(col_order) + 1, NEW c \in Columns
  PROVE  /\ (\A j \in 1 .. k - 1 : col_order[j] # c) => CutRow(n, k)[c] = row[c]
         /\ (\E j \in 1 .. k - 1 : col_order[j] = c) =>
              \E j \in 1 .. k - 1 : col_order[j] = c /\ CutRow(n, k)[c] = <<n, j>>
  BY DEF CutRow

LEMMA ReadRowStep ==
  ASSUME Inv, ReadRow
  PROVE  Inv'
<1> DEFINE n     == NextData
           cells == file[n]
           k     == CutBefore(cells)
<1>1. /\ UNCHANGED <<file, column_names, col_order, header>>
      /\ Columns' = Columns /\ \A c \in Columns : InOrder(c)' <=> InOrder(c)
  BY DEF ReadRow, Call, Columns, column_count, InOrder
<1>2. /\ n \in file_line + 1 .. Len(file) + 1 /\ Len(file) \in Nat /\ n \in Nat \ {0}
      /\ n <= Len(file) => cells \in Seq(Cells) /\ file_line' = n
      /\ n > Len(file) => file_line' = Len(file)
      /\ file_line' \in 0 .. Len(file) /\ file_line' \in Nat
  <2>1. file_line \in Nat
    BY NextDataIs DEF Inv, TypesOK
  <2>2. file_line' = Min({n, Len(file)})
    BY DEF ReadRow, Take
  <2> QED BY <2>1, <2>2, NextDataIs DEF Inv
<1>3. /\ n > Len(file) => answer' = Returned("end") /\ row' = row
      /\ n <= Len(file) => /\ row' = CutRow(n, k)
                           /\ IF CutError(cells, k) = "none" THEN Convert
                              ELSE answer' = WithLine(CutError(cells, k))
  BY <1>2 DEF ReadRow
<1>4. TypesOK' /\ OrderIsOneToOne' /\ HeaderIsTheOrder'
  BY <1>1, <1>2 DEF Inv, TypesOK, OrderIsOneToOne, HeaderIsTheOrder
<1> HIDE DEF n, k
<1>5. CASE n > Len(file)
  <2>1. row' = row /\ answer'.kind = "end"
    BY <1>3, <1>5 DEF Returned
  <2> QED BY <2>1, <1>1, <1>4 DEF Inv, RestIsNull, RowsAreUnderTheirHeader,
                                  StaleColumnsAreNotInTheOrder, ErrorsSayWhere
<1>6. CASE n <= Len(file)
  <2>1. /\ k \in 1 .. Len(col_order) + 1
        /\ DOMAIN col_order = 1 .. Len(col_order) /\ Len(col_order) \in Nat
        /\ CutError(cells, k) = "none" => k = Len(col_order) + 1
        /\ CutError(cells, k) \in {"none", "escaped_string_not_closed", "too_few_columns",
                                   "too_many_columns"}
    BY <1>2, <1>6, CutIs DEF Inv, k
  <2>2. ASSUME NEW c \in Columns
        PROVE  /\ ~InOrder(c) => row'[c] = row[c]
               /\ (\E j \in 1 .. k - 1 : col_order[j] = c) =>
                    \E j \in 1 .. k - 1 : col_order[j] = c /\ row'[c] = <<n, j>>
    BY <2>1, <1>3, <1>6, RowIs DEF Inv, InOrder
  <2>3. RestIsNull'
    BY <2>2, <1>1 DEF Inv, RestIsNull
  <2>4. CASE CutError(cells, k) # "none"
    <3>1. answer'.kind = CutError(cells, k) /\ answer'.line = file_line'
      BY <2>4, <1>3, <1>6 DEF WithLine, Returned
    <3>2. answer'.kind \notin {"row", "no_digit"} /\ answer'.line # -1
      BY <3>1, <2>1, <2>4, <1>2
    <3> QED BY <3>1, <3>2, <2>3, <1>4
          DEF Inv, RowsAreUnderTheirHeader, StaleColumnsAreNotInTheOrder, ErrorsSayWhere
  <2>5. CASE CutError(cells, k) = "none"
    <3> DEFINE bad  == {c \in Columns : row'[c] # Null /\ Cell(row'[c]) \in Bad}
               last == IF bad = {} THEN column_count + 1 ELSE Min(bad)
    <3>1. /\ cols' = [c \in Columns |->
                        IF c < last /\ row'[c] # Null THEN row'[c] ELSE cols[c]]
          /\ answer' = IF bad = {} THEN Returned("row")
                       ELSE [WithLine("no_digit") EXCEPT
                               !.column = column_names[last], !.content = row'[last]]
      BY <2>5, <1>3, <1>6 DEF Convert
    <3>2. ASSUME NEW c \in Columns, InOrder(c)
          PROVE  \E j \in DOMAIN col_order :
                   col_order[j] = c /\ row'[c] = <<n, j>> /\ row'[c] # Null /\ row'[c][1] = n
      <4>1. k - 1 = Len(col_order)
        BY <2>1, <2>5
      <4>2. PICK j \in DOMAIN col_order : col_order[j] = c /\ row'[c] = <<n, j>>
        BY <4>1, <3>2, <2>1, <2>2 DEF InOrder
      <4>3. n # 0
        BY <1>2
      <4> QED BY <4>2, <4>3 DEF Null
    <3>3. StaleColumnsAreNotInTheOrder'
      BY <3>2, <1>1, <1>2, <1>6 DEF StaleColumnsAreNotInTheOrder, InOrder
    <3>4. RowsAreUnderTheirHeader'
      <4> SUFFICES ASSUME answer'.kind = "row", header.ok, ~header.reread, NEW c \in Columns
                   PROVE  IF has_column(column_names[c])
                            THEN cols'[c][1] = n /\ header.cells[cols'[c][2]] = column_names[c]
                            ELSE /\ "missing" \in header.ignored /\ row'[c] = Null
                                 /\ \A j \in DOMAIN header.cells :
                                      header.cells[j] # column_names[c]
        BY <1>1, <1>2, <1>6 DEF RowsAreUnderTheirHeader, has_column
      <4>1. bad = {}
        BY <3>1 DEF WithLine, Returned
      <4>2. cols'[c] = IF row'[c] # Null THEN row'[c] ELSE cols[c]
        <5>1. c < column_count + 1
          BY NamesAre DEF Columns, column_count, Inv, TypesOK
        <5> QED BY <5>1, <4>1, <3>1
      <4>3. has_column(column_names[c]) <=> InOrder(c)
        <5>1. \A d \in Columns : column_names[d] = column_names[c] => d = c
          BY NamesAre DEF Inv, TypesOK, Columns, column_count
        <5>2. \A j \in DOMAIN col_order : col_order[j] \in Columns \cup {-1}
          BY DEF Inv, TypesOK
        <5>3. -1 \notin Columns
          BY NamesAre DEF Inv, TypesOK, Columns, column_count
        <5> QED BY <5>1, <5>2, <5>3 DEF has_column, InOrder
      <4>4. CASE InOrder(c)
        <5>1. PICK j \in DOMAIN col_order : /\ col_order[j] = c /\ row'[c] = <<n, j>>
                                            /\ row'[c] # Null
          BY <4>4, <3>2
        <5>2. header.cells[j] = column_names[c]
          BY <5>1 DEF Inv, HeaderIsTheOrder
        <5> QED BY <5>1, <5>2, <4>2, <4>3, <4>4
      <4>5. CASE ~InOrder(c)
        <5>1. "missing" \in header.ignored /\ row'[c] = Null
          BY <4>5, <2>2 DEF Inv, HeaderIsTheOrder, RestIsNull
        <5>2. ASSUME NEW j \in DOMAIN header.cells, header.cells[j] = column_names[c]
              PROVE  FALSE
          <6>1. header.cells \in Seq(Cells) /\ Len(col_order) = Len(header.cells)
            BY DEF Inv, TypesOK, HeaderIsTheOrder
          <6>2. j \in DOMAIN col_order
            BY <6>1, <5>2, <2>1
          <6> QED BY <6>2, <5>2, <4>5 DEF Inv, HeaderIsTheOrder, InOrder
        <5> QED BY <5>1, <5>2, <4>3, <4>5
      <4> QED BY <4>4, <4>5
    <3>5. ErrorsSayWhere'
      <4>1. CASE bad = {}
        BY <4>1, <3>1 DEF ErrorsSayWhere, Returned
      <4>2. CASE bad # {}
        <5>1. bad \in SUBSET Nat
          BY NamesAre DEF Inv, TypesOK, Columns, column_count
        <5>2. last \in bad
          BY <5>1, <4>2, Least
        <5>3. last \in Columns /\ row'[last] # Null /\ Cell(row'[last]) \in Bad
          BY <5>2
        <5>4. /\ answer'.kind = "no_digit" /\ answer'.line = n
              /\ answer'.column = column_names[last] /\ answer'.content = row'[last]
          BY <4>2, <3>1, <1>2, <1>6 DEF WithLine, Returned
        <5> HIDE DEF last, bad
        <5>5. ASSUME header.ok, ~header.reread
              PROVE  row'[last][1] = n /\ header.cells[row'[last][2]] = column_names[last]
          <6>1. InOrder(last)
            BY <5>3, <5>5, <2>2 DEF Inv, RestIsNull
          <6>2. PICK j \in DOMAIN col_order : col_order[j] = last /\ row'[last] = <<n, j>>
            BY <6>1, <5>3, <3>2
          <6> QED BY <6>2, <5>3, <5>5 DEF Inv, HeaderIsTheOrder
        <5> QED BY <5>3, <5>4, <5>5, <1>1, <1>2, <1>6 DEF ErrorsSayWhere, Cell
      <4> QED BY <4>1, <4>2
    <3> QED BY <3>3, <3>4, <3>5, <2>3, <1>4 DEF Inv
  <2> QED BY <2>4, <2>5
<1> QED BY <1>2, <1>5, <1>6

LEMMA SkipLineStep ==
  ASSUME Inv, SkipLine
  PROVE  Inv'
<1>1. /\ UNCHANGED <<file, column_names, col_order, row, cols, header>>
      /\ answer'.kind = "line" /\ file_line' = Min({file_line + 1, Len(file)})
  BY DEF SkipLine, Call, Take, Returned
<1>2. Len(file) \in Nat /\ file_line \in Nat /\ file_line < Len(file)
  BY NextDataIs DEF Inv, TypesOK, SkipLine
<1>3. file_line' \in 0 .. Len(file)
  <2>1. file_line' \in {file_line + 1, Len(file)}
    BY <1>1, <1>2, Least
  <2> QED BY <2>1, <1>2
<1>4. TypesOK'
  BY <1>1, <1>3 DEF Inv, TypesOK, Columns, column_count
<1>5. OrderIsOneToOne' /\ HeaderIsTheOrder' /\ RestIsNull'
  BY <1>1 DEF Inv, OrderIsOneToOne, HeaderIsTheOrder, RestIsNull, InOrder, Columns, column_count
<1> QED BY <1>1, <1>4, <1>5
      DEF Inv, RowsAreUnderTheirHeader, StaleColumnsAreNotInTheOrder, ErrorsSayWhere

-----------------------------------------------------------------------------
(* The theorems                                                            *)

(* The invariant of the reader: its order says of each column of the       *)
(* header in force which variable it is for.                               *)
THEOREM Invariance == Spec => []Inv
<1>1. Inv /\ [Next]_vars => Inv'
  <2> SUFFICES ASSUME Inv, [Next]_vars PROVE Inv'
    OBVIOUS
  <2>1. CASE UNCHANGED vars
    BY <2>1 DEF Inv, TypesOK, OrderIsOneToOne, HeaderIsTheOrder, RestIsNull, InOrder, Columns,
                column_count, RowsAreUnderTheirHeader, StaleColumnsAreNotInTheOrder,
                ErrorsSayWhere, has_column, Cell, vars
  <2>2. CASE Next
    BY <2>2, SetHeaderStep, ReadHeaderStep, ReadRowStep, SkipLineStep DEF Next
  <2> QED BY <2>1, <2>2
<1> QED BY InitInv, <1>1, PTL DEF Spec

(* read_row() after any calls: every variable is set from the row's own    *)
(* line and from the column that has its name in the header in force, or   *)
(* kept because the caller let that column be missing.                     *)
THEOREM RowsCorrect == Spec => []RowsAreUnderTheirHeader
<1>1. Inv => RowsAreUnderTheirHeader
  BY DEF Inv
<1> QED BY Invariance, <1>1, PTL

(* What parse_line leaves of an earlier line in a row it returned is in no *)
(* column of the order in force, header thrown or read over a row or not.  *)
THEOREM StaleCorrect == Spec => []StaleColumnsAreNotInTheOrder
<1>1. Inv => StaleColumnsAreNotInTheOrder
  BY DEF Inv
<1> QED BY Invariance, <1>1, PTL

(* The exceptions of read_row() name the line and column they are about;   *)
(* one of read_header() has no line.                                       *)
THEOREM ErrorsCorrect == Spec => []ErrorsSayWhere
<1>1. Inv => ErrorsSayWhere
  BY DEF Inv
<1> QED BY Invariance, <1>1, PTL
=============================================================================
