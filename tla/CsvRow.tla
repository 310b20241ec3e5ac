------------------------------- MODULE CsvRow -------------------------------
(***************************************************************************)
(* CSVReader::read_row() on one line (csv.h): parse_line cuts the line     *)
(* into columns, parse_helper converts each into the variable the caller   *)
(* gave for it.  One action per round of a loop of the code.  A char is a  *)
(* one-letter string and a char* its rest up to the NUL; an integer has    *)
(* the 8 bits of a char.  A float is finite, inf or nan; a finite one is a *)
(* mantissa of any digits and a decimal exponent, without the rounding,    *)
(* and what is beyond the powers of ten of a float is inf or 0.            *)
(***************************************************************************)
EXTENDS Integers, SequencesExt, FiniteSetsExt

CONSTANTS
  Letters,      (* the characters of a text                                *)
  Jobs,         (* what is read: see Init                                  *)
  MaxPower      (* a float is less than ten times 10^MaxPower, and one that *)
                (* is not 0 is no less than 10^-MaxPower                   *)

VARIABLES
  fields,       (* history: the texts that were written, with their quoting *)
  escape,       (* double_quote_escape, or no_quote_escape                 *)
  overflow,     (* throw_on_overflow, ignore_overflow, set_to_max_on_overflow *)
  col_order, types,
  pc, line, i,  (* parse_line: the rest of the line, the column it is at   *)
  row,          (* CSVReader::row                                          *)
  r, col,       (* parse_helper: the column, what is left of its text      *)
  x, neg, then, (* the integer being read, and what it is read for         *)
  form, mantissa, scale, size, (* parse_float: x, if finite an integer of  *)
                (* so many digits times a power of ten                     *)
  exponent, e, base, (* the exponent, the power of ten base stands for     *)
  cols, error   (* the caller's variables, the exception thrown            *)

inputs == <<fields, escape, overflow, col_order, types>>
cut    == <<line, i, row>>
int    == <<x, neg, then>>
decimal == <<form, mantissa, scale, size>>
raised == <<exponent, e, base>>
float  == <<decimal, raised>>
vars   == <<inputs, pc, cut, r, col, int, float, cols, error>>

Sep == ","  Quote == "'"  Blank == " "  Null == <<"null">>  Untouched == <<>>
DigitOf == [c \in {"0", "1", "2", "3", "4", "5", "6", "7", "8", "9"} |->
  CASE c = "0" -> 0 [] c = "1" -> 1 [] c = "2" -> 2 [] c = "3" -> 3 [] c = "4" -> 4
    [] c = "5" -> 5 [] c = "6" -> 6 [] c = "7" -> 7 [] c = "8" -> 8 [] c = "9" -> 9]
Digits == DOMAIN DigitOf
Points == {".", ","}
At(s, n) == IF n \in DOMAIN s THEN s[n] ELSE "NUL"
Types == {"text", "char", "unsigned", "signed", "float"}

(* A line has a column; no two columns have the same place in the order.   *)
ASSUME RowConstants ==
  /\ MaxPower \in Nat /\ {Sep, Quote, Blank} \subseteq Letters
  /\ {"null", "NUL"} \cap Letters = {}
  /\ \A job \in Jobs :
       /\ job.fields \in Seq([text : Seq(Letters), quoted : BOOLEAN, padded : BOOLEAN])
       /\ job.fields # <<>> /\ job.escape \in BOOLEAN
       /\ job.overflow \in {"throw", "ignore", "max"} /\ job.types \in Seq(Types)
       /\ job.order \in Seq(DOMAIN job.types \cup {-1})
       /\ \A j, k \in DOMAIN job.order :
            job.order[j] = job.order[k] /\ job.order[j] # -1 => j = k

-----------------------------------------------------------------------------
(* A field as it is written: bare, or in quotes with its quotes doubled,   *)
(* perhaps with blanks around it.                                          *)
Written(f) ==
  LET text == IF f.quoted
                THEN <<Quote>> \o FlattenSeq([n \in DOMAIN f.text |->
                       IF f.text[n] = Quote THEN <<Quote, Quote>> ELSE <<f.text[n]>>])
                     \o <<Quote>>
                ELSE f.text
  IN  IF f.padded THEN <<Blank>> \o text \o <<Blank, Blank>> ELSE text

WrittenLine(fs) ==
  FlattenSeq([n \in DOMAIN fs |->
                IF n = 1 THEN Written(fs[n]) ELSE <<Sep>> \o Written(fs[n])])

Init ==
  /\ \E job \in Jobs :
       /\ fields = job.fields /\ escape = job.escape /\ overflow = job.overflow
       /\ col_order = job.order /\ types = job.types
  /\ pc = "cut" /\ line = WrittenLine(fields) /\ i = 1
  /\ row = [n \in DOMAIN types |-> Null]
  /\ r = 1 /\ col = <<>> /\ x = 0 /\ neg = FALSE /\ then = "assign"
  /\ form = "finite" /\ mantissa = 0 /\ scale = 0 /\ size = 0
  /\ exponent = 0 /\ e = 0 /\ base = 0
  /\ cols = [n \in DOMAIN types |-> Untouched] /\ error = "none"

Throw(kind) == error' = kind /\ pc' = "thrown"

-----------------------------------------------------------------------------
(* Cutting the line                                                        *)

(* In double_quote_escape the scan is inside quotes after an odd number of *)
(* them, wherever they stand; a doubled quote leaves and enters again.     *)
Inside(s, n) == escape /\ Cardinality({k \in 1 .. n - 1 : s[k] = Quote}) % 2 = 1

NextColumnEnd(s) ==
  Min({n \in 1 .. Len(s) + 1 : n = Len(s) + 1 \/ (s[n] = Sep /\ ~Inside(s, n))})

Trim(s) ==
  LET kept == {n \in DOMAIN s : s[n] # Blank}
  IN  IF kept = {} THEN <<>> ELSE SubSeq(s, Min(kept), Max(kept))

UnescapeNot(s) == s

(* Between the outer quotes each pair of quotes becomes one, from the left. *)
Unescape(s) ==
  LET inner   == SubSeq(s, 2, Len(s) - 1)
      from(n) == Min({k \in 1 .. n : \A j \in k .. n : inner[j] = Quote})
      kept    == {n \in DOMAIN inner :
                    inner[n] = Quote => (n - from(n)) % 2 = 0}
  IN  IF escape /\ Len(s) >= 2 /\ s[1] = Quote /\ s[Len(s)] = Quote
        THEN FlattenSeq([n \in DOMAIN inner |-> IF n \in kept THEN <<inner[n]>> ELSE <<>>])
        ELSE s

CutColumn ==
  /\ pc = "cut" /\ i <= Len(col_order)
  /\ IF line = Null THEN Throw("too_few_columns") /\ UNCHANGED cut
     ELSE LET end == NextColumnEnd(line)
          IN  IF Inside(line, end)
                THEN Throw("escaped_string_not_closed") /\ UNCHANGED cut
                ELSE /\ line' = IF end > Len(line) THEN Null
                                ELSE SubSeq(line, end + 1, Len(line))
                     /\ row' = IF col_order[i] = -1 THEN row
                               ELSE [row EXCEPT ![col_order[i]] =
                                       Unescape(Trim(SubSeq(line, 1, end - 1)))]
                     /\ i' = i + 1 /\ UNCHANGED <<pc, error>>
  /\ UNCHANGED <<inputs, r, col, int, float, cols>>

CutDone ==
  /\ pc = "cut" /\ i > Len(col_order)
  /\ IF line # Null THEN Throw("too_many_columns") ELSE pc' = "next" /\ UNCHANGED error
  /\ UNCHANGED <<inputs, cut, r, col, int, float, cols>>

-----------------------------------------------------------------------------
(* Converting the columns                                                  *)

AssignNothing(value) == r' = r + 1 /\ pc' = "next" /\ UNCHANGED cols

Assign(value) == cols' = [cols EXCEPT ![r] = <<value>>] /\ r' = r + 1 /\ pc' = "next"

(* The converters write the caller's variable as they go.                  *)
Abandon(kind, value) ==
  Throw(kind) /\ cols' = [cols EXCEPT ![r] = <<value>>] /\ UNCHANGED r

(* A column without text (not in the header) keeps the caller's value.     *)
SkipColumn ==
  /\ pc = "next" /\ r <= Len(types) /\ row[r] = Null /\ r' = r + 1
  /\ UNCHANGED <<inputs, pc, cut, col, int, float, cols, error>>

TakeText ==
  /\ pc = "next" /\ r <= Len(types) /\ row[r] # Null
  /\ \/ types[r] = "text" /\ Assign(row[r]) /\ UNCHANGED error
     \/ /\ types[r] = "char"
        /\ IF Len(row[r]) = 1 THEN Assign(row[r][1]) /\ UNCHANGED error
           ELSE IF row[r] # <<>> THEN Abandon("invalid_single_character", row[r][1])
           ELSE Throw("invalid_single_character") /\ UNCHANGED <<cols, r>>
  /\ UNCHANGED <<inputs, cut, col, int, float>>

(* The sign, where the type has one, before the digits.                    *)
StartNumber ==
  LET sign == types[r] # "unsigned" /\ row[r] # <<>> /\ Head(row[r]) \in {"-", "+"}
  IN  /\ pc = "next" /\ r <= Len(types) /\ row[r] # Null
      /\ types[r] \in {"unsigned", "signed", "float"}
      /\ col' = IF sign THEN Tail(row[r]) ELSE row[r]
      /\ neg' = (sign /\ Head(row[r]) = "-")
      /\ x' = 0 /\ then' = "assign"
      /\ form' = "finite" /\ mantissa' = 0 /\ scale' = 0 /\ size' = 0
      /\ pc' = IF types[r] = "float" THEN "whole" ELSE "digits"
      /\ UNCHANGED <<inputs, cut, r, raised, cols, error>>

TypeMax == IF types[r] = "unsigned" THEN 255 ELSE 127
TypeMinSymmetric == IF types[r] = "unsigned" THEN 0 ELSE -127

TypeMin == IF types[r] = "unsigned" THEN 0 ELSE -128

(* The tests of parse_unsigned_integer and parse_signed_integer, whose     *)
(* division cuts towards zero.                                             *)
Overflows(y) ==
  IF neg THEN x < -((-(TypeMin + y)) \div 10) ELSE x > (TypeMax - y) \div 10

Digit ==
  LET y == DigitOf[Head(col)]
  IN  /\ pc = "digits" /\ col # <<>> /\ Head(col) \in Digits /\ ~Overflows(y)
      /\ x' = IF neg THEN 10 * x - y ELSE 10 * x + y
      /\ col' = Tail(col)
      /\ UNCHANGED <<inputs, pc, cut, r, neg, then, float, cols, error>>

(* on_overflow() and on_underflow(); an exponent is read with              *)
(* set_to_max_on_overflow whatever the policy.                             *)
Overflow ==
  LET policy == IF then = "power" THEN "max" ELSE overflow
  IN  /\ pc = "digits" /\ col # <<>> /\ Head(col) \in Digits
      /\ Overflows(DigitOf[Head(col)])
      /\ IF policy = "throw"
           THEN /\ Abandon(IF neg THEN "integer_underflow" ELSE "integer_overflow", x)
                /\ UNCHANGED x
           ELSE /\ x' = IF policy = "ignore" THEN x ELSE IF neg THEN TypeMin ELSE TypeMax
                /\ pc' = then /\ UNCHANGED <<r, cols, error>>
      /\ UNCHANGED <<inputs, cut, col, neg, then, float>>

(* The value of a float.                                                   *)
Zero == <<"finite", 0, 0>>  Inf == <<"inf", 1, 0>>  NaN == <<"nan", 0, 0>>
Float(f, m, p) ==
  IF f = "nan" THEN NaN ELSE IF f = "inf" THEN Inf ELSE IF m = 0 THEN Zero ELSE <<f, m, p>>

EndDigits ==
  /\ pc = "digits"
  /\ IF col = <<>> THEN pc' = then /\ UNCHANGED <<r, cols, error>>
     ELSE /\ Head(col) \notin Digits
          /\ Abandon("no_digit", IF then = "power" THEN Float(form, mantissa, scale) ELSE x)
  /\ UNCHANGED <<inputs, cut, col, int, float>>

AssignInteger ==
  /\ pc = "assign" /\ Assign(x)
  /\ UNCHANGED <<inputs, cut, col, int, float, error>>

(* Digits before and after the decimal point; the ones behind it count as  *)
(* long as the power of ten they stand at is not 0.                        *)
FloatDigit ==
  /\ pc \in {"whole", "fraction"} /\ col # <<>> /\ Head(col) \in Digits
  /\ IF pc = "fraction" /\ scale = -MaxPower THEN UNCHANGED decimal
     ELSE /\ mantissa' = 10 * mantissa + DigitOf[Head(col)]
          /\ scale' = IF pc = "fraction" THEN scale - 1 ELSE scale
          /\ size' = IF mantissa' = 0 THEN size ELSE size + 1
          /\ form' = IF mantissa' # 0 /\ size' - 1 + scale' > MaxPower THEN "inf" ELSE form
  /\ col' = Tail(col)
  /\ UNCHANGED <<inputs, pc, cut, r, int, raised, cols, error>>

Signed(f) == IF row[r] # <<>> /\ Head(row[r]) = "-" THEN <<f[1], -f[2], f[3]>> ELSE f

(* After the digits: a point, an exponent, the end, or no number at all.   *)
FloatMark ==
  LET c == At(col, 1)  d == At(col, 2)
  IN  /\ pc \in {"whole", "fraction"} /\ c \notin Digits
      /\ \/ /\ pc = "whole" /\ c \in Points /\ pc' = "fraction" /\ col' = Tail(col)
            /\ UNCHANGED <<int, cols, r, error>>
         \/ /\ c \in {"e", "E"} /\ pc' = "digits" /\ then' = "power" /\ x' = 0
            /\ neg' = (d = "-")
            /\ col' = IF d \in {"-", "+"} THEN SubSeq(col, 3, Len(col)) ELSE Tail(col)
            /\ UNCHANGED <<cols, r, error>>
         \/ /\ c \notin {"e", "E"} /\ ~(pc = "whole" /\ c \in Points)
            /\ IF c = "NUL" THEN Assign(Signed(Float(form, mantissa, scale))) /\ UNCHANGED error
               ELSE Abandon("no_digit", Float(form, mantissa, scale))
            /\ UNCHANGED <<int, col>>
      /\ UNCHANGED <<inputs, cut, float>>

(* A base beyond the powers of ten of a float is inf or 0, and stays so.   *)
Clamp(p) == Max({-(MaxPower + 1), Min({MaxPower + 1, p})})

(* x *= base, where 0 times inf is nan.                                    *)
MultiplyByBase ==
  LET zero == form = "finite" /\ mantissa = 0
      top  == size - 1 + scale + base
  IN  /\ form' = IF \/ form = "nan"
                    \/ zero /\ base > MaxPower
                    \/ form = "inf" /\ base < -MaxPower THEN "nan"
                 ELSE IF form = "inf" \/ base > MaxPower \/ (~zero /\ top > MaxPower)
                   THEN "inf" ELSE "finite"
      /\ mantissa' = IF base < -MaxPower \/ top < -MaxPower THEN 0 ELSE mantissa
      /\ scale' = IF mantissa' = 0 THEN scale ELSE scale + base
      /\ UNCHANGED size

(* e = -e wraps for the smallest int.                                      *)
Negated(n) == IF n = -128 THEN n ELSE -n

StartPower ==
  /\ pc = "power" /\ exponent' = x
  /\ base' = IF x < 0 THEN -1 ELSE 1
  /\ e' = IF x < 0 THEN Negated(x) ELSE x
  /\ IF x = 0 THEN Assign(Signed(Float(form, mantissa, scale)))
              ELSE pc' = "raise" /\ UNCHANGED <<cols, r>>
  /\ UNCHANGED <<inputs, cut, col, int, decimal, error>>

HalfForgotten(n) == n

Half(n) == n \div 2

RaisePower ==
  /\ pc = "raise" /\ e # 1
  /\ IF e % 2 = 0
       THEN base' = Clamp(2 * base) /\ e' = Half(e) /\ UNCHANGED decimal
       ELSE MultiplyByBase /\ e' = e - 1 /\ UNCHANGED base
  /\ UNCHANGED <<inputs, pc, cut, r, col, int, exponent, cols, error>>

EndPower ==
  /\ pc = "raise" /\ e = 1
  /\ MultiplyByBase /\ Assign(Signed(Float(form', mantissa', scale')))
  /\ UNCHANGED <<inputs, cut, col, int, raised, error>>

Next ==
  \/ CutColumn \/ CutDone \/ SkipColumn \/ TakeText \/ StartNumber
  \/ Digit \/ Overflow \/ EndDigits \/ AssignInteger
  \/ FloatDigit \/ FloatMark \/ StartPower \/ RaisePower \/ EndPower

(* The thread that reads goes on; only the loop over the exponent is long  *)
(* enough to ask whether it ends.                                          *)
Spec == Init /\ [][Next]_vars /\ WF_vars(RaisePower \/ EndPower)

-----------------------------------------------------------------------------
(* Properties                                                              *)

(* Fields a reader with this quoting can give back.                        *)
WellWritten(f) ==
  LET n == Len(f.text)
  IN  IF f.quoted THEN escape
      ELSE /\ n > 0 => f.text[1] # Blank /\ f.text[n] # Blank
           /\ Sep \notin ToSet(f.text) /\ (escape => Quote \notin ToSet(f.text))

(* What was written in a column is the text that is read from it, whatever *)
(* separators, quotes and blanks it holds, and under the name its place in *)
(* the header gave it; a line is refused only for its number of columns.   *)
ColumnsComeBack ==
  (\A n \in DOMAIN fields : WellWritten(fields[n])) =>
    /\ \A n \in DOMAIN col_order :
         n < i /\ col_order[n] # -1 => row[col_order[n]] = fields[n].text
    /\ pc # "cut" =>
         /\ (error = "too_few_columns")  <=> (Len(fields) < Len(col_order))
         /\ (error = "too_many_columns") <=> (Len(fields) > Len(col_order))
         /\ error # "escaped_string_not_closed"

Value(s) ==
  LET to[n \in 0 .. Len(s)] == IF n = 0 THEN 0 ELSE 10 * to[n - 1] + DigitOf[s[n]]
  IN  to[Len(s)]
HasSign(s) == s # <<>> /\ Head(s) \in {"-", "+"}
Unsigned(s) == IF HasSign(s) THEN Tail(s) ELSE s
WithSign(s, v) == IF s # <<>> /\ Head(s) = "-" THEN -v ELSE v
AreDigits(s) == ToSet(s) \subseteq Digits
Lowest(type)  == IF type = "unsigned" THEN 0 ELSE -128
Highest(type) == IF type = "unsigned" THEN 255 ELSE 127
Values(type)  == Lowest(type) .. Highest(type)

(* The value of the longest prefix that the type can hold.                 *)
Held(s, type) ==
  LET body == Unsigned(s)
      held == {k \in 0 .. Len(body) :
                 WithSign(s, Value(SubSeq(body, 1, k))) \in Values(type)}
  IN  WithSign(s, Value(SubSeq(body, 1, Max(held))))

BadAt(n) == pc = "thrown" /\ r = n
ConversionErrors ==
  {"no_digit", "integer_overflow", "integer_underflow", "invalid_single_character"}

Nearest(v, type) == Max({Lowest(type), Min({v, Highest(type)})})

(* Named parts of NumbersAreExact.  An integer is the number it spells, or *)
(* one the type cannot hold, and then what the policy says: an exception,  *)
(* the nearest value, or the digits that fitted.                           *)
IntegerOf(s, type) ==
  LET exact == WithSign(s, Value(Unsigned(s)))
  IN  IF exact \in Values(type) THEN exact
      ELSE IF overflow = "ignore" THEN Held(s, type) ELSE Nearest(exact, type)

IntegersAreExact ==
  \A n \in DOMAIN types : types[n] \in {"signed", "unsigned"} /\ row[n] # Null =>
    LET s == row[n]
        exact == WithSign(s, Value(Unsigned(s)))
        number == AreDigits(IF types[n] = "signed" THEN Unsigned(s) ELSE s)
    IN  /\ number /\ cols[n] # Untouched /\ ~BadAt(n) => cols[n] = <<IntegerOf(s, types[n])>>
        /\ number /\ r = n /\ error \in ConversionErrors =>
             /\ exact \notin Values(types[n]) /\ overflow = "throw"
             /\ error = IF exact < 0 THEN "integer_underflow" ELSE "integer_overflow"

(* The parts of a float: before and after its point, and its exponent.     *)
Mark(s, set) == Min({k \in 1 .. Len(s) + 1 : At(s, k) \in set \cup {"NUL"}})
Point(s) == Min({Mark(s, Points), Mark(s, {"e", "E"})})
Whole(s) == SubSeq(s, 1, Point(s) - 1)
Part(s)  == SubSeq(s, Point(s) + 1, Mark(s, {"e", "E"}) - 1)
Power(s) == SubSeq(s, Mark(s, {"e", "E"}) + 1, Len(s))

(* The digits of a number from its first that is not 0.                    *)
Size(s) == Cardinality({k \in DOMAIN s : Value(SubSeq(s, 1, k)) > 0})

(* The loop squares ten to these powers on its way to an exponent.  It is  *)
(* too far if one of them is beyond a float, though what it would be       *)
(* multiplied with may bring it back.                                      *)
Squares == {1, 2, 4, 8, 16, 32, 64}
TooFar(n) == \E b \in Squares : b > MaxPower /\ (b <= n \/ b <= -n)

(* What a decimal without exponent is as a float after its exponent n.     *)
FormAfter(s, n) ==
  LET digits == Whole(s) \o Part(s)
      zero   == Value(digits) = 0
      top    == Size(digits) - 1 - Len(Part(s))
      large  == ~zero /\ top > MaxPower
  IN  IF TooFar(n) /\ ((zero /\ n > 0) \/ (large /\ n < 0)) THEN "nan"
      ELSE IF large \/ (TooFar(n) /\ n > 0) \/ (~zero /\ top + n > MaxPower) THEN "inf"
      ELSE "finite"
MantissaAfter(s, n) ==
  LET digits == Whole(s) \o Part(s)
  IN  IF TooFar(n) \/ Size(digits) - 1 - Len(Part(s)) + n < -MaxPower THEN 0 ELSE Value(digits)

(* A float is the decimal it spells, or inf or 0 where a float ends; but   *)
(* an exponent that is too far makes inf of any decimal, and 0 if it is    *)
(* negative, and nan of a 0 or of one that is inf before it.  No more is   *)
(* said where the exponent is cut, as what follows is then not looked at,  *)
(* nor with more decimals than a float can tell from 0.                    *)
FloatsAreExact ==
  \A n \in DOMAIN types : types[n] = "float" /\ row[n] # Null /\ cols[n] # Untouched
                           /\ ~BadAt(n) =>
    LET body  == Unsigned(row[n])
        power == Power(body)
        ten   == WithSign(power, Value(Unsigned(power)))
        value == Float(FormAfter(body, ten), MantissaAfter(body, ten), ten - Len(Part(body)))
    IN  AreDigits(Unsigned(power)) /\ ten \in -127 .. 127 /\ Len(Part(body)) <= MaxPower =>
          cols[n] = << <<value[1], WithSign(row[n], value[2]), value[3]>> >>

(* A number read is the number written in the column, integer or float,    *)
(* or one its type cannot hold, and then what the overflow policy says.    *)
NumbersAreExact == IntegersAreExact /\ FloatsAreExact

(* Named parts of BadColumnSplitsTheRow.                                   *)
ColumnsBefore ==
  \A n \in DOMAIN cols :
    (cols[n] # Untouched) <=>
      (n <= r /\ row[n] # Null /\ ~(n = r /\ types[n] = "char" /\ row[n] = <<>>))
CutOff ==
  LET read == SubSeq(row[r], 1, Len(row[r]) - Len(col))
  IN  types[r] \in {"signed", "unsigned"} =>
        cols[r] = <<WithSign(read, Value(Unsigned(read)))>>

(* A row that cannot be converted leaves the caller with the columns before *)
(* the bad one from this row, the bad one cut off where it went wrong, and *)
(* the others as they were.                                                *)
BadColumnSplitsTheRow ==
  pc = "thrown" /\ error \in ConversionErrors =>
    ColumnsBefore /\ CutOff

(* The loop over the bits of an exponent ends, for every exponent but the  *)
(* smallest int, which is its own negative.                                *)
ExponentLoopEnds == pc = "raise" /\ exponent # -128 ~> pc = "next"
=============================================================================
