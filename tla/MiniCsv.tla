------------------------------ MODULE MiniCsv ------------------------------
(***************************************************************************)
(* minicsv.h: what an ofstream (or ostringstream) writes, and an ifstream  *)
(* (or istringstream) reads of it or of any other text.  The caller runs   *)
(* a list of output operations, then a list of input operations; one       *)
(* action per operation, or per round of the loops of read_line() and      *)
(* get_delimited_str().  A char is a one-letter string; what std::replace  *)
(* and std::getline do to a stream is modelled by what they do to its text *)
(* and its two bits.                                                       *)
(***************************************************************************)
EXTENDS Integers, SequencesExt, FiniteSetsExt

CONSTANTS
  Jobs,         (* what is written and read, a set of records: see Job     *)
  Letters,      (* the characters of a text                                *)
  QuoteEscape   (* "&quot;", what a quote becomes                          *)

VARIABLES
  job,          (* the configuration and the operations left to run: stream *)
                (* is "file" for ifstream(std::string), "path" for          *)
                (* ifstream(const char* ), or "string"                      *)
  pc,           (* the loop the caller is in, or "next"                    *)
  text,         (* the characters of the file, or of the string            *)
  written,      (* history: the lines of values written, each with the     *)
                (* delimiter in force and the operator that wrote it       *)
  after_newline, out_delimiter,
  next,         (* the position in text the stream reads next              *)
  eofbit, failbit,
  has_bom, first_line_read, quote_unescape, delimiter,
  str, pos,     (* the line, and how much of it was read                   *)
  token, within_quote,
  line_num, token_num,
  got           (* history: per call of read_line(), what came of it, each *)
                (* with the delimiter in force and how it was asked for    *)

writer == <<written, after_newline, out_delimiter>>
stream == <<next, eofbit, failbit>>
opened == <<has_bom, first_line_read, quote_unescape>>
column == <<token, within_quote>>
vars   == <<job, pc, text, writer, stream, opened, delimiter, str, pos, column,
            line_num, token_num, got>>

Quote == "'"  NL == "NL"  Mark == <<"EF", "BB", "BF">>
Digits == {"0", "1", "2", "9"}
At(s, n) == IF n \in DOMAIN s THEN s[n] ELSE "NUL"

Text == Seq(Letters)
Outputs == ({"string", "other"} \X Text) \cup ({"sep"} \X Letters) \cup {<<"newline", <<>> >>}
Inputs == ({"open", "trim_quote", "line", "skip", "string", "number", "rest"} \X {<<>>})
             \cup ({"sep"} \X Letters)

Job == [stream : {"file", "path", "string"}, exists : BOOLEAN, before : Text,
        out : Seq(Outputs), in : Seq(Inputs), escape : Text, unescape : Text,
        surround : BOOLEAN, quote_escape : Text, terminate : BOOLEAN, allow : BOOLEAN,
        lines : BOOLEAN]

(* What a program does: the stream is opened before it is read, and where  *)
(* lines is set, only once, and no line is skipped.                        *)
OpensFirst(j) ==
  /\ j.in # <<>> => j.in[1][1] = "open"
  /\ j.lines => \A n \in 2 .. Len(j.in) : j.in[n][1] \notin {"open", "skip"}

ASSUME MiniCsvConstants ==
  /\ {Quote, NL, "CR", ","} \subseteq Letters /\ "NUL" \notin Letters
  /\ QuoteEscape \in Text /\ QuoteEscape # <<>>
  /\ ToSet(QuoteEscape) \cap {Quote, NL, "CR"} = {}
  /\ Jobs \subseteq Job /\ \A j \in Jobs : OpensFirst(j)

(* replace(): the occurrences from the left, not looking into what was put. *)
Replace(s, find, by) ==
  LET found(n) == n + Len(find) - 1 <= Len(s) /\ SubSeq(s, n, n + Len(find) - 1) = find
      to[n \in 0 .. Len(s)] ==
        IF n = 0 THEN [out |-> <<>>, skip |-> 0]
        ELSE IF to[n - 1].skip > 0 THEN [to[n - 1] EXCEPT !.skip = @ - 1]
        ELSE IF found(n) THEN [out |-> to[n - 1].out \o by, skip |-> Len(find) - 1]
        ELSE [to[n - 1] EXCEPT !.out = Append(@, s[n])]
  IN  to[Len(s)].out

Init ==
  /\ job \in Jobs /\ pc = "next" /\ text = job.before
  /\ written = << <<>> >> /\ after_newline = TRUE /\ out_delimiter = ","
  /\ next = 1 /\ eofbit = FALSE /\ failbit = FALSE
  /\ has_bom = FALSE /\ first_line_read = FALSE
  /\ quote_unescape = IF job.stream = "path" THEN <<>> ELSE QuoteEscape
  /\ delimiter = "," /\ str = <<>> /\ pos = 0 /\ token = <<>> /\ within_quote = FALSE
  /\ line_num = 0 /\ token_num = 0 /\ got = <<>>

-----------------------------------------------------------------------------
(* Writing                                                                 *)

Output(op) ==
  /\ pc = "next" /\ job.out # <<>> /\ Head(job.out)[1] = op
  /\ job' = [job EXCEPT !.out = Tail(@)]
  /\ UNCHANGED <<pc, stream, opened, delimiter, str, pos, column, line_num, token_num, got>>

Escaped(s, d) == IF job.escape = <<>> THEN s ELSE Replace(s, <<d>>, job.escape)

SurroundedIfAsked(s, d) == IF job.surround THEN <<Quote>> \o s \o <<Quote>> ELSE s

Surrounded(s, d) ==
  IF job.surround \/ d \in ToSet(s)
    THEN <<Quote>> \o (IF job.quote_escape = <<>> THEN s
                       ELSE Replace(s, <<Quote>>, job.quote_escape)) \o <<Quote>>
    ELSE s

(* Numbers and whatever else has an operator <<: never in quotes.          *)
Form(w) == LET s == Escaped(w.value, w.delimiter)
           IN  IF w.by = "string" THEN Surrounded(s, w.delimiter) ELSE s

Put(by) ==
  LET w == [value |-> Head(job.out)[2], delimiter |-> out_delimiter, by |-> by]
  IN  /\ Output(by)
      /\ text' = text \o (IF after_newline THEN <<>> ELSE <<out_delimiter>>) \o Form(w)
      /\ after_newline' = FALSE /\ UNCHANGED out_delimiter
      /\ written' = [written EXCEPT ![Len(written)] = Append(@, w)]

PutString == Put("string")

PutOther == Put("other")

PutNewline ==
  /\ Output("newline") /\ text' = Append(text, NL) /\ after_newline' = TRUE
  /\ written' = Append(written, <<>>) /\ UNCHANGED out_delimiter

PutSep ==
  /\ Output("sep") /\ out_delimiter' = Head(job.out)[2]
  /\ UNCHANGED <<text, written, after_newline>>

-----------------------------------------------------------------------------
(* Opening                                                                 *)

Input(op) ==
  /\ pc = "next" /\ job.out = <<>> /\ job.in # <<>> /\ Head(job.in)[1] = op
  /\ job' = [job EXCEPT !.in = Tail(@)] /\ UNCHANGED <<text, writer>>

Reset == delimiter' = "," /\ str' = <<>> /\ pos' = 0 /\ line_num' = 0 /\ token_num' = 0

(* read_bom() reads three bytes and goes back; on a stream that then has   *)
(* its fail bit, because the file is not there or has fewer, seekg() only  *)
(* clears the other bit.                                                   *)
OpenFile ==
  /\ Input("open") /\ job.stream # "string"
  /\ next' = 1 /\ eofbit' = FALSE
  /\ failbit' = (~job.exists \/ Len(text) < Len(Mark))
  /\ has_bom' = (job.exists /\ \E k \in DOMAIN Mark : At(text, k) = Mark[k])
  /\ first_line_read' = FALSE /\ Reset
  /\ UNCHANGED <<pc, quote_unescape, column, got>>

SetInputString ==
  /\ Input("open") /\ job.stream = "string"
  /\ next' = 1 /\ eofbit' = FALSE /\ failbit' = FALSE
  /\ quote_unescape' = QuoteEscape
  /\ Reset /\ UNCHANGED <<pc, has_bom, first_line_read, column, got>>

EnableTrimQuote ==
  /\ Input("trim_quote") /\ quote_unescape' = QuoteEscape
  /\ UNCHANGED <<pc, stream, has_bom, first_line_read, delimiter, str, pos, column,
                 line_num, token_num, got>>

SetSep ==
  /\ Input("sep") /\ delimiter' = Head(job.in)[2]
  /\ UNCHANGED <<pc, stream, opened, str, pos, column, line_num, token_num, got>>

-----------------------------------------------------------------------------
(* Lines                                                                   *)

Behind(k) == Min({k + 1, Len(text) + 1})

(* std::getline() into str: nothing on a stream that has a bit set.        *)
LineStop == Min({k \in next .. Len(text) + 1 : k = Len(text) + 1 \/ text[k] = NL})
Line == IF eofbit \/ failbit THEN str ELSE SubSeq(text, next, LineStop - 1)
GetLine ==
  IF eofbit \/ failbit
    THEN failbit' = TRUE /\ UNCHANGED <<next, eofbit>>
    ELSE /\ next' = Behind(LineStop)
         /\ eofbit' = (LineStop > Len(text))
         /\ failbit' = (LineStop > Len(text) /\ next > Len(text))

WithoutBomEachLine(line) == IF has_bom THEN SubSeq(line, 4, Len(line)) ELSE line
(* A byte that looks like part of a mark is enough to lose three.          *)
WithoutBom(line) ==
  IF has_bom /\ ~first_line_read THEN SubSeq(line, 4, Len(line)) ELSE line
BomThrows(line) == has_bom /\ ~first_line_read /\ Len(line) < 3

(* The wrong question: std::getline() never makes a stream bad().          *)
NoMoreIsBad == FALSE

NoMore == eofbit

ReadLine ==
  /\ Input("line") /\ pc' = "read_line" /\ str' = <<>>
  /\ UNCHANGED <<stream, opened, delimiter, pos, column, line_num, token_num, got>>

Entry(value, by) == [value |-> value, delimiter |-> delimiter, by |-> by]
NoLine == <<Entry(<<>>, "none")>>
Throw(what) == pc' = "thrown" /\ got' = Append(got, <<Entry(<<>>, what)>>)
Give(value, by) == got' = [got EXCEPT ![Len(got)] = Append(@, Entry(value, by))]

LineRound ==
  /\ pc = "read_line"
  /\ IF NoMore
       THEN /\ pc' = "next" /\ got' = Append(got, NoLine)
            /\ UNCHANGED <<stream, first_line_read, str, pos, line_num, token_num>>
       ELSE /\ GetLine /\ first_line_read' = TRUE /\ pos' = 0
            /\ IF BomThrows(Line)
                 THEN /\ Throw("out_of_range") /\ str' = Line
                      /\ UNCHANGED <<line_num, token_num>>
                 ELSE /\ str' = WithoutBom(Line)
                      /\ IF str' # <<>> \/ (~job.terminate /\ job.allow)
                           THEN /\ pc' = "next" /\ got' = Append(got, <<>>)
                                /\ line_num' = line_num + 1 /\ token_num' = 0
                           ELSE /\ pc' = IF job.terminate THEN "next" ELSE pc
                                /\ got' = IF job.terminate
                                            THEN Append(got, NoLine) ELSE got
                                /\ UNCHANGED <<line_num, token_num>>
  /\ UNCHANGED <<job, text, writer, has_bom, quote_unescape, delimiter, column>>

(* The mark goes with the line when the first is skipped.                  *)
SkipLine ==
  /\ Input("skip")
  /\ IF eofbit /\ job.stream # "string"
       THEN UNCHANGED <<stream, first_line_read, str, pos>>
       ELSE GetLine /\ str' = Line /\ pos' = 0 /\ first_line_read' = TRUE
  /\ UNCHANGED <<pc, has_bom, quote_unescape, delimiter, column, line_num, token_num, got>>

-----------------------------------------------------------------------------
(* Columns                                                                 *)

ReadColumn ==
  /\ \/ Input("string") \/ Input("number")
  /\ pc' = Head(job.in)[1] /\ token' = <<>> /\ within_quote' = FALSE
  /\ UNCHANGED <<stream, opened, delimiter, str, pos, line_num, token_num, got>>

(* replace() never ends when what it looks for is empty.                   *)
Hangs == quote_unescape = <<>>

Unescape(s) ==
  LET t == IF job.unescape = <<>> THEN s ELSE Replace(s, job.unescape, <<delimiter>>)
      n == Len(t)
      inner == IF n > 0 /\ t[1] = Quote /\ t[n] = Quote THEN SubSeq(t, 2, n - 1) ELSE t
  IN  Replace(inner, quote_unescape, <<Quote>>)

(* A stream takes the digits at the head of a token for a number.          *)
NumberIn(s) ==
  LET stop == Min({k \in 1 .. Len(s) + 1 : At(s, k) \notin Digits}) IN SubSeq(s, 1, stop - 1)

GiveToken(s) ==
  /\ token_num' = token_num + 1
  /\ IF Hangs THEN pc' = "replace" /\ token' = s /\ UNCHANGED got
     ELSE LET value == IF pc = "number" THEN NumberIn(Unescape(s)) ELSE Unescape(s)
          IN  /\ token' = Unescape(s)
              /\ IF pc = "number" /\ value = <<>> THEN Throw("conversion")
                 ELSE pc' = "next" /\ Give(value, pc)

InColumn == pc \in {"string", "number"}
Here == At(str, pos + 1)
OpensQuote ==
  ~within_quote /\ Here = Quote /\ (pos = 0 \/ str[pos] = delimiter)

(* The end of the line; str is forgotten, pos is not.                      *)
LastColumn ==
  /\ InColumn /\ pos >= Len(str)
  /\ GiveToken(token) /\ str' = <<>>
  /\ UNCHANGED <<job, text, writer, stream, opened, delimiter, pos, within_quote, line_num>>

DoubledQuote ==
  /\ InColumn /\ pos < Len(str)
  /\ within_quote /\ Here = Quote /\ At(str, pos + 2) = Quote
  /\ token' = Append(token, Quote) /\ pos' = pos + 2
  /\ UNCHANGED <<job, pc, text, writer, stream, opened, delimiter, str, within_quote,
                 line_num, token_num, got>>

ColumnChar ==
  /\ InColumn /\ pos < Len(str)
  /\ ~(within_quote /\ Here = Quote /\ At(str, pos + 2) = Quote)
  /\ within_quote' = (OpensQuote \/ (within_quote /\ Here # Quote))
  /\ pos' = pos + 1
  /\ IF (Here = delimiter /\ ~within_quote') \/ Here = "CR"
       THEN GiveToken(token)
       ELSE token' = Append(token, Here) /\ UNCHANGED <<pc, token_num, got>>
  /\ UNCHANGED <<job, text, writer, stream, opened, delimiter, str, line_num>>

num_of_delimiter ==
  Cardinality({k \in DOMAIN str : str[k] = delimiter /\
                 Cardinality({j \in 1 .. k : str[j] = Quote}) % 2 = 0})

RestOfLine ==
  /\ Input("rest")
  /\ IF pos > Len(str) THEN Throw("out_of_range")
     ELSE Give(SubSeq(str, pos + 1, Len(str)), "rest") /\ UNCHANGED pc
  /\ UNCHANGED <<stream, opened, delimiter, str, pos, column, line_num, token_num>>

Loop == LineRound \/ LastColumn \/ DoubledQuote \/ ColumnChar

Next ==
  \/ PutString \/ PutOther \/ PutNewline \/ PutSep
  \/ OpenFile \/ SetInputString \/ EnableTrimQuote \/ SetSep
  \/ ReadLine \/ SkipLine \/ ReadColumn \/ RestOfLine \/ Loop

(* The loops of a call go on.                                              *)
Spec == Init /\ [][Next]_vars /\ WF_vars(Loop)

-----------------------------------------------------------------------------
(* Properties                                                              *)

(* A file that is not taken for an empty or a marked one: three bytes or   *)
(* more, the first three the mark or with none of its bytes in its place.  *)
Marked(s) == Len(s) >= 3 /\ SubSeq(s, 1, 3) = Mark
Readable ==
  job.stream # "string" => job.exists /\ Len(text) >= 3 /\ (has_bom => Marked(text))

(* The delimiter behind a column, and whether quotes are put around it.    *)
Ahead(line, j) == line[IF j < Len(line) THEN j + 1 ELSE j].delimiter
Quoted(w) ==
  w.by = "string" /\ (job.surround \/ (job.escape = <<>> /\ w.delimiter \in ToSet(w.value)))

(* The k-th line read is the k-th written: line ends are where newlines    *)
(* were put, and blank lines are counted.                                  *)
LineIsLine(k) ==
  /\ job.before = <<>> /\ job.lines /\ (job.terminate \/ job.allow) /\ Readable /\ ~has_bom
  /\ NL \notin ToSet(job.escape) \cup ToSet(job.quote_escape)
  /\ \A i \in 1 .. k - 1 : \A n \in DOMAIN written[i] :
       NL \notin ToSet(written[i][n].value) \cup {written[i][n].delimiter}

(* The reader undoes the writer's escape, which is not made of what it     *)
(* stands for, nor begins in the other one.                                *)
EscapesAgree ==
  /\ job.unescape = job.escape /\ ToSet(job.escape) \cap {Quote, NL, "CR"} = {}
  /\ job.escape # <<>> => job.escape[1] \notin ToSet(QuoteEscape)

(* The columns of a line that come back as they were: no line break and no *)
(* character that begins an escape in them; a quote of their own escaped   *)
(* or doubled if there are quotes around, and not at their head if there   *)
(* are none; no delimiter of their own unless it is escaped or in quotes;  *)
(* and where the delimiter changes behind a column, it is out of both's    *)
(* reach, and quotes are only around the first of the line.                *)
Faithful(line, j) ==
  LET v == ToSet(line[j].value)  own == line[j].delimiter  ahead == Ahead(line, j)
  IN  /\ v \cap {NL, "CR", QuoteEscape[1]} = {} /\ (job.escape # <<>> => job.escape[1] \notin v)
      /\ {own, ahead} \cap {Quote, NL} = {} /\ own \notin ToSet(job.escape)
      /\ IF Quoted(line[j])
           THEN /\ Quote \in v => job.quote_escape \in {QuoteEscape, <<Quote, Quote>>}
                /\ own # ahead => j = 1 /\ (job.escape # <<>> => own \notin v)
           ELSE /\ v # {} => line[j].value[1] # Quote
                /\ own \in v => job.escape # <<>>
                /\ own # ahead => v \cap {own, ahead} = {}

(* A column is asked for with the delimiter that stands behind it.         *)
AskedFor(k, j) ==
  got[k][j].by \in {"string", "number"} /\ got[k][j].delimiter = Ahead(written[k], j)

(* Named parts of ColumnsComeBack.  A column that does not come back as it *)
(* was spoils the ones behind it, never one before.                        *)
ValuesComeBack ==
  \A k \in DOMAIN got \cap DOMAIN written : LineIsLine(k) /\ EscapesAgree =>
    \A j \in DOMAIN got[k] \cap DOMAIN written[k] :
      (\A n \in 1 .. j : Faithful(written[k], n) /\ AskedFor(k, n)) =>
        LET v == written[k][j].value
        IN  got[k][j].value = IF got[k][j].by = "string" THEN v ELSE NumberIn(v)

(* num_of_delimiter(), which turns at every quote, finds the columns that  *)
(* get_delimited_str(), which does not, will give.                         *)
DelimitersSeparateColumns ==
  LET k == Len(got)  line == written[k]
  IN  /\ pc = "next" /\ k \in DOMAIN got \cap DOMAIN written /\ got[k] = <<>> /\ str # <<>>
      /\ LineIsLine(k) /\ EscapesAgree
      /\ \A j \in DOMAIN line : /\ Faithful(line, j) /\ line[j].delimiter = delimiter
                                /\ Quote \in ToSet(line[j].value) => Quoted(line[j])
      => num_of_delimiter = Len(line) - 1

(* A line that was written is read column by column as it was, and has as  *)
(* many columns as num_of_delimiter() says.                                *)
ColumnsComeBack == ValuesComeBack /\ DelimitersSeparateColumns

(* Where the lines of a text end that a reader of this policy should see,  *)
(* and what they are; the mark belongs to none.                            *)
MarkLen == IF Marked(text) /\ job.stream # "string" THEN 3 ELSE 0
Ends == {e \in MarkLen + 1 .. Len(text) + 1 : e = Len(text) + 1 \/ text[e] = NL}
Begin(e) == Max({MarkLen} \cup {b \in Ends : b < e}) + 1
Counted == {e \in Ends : job.terminate \/ job.allow \/ Begin(e) < e}
IsNth(e, k) == e \in Counted /\ Cardinality({b \in Counted : b < e}) = k - 1

(* A text is read line by line as it is, its mark left out, and blank      *)
(* lines as the caller chose.                                              *)
LinesAreRead ==
  job.lines /\ Readable /\ pc # "thrown" => \A k \in DOMAIN got :
    IF \E e \in Counted : IsNth(e, k) /\ (job.terminate => Begin(e) < e)
    THEN \A n \in DOMAIN got[k] :
           /\ got[k][n].by # "none"
           /\ (\A i \in 1 .. n : got[k][i].by = "rest") =>
                \A e \in Counted : IsNth(e, k) => got[k][n].value = SubSeq(text, Begin(e), e - 1)
    ELSE got[k] # <<>> /\ got[k][1].by = "none"

(* substr() throws for two reasons only: the rest of a line is asked for   *)
(* after its last column, or a short first line passes for a marked one.   *)
ThrowsForAReason ==
  pc = "thrown" /\ got[Len(got)][1].by = "out_of_range" =>
    (token_num > 0 /\ str = <<>>) \/ (has_bom /\ Len(str) < 3)

LinesComeBack == LinesAreRead /\ ThrowsForAReason

Stuck == /\ failbit /\ ~eofbit /\ ~job.terminate /\ ~job.allow
         /\ has_bom => first_line_read

(* Such a read_line() is never left; no run asks this, a theorem states it. *)
StaysStuck == pc = "read_line" /\ Stuck => pc' = "read_line"

(* Every call ends: read_line() at the end of the stream, however many      *)
(* blank lines it skips, and a column whatever quotes and breaks are in it. *)
(* Two calls that do not end are left out: a column read by a reader that   *)
(* ifstream(const char* ) opened and that looks for nothing, and a          *)
(* read_line() that skips blank lines on a stream that failed short of its  *)
(* end, as of a file that is not there or has one or two bytes.             *)
CallsReturn ==
  pc \in {"read_line", "string", "number"} /\ ~Stuck ~>
    pc \in {"next", "thrown"} \/ (pc = "replace" /\ job.stream = "path")
=============================================================================
