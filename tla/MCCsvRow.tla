------------------------------ MODULE MCCsvRow ------------------------------
(* Lines for CsvRow: texts with separators, quotes and blanks in up to     *)
(* three columns; integers of up to four digits, floats with exponents.    *)
EXTENDS CsvRow

MCLetters == Digits \cup {"a", "x", Sep, Quote, Blank, "-", "+", ".", "e"}
Chars(n, set) == UNION {[1 .. k -> set] : k \in 0 .. n}
Field(text, quoted, padded) == [text |-> text, quoted |-> quoted, padded |-> padded]
Bare(text) == Field(text, FALSE, FALSE)
Job(fs, esc, over, order, ts) ==
  [fields |-> fs, escape |-> esc, overflow |-> over, order |-> order, types |-> ts]

Texts(n) == [text : Chars(n, {"a", Sep, Quote, Blank}), quoted : BOOLEAN, padded : BOOLEAN]
TextJobs ==
  {Job(fs, esc, "throw", order, <<"text", "text">>) :
     fs \in [1 .. 2 -> Texts(1)] \cup {<<f, g>> : f \in Texts(2), g \in {Bare(<<"a">>)}},
     esc \in BOOLEAN, order \in {<<1, 2>>, <<2, 1>>}}
  \cup
  {Job(fs, TRUE, "throw", order, <<"text", "char">>) :
     fs \in UNION {[1 .. n -> {Bare(<<>>), Bare(<<"a">>), Field(<<"a", Sep>>, TRUE, FALSE)}] : n \in 1 .. 3},
     order \in {<<1, 2>>, <<2, -1, 1>>, <<1>>}}
  \cup {Job(<<Field(t, TRUE, FALSE)>>, TRUE, "throw", <<1>>, <<"text">>) :
          t \in Chars(3, {"a", Sep, Quote})}

Signs == {<<>>, <<"-">>, <<"+">>}
IntegerJobs ==
  {Job(<<Bare(s \o d)>>, FALSE, over, <<1>>, <<type>>) :
     s \in Signs, d \in Chars(3, {"1", "2", "5", "8"}) \cup [1 .. 4 -> {"1", "9"}],
     over \in {"throw", "ignore", "max"}, type \in {"signed", "unsigned"}}
  \cup
  {Job(<<Bare(a), Bare(b)>>, FALSE, "throw", <<2, 1>>, <<"signed", "unsigned">>) :
     a \in {<<"7">>, <<"-">>, <<"2", "5", "6">>, <<"x">>}, b \in {<<"7">>, <<"-", "9", "9", "9">>, <<>>}}
  \cup {Job(<<Bare(<<"7">>)>>, FALSE, "throw", <<1, 2>>, <<"signed", "signed">>)}
FloatJobs ==
  {Job(<<Field(s \o m \o p, TRUE, FALSE)>>, TRUE, "throw", <<1>>, <<"float">>) :
     s \in Signs,
     m \in {<<>>, <<"0">>, <<"1">>, [n \in 1 .. 10 |-> IF n = 1 THEN "1" ELSE "0"],
            [n \in 1 .. 11 |-> IF n = 2 THEN "." ELSE IF n = 11 THEN "7" ELSE "0"], <<"3", "0", ".", "2", "5">>, <<",", "5">>, <<"1", "x">>, <<"1", ".", ".">>},
     p \in {<<>>} \cup {<<"e">> \o t \o d : t \in Signs,
             d \in Chars(1, {"0", "7", "8", "9", "x"}) \cup
                   {<<"1", "2">>, <<"6", "4">>, <<"1", "2", "7">>, <<"1", "2", "8">>, <<"9", "9", "9">>, <<"9", "9", "9", "x">>}}}
MCJobs == TextJobs \cup IntegerJobs \cup FloatJobs
=============================================================================
