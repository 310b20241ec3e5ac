------------------------------ MODULE MCMiniCsv ------------------------------
(* Lines written and read back, with every configuration of escapes and    *)
(* quotes; texts of a few lines with blank ones, marks and parts of them.  *)
EXTENDS MiniCsv

MCLetters == {"a", "b", "k", "x", "z", "0", "1", "2", "9", "#", "&", "q", ",", ";", Quote, NL, "CR",
              "EF", "BB", "BF"}
MCEscape == <<"#", "#">>
MCQuoteEscape == <<"&", "q">>

Base == [stream |-> "file", exists |-> TRUE, before |-> <<>>, out |-> <<>>, in |-> <<>>,
         escape |-> MCEscape, unescape |-> MCEscape, surround |-> FALSE,
         quote_escape |-> MCQuoteEscape, terminate |-> TRUE, allow |-> FALSE, lines |-> TRUE]

Op(name, v) == <<name, v>>
Strings(vs) == [n \in DOMAIN vs |-> Op("string", vs[n])]
Reads(n, what) == [k \in 1 .. n |-> Op(what, <<>>)]
Open == <<Op("open", <<>>)>>
ALine == <<Op("line", <<>>)>>
Newline == <<Op("newline", <<>>)>>

Values(n, set) == UNION {[1 .. k -> set] : k \in 0 .. n}
Configs == {[b EXCEPT !.escape = e, !.unescape = e, !.surround = s, !.quote_escape = q] :
              b \in {Base}, e \in {<<>>, MCEscape}, s \in BOOLEAN,
              q \in {<<>>, MCQuoteEscape, <<Quote, Quote>>}}

Row(c, vs) == [c EXCEPT !.out = Strings(vs),
                        !.in = Open \o ALine \o Reads(Len(vs), "string")]
RowJobs ==
  {Row(c, <<a, b, <<"z">> >>) : c \in Configs,
     a \in Values(2, {"a", ",", Quote, "#"}), b \in Values(1, {"a", ",", Quote, "&"})} \cup
  {Row([Base EXCEPT !.stream = s, !.surround = t], <<a, <<"b">> >>) :
     s \in {"path", "string"}, t \in BOOLEAN, a \in Values(3, {"a", ",", Quote})}

TwoRowJobs ==
  {[Base EXCEPT !.stream = s, !.surround = t,
      !.out = Strings(<<v, w>>) \o Newline \o <<Op("other", <<"1", "2">>)>> \o Strings(<<v>>),
      !.in = <<Op("open", <<>>), Op("trim_quote", <<>>)>> \o ALine \o Reads(2, "string")
             \o ALine \o <<Op("number", <<>>), Op("string", <<>>), Op("rest", <<>>)>>] :
     s \in {"file", "path", "string"}, t \in BOOLEAN, v \in Values(2, {"a", ",", Quote}),
     w \in {<<"a", "b">>, <<"x">>}}

(* The delimiter changes within the row; the reader is told one column     *)
(* ahead.                                                                  *)
SepJobs ==
  {[c EXCEPT
      !.out = Strings(<< <<"k">> >>) \o <<Op("sep", ";")>> \o Strings(<<v>>)
              \o <<Op("sep", ",")>> \o Strings(<<w>>),
      !.in = Open \o ALine \o <<Op("sep", ";")>> \o Reads(1, "string")
             \o <<Op("sep", ",")>> \o Reads(2, "string")] :
     c \in Configs, v \in Values(2, {"a", ",", ";"}), w \in Values(1, {"a", ",", Quote})}

NumberJobs ==
  {[Base EXCEPT !.before = t,
      !.in = Open \o ALine \o <<Op("number", <<>>), Op("rest", <<>>), Op("string", <<>>), Op("rest", <<>>)>>] :
     t \in [1 .. 3 -> {"1", "9", ",", "a", "CR"}]}

LineJobs ==
  {[Base EXCEPT !.stream = s, !.exists = e, !.before = m \o t,
      !.terminate = p[1], !.allow = p[2],
      !.in = Open \o ALine \o <<Op("rest", <<>>)>> \o ALine \o ALine] :
     s \in {"file", "string"}, e \in BOOLEAN,
     m \in {<<>>, Mark, <<"EF">>, <<"a", "BB">>}, t \in Values(4, {"a", NL}),
     p \in {<<TRUE, FALSE>>, <<FALSE, FALSE>>, <<FALSE, TRUE>>}} \cup
  {[Base EXCEPT !.lines = FALSE, !.stream = s, !.before = t,
                !.in = Open \o <<Op("skip", <<>>)>> \o ALine
                                                 \o <<Op("skip", <<>>), Op("skip", <<>>)>>] :
     s \in {"file", "string"}, t \in Values(4, {"a", NL})}

MCJobs == RowJobs \cup TwoRowJobs \cup SepJobs \cup NumberJobs \cup LineJobs
=============================================================================
