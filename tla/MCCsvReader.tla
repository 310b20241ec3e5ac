---------------------------- MODULE MCCsvReader ----------------------------
(* Files of up to four lines for CsvReader, two columns in either order    *)
(* and headers that lack one, repeat one or have one more.                 *)
EXTENDS CsvReader

Headers == {<<"A", "B">>, <<"B", "X", "A">>, <<"B">>, <<"A", "A">>, <<"A", "quote">>}
Data    == {<<"1", "2">>, <<"1", "bad">>, <<"bad", "2", "3">>, <<"4">>, <<"quote", "1">>}
MCFiles ==
  {<<>>, <<Comment>>} \cup
  {<<h, d, x, e>> : h \in Headers, d \in Data \cup {Comment},
                    x \in {<<"B">>, <<"B", "X", "A">>, <<"1", "2">>},
                    e \in {<<"1", "2">>, <<"1", "bad">>}}
MCCells == {"A", "B", "X", "1", "2", "3", "4", "bad", "quote", "col1", "col2"}
MCDefaultNames == <<"col1", "col2">>
MCNameLists == {<<"A", "B">>, <<"B", "A">>}
=============================================================================
