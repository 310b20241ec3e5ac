---------------------------- MODULE MCLineReader ----------------------------
(* Files for LineReader: every way of putting lines of these kinds one     *)
(* after the other, with and without a break after the last and a mark     *)
(* (or the beginning of one) before the first, up to MaxFile bytes.        *)
EXTENDS LineReader, SequencesExt

CONSTANTS MaxFile

Piece(n) == [i \in 1 .. n |-> "d"]
MCMark == <<"m1", "m2">>
LinesOf == {<<LF>>, Piece(1) \o <<LF>>, Piece(1) \o <<CR, LF>>, Piece(2) \o <<LF>>}
Bodies ==
  LET ofLength[n \in 0 .. MaxFile] ==
        {<<>>} \cup
          UNION {{l \o f : f \in ofLength[n - Len(l)]} : l \in {k \in LinesOf : Len(k) <= n}}
  IN  ofLength[MaxFile]
Tails == {<<>>, Piece(1), Piece(3), Piece(1) \o <<CR>>, Piece(3) \o <<LF, CR, LF>>,
          Piece(6) \o <<LF>>}
MCFiles ==
  {b \o t : b \in Bodies, t \in Tails} \cup
  {m \o b : m \in {MCMark, <<"m1">>}, b \in {c \in Bodies : Len(c) <= 5}}
=============================================================================
