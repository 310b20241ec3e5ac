----------------------------- MODULE LineSource -----------------------------
(***************************************************************************)
(* What LineReader (csv.h) promises to its caller: the lines of the file,  *)
(* in order, each once, without their line breaks and without the mark at  *)
(* the head of the file; after the last of them, nothing.  How the file is *)
(* cut into blocks and who reads them does not show, but for the length a  *)
(* line may have and for a failed read, which the caller sees once and     *)
(* which moves the end of the file to wherever the reader had got.         *)
(* A byte is its position in the file, so that none is mistaken for        *)
(* another.                                                                *)
(***************************************************************************)
EXTENDS Integers, Sequences

CONSTANTS
  MaxLine,    (* the longest line, its line break included                 *)
  LF, CR,     (* the two bytes a line break may have                       *)
  Mark        (* the bytes of the mark, U+FEFF as UTF-8                    *)

VARIABLES
  file,       (* the bytes of the file                                     *)
  limit,      (* the last of its positions that the caller will be given   *)
  at,         (* where the next line starts                                *)
  lines,      (* history: the lines given so far                           *)
  asked,      (* how often the caller has asked for one (file_line)        *)
  answer      (* how the last call ended                                   *)

sourceVars == <<file, limit, at, lines, asked, answer>>

Marked == Len(file) >= Len(Mark) /\ SubSeq(file, 1, Len(Mark)) = Mark

Init ==
  /\ limit = Len(file) /\ at = IF Marked THEN Len(Mark) + 1 ELSE 1
  /\ lines = <<>> /\ asked = 0 /\ answer = "none"

(* The line that starts at p is followed by a line break at position q.    *)
EndsAt(p, q) ==
  /\ q \in p .. limit + 1 /\ (q <= limit => file[q] = LF)
  /\ \A k \in p .. q - 1 : file[k] # LF

Bytes(p, q) ==
  LET last == IF q > p /\ file[q - 1] = CR THEN q - 2 ELSE q - 1
  IN  [k \in 1 .. last - p + 1 |-> p + k - 1]

GiveLine ==
  /\ at <= limit
  /\ \E q \in at .. limit + 1 :
       /\ EndsAt(at, q) /\ q - at + 1 <= MaxLine
       /\ lines' = Append(lines, Bytes(at, q)) /\ at' = q + 1
  /\ asked' = asked + 1 /\ answer' = "line"
  /\ UNCHANGED <<file, limit>>

RefuseLine ==
  /\ at <= limit
  /\ \E q \in at .. limit + 1 : EndsAt(at, q) /\ q - at + 1 > MaxLine
  /\ asked' = asked + 1 /\ answer' = "too_long"
  /\ UNCHANGED <<file, limit, at, lines>>

ReadFails ==
  /\ at <= limit /\ limit' \in at .. limit
  /\ asked' = asked + 1 /\ answer' = "read_error"
  /\ UNCHANGED <<file, at, lines>>

SayEnd ==
  /\ at > limit /\ answer' = "end"
  /\ UNCHANGED <<file, limit, at, lines, asked>>

Next == GiveLine \/ RefuseLine \/ ReadFails \/ SayEnd

Spec == Init /\ [][Next]_sourceVars
=============================================================================
