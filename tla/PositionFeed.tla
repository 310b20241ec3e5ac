---------------------------- MODULE PositionFeed ----------------------------
(***************************************************************************)
(* What a Session promises to whoever reads its output: of the bytes the   *)
(* receiver sent, every whole NAV-POSLLH frame is delivered once, in the   *)
(* order the frames arrived, whatever lies between them and however the    *)
(* bytes were cut into reads.                                              *)
(***************************************************************************)
EXTENDS UbxFrame

VARIABLES
  taken,    (* the bytes received so far                                   *)
  handled   (* where in taken each delivered frame starts                  *)

feedVars == <<taken, handled>>

LastHandled == IF handled = <<>> THEN 0 ELSE handled[Len(handled)]

Init == taken = <<>> /\ handled = <<>>

Receive ==
  /\ Len(taken') > Len(taken)
  /\ SubSeq(taken', 1, Len(taken)) = taken
  /\ UNCHANGED handled

Deliver ==
  /\ \E i \in LastHandled + 1 .. Len(taken) :
       /\ IntactAt(taken, i)
       /\ \A j \in LastHandled + 1 .. i - 1 : ~IntactAt(taken, j)
       /\ handled' = Append(handled, i)
  /\ UNCHANGED taken

Next == Receive \/ Deliver

Spec == Init /\ [][Next]_feedVars
=============================================================================
