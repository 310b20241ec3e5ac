---------------------------- MODULE MCUbxSession ----------------------------
(* Bounded instances of UbxSession for TLC.                                *)
EXTENDS UbxSession

Bytes(frame, n) == [i \in 1 .. n |-> [frame |-> frame, pos |-> i]]

(* A frame, a truncated frame, a sync header in other traffic, other bytes *)
(* and a frame that follows a truncated one.                               *)
MCPieces ==
  { Bytes(1, PosLen), Bytes(2, PosLen - 1), Bytes(0, 1),
    Bytes(2, 1) \o Bytes(1, PosLen) }
=============================================================================
