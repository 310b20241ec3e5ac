------------------------------ MODULE UbxFrame ------------------------------
(***************************************************************************)
(* How comms::processAllWithDispatch (called at commCore.cpp:87) reads the *)
(* accumulated input with a frame that knows one message, NAV-POSLLH.  The *)
(* COMMS library is not part of the repository: these are the verdicts the *)
(* session relies on when it erases what was consumed.                     *)
(*                                                                         *)
(* A byte is the pos-th byte of some frame.  Frame 0 is everything that is *)
(* not a NAV-POSLLH frame: its byte at pos 1 looks like a sync header, and *)
(* the length field that follows it claims LureLen bytes.                  *)
(***************************************************************************)
EXTENDS Integers, Sequences

CONSTANTS
  PosLen,   (* bytes of a NAV-POSLLH frame, header to checksum             *)
  LureLen   (* bytes claimed by a header that starts no NAV-POSLLH frame   *)

ASSUME FrameLengths == PosLen \in Nat \ {0} /\ LureLen \in Nat \ {0}

Byte == [frame : Nat, pos : Nat \ {0}]

IsHeader(b) == b.pos = 1

Claimed(b) == IF b.frame = 0 THEN LureLen ELSE PosLen

(* A whole NAV-POSLLH frame starts at s[i]: its checksum matches.          *)
IntactAt(s, i) ==
  /\ i + PosLen - 1 <= Len(s)
  /\ s[i].frame # 0
  /\ \A k \in 0 .. PosLen - 1 : s[i + k] = [frame |-> s[i].frame, pos |-> k + 1]

(* ErrorStatus::NotEnoughData: a header whose claimed length has not       *)
(* arrived; everything else that is not intact is a ProtocolError.         *)
NotEnoughData(s, i) == IsHeader(s[i]) /\ i + Claimed(s[i]) - 1 > Len(s)
=============================================================================
