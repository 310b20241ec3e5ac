-------------------------- MODULE MCTrilateration --------------------------
(* Small geometries for TLC.                                               *)
EXTENDS Trilateration

MCPositions == { <<2, 0, 0>>, <<0, 2, 0>>, <<1, 2, 2>>, <<2, 2, -1>> }
MCPlaces == { <<1, 0, 0>>, <<0, 0, -1>> }
MCJunk == {0, 5}
=============================================================================
