--------------------------- MODULE MCDgpsPipeline ---------------------------
(* Two or three satellites for TLC.                                        *)
EXTENDS DgpsPipeline

MCBaseRange == [id \in Sats |-> 5 + id]
MCRoverRange == [id \in Sats |-> 9 - 2 * id]
MCBiases == {-2, 0, 1}
=============================================================================
