--------------------------- MODULE MCStructureExit --------------------------
(* Candles for the runs of StructureExit: two rallies whose lows do not      *)
(* follow their closes, a shallow and a deep pullback, and a wick.           *)
EXTENDS StructureExit

K(c, h, l) == [close |-> c, high |-> h, low |-> l]

Chart == {K(50, 51, 48), K(53, 54, 52), K(54, 54, 51), K(56, 57, 53), K(52, 55, 50), K(54, 55, 47)}

=============================================================================
