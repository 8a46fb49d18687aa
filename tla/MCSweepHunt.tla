----------------------------- MODULE MCSweepHunt ----------------------------
(* A chart around 1000 ticks for the run of SweepHunt: yesterday's three     *)
(* bars, and for today a quiet bar, which may become a sweep of yesterday's  *)
(* low or a breakout of yesterday's high.                                    *)
EXTENDS SweepHunt

Y(h, l, c) == [today |-> FALSE, hour |-> 2, high |-> h, low |-> l, close |-> c]
Before     == <<Y(1006, 999, 1001), Y(1003, 996, 999), Y(1004, 998, 1001)>>

S(h, l, c) == [high |-> h, low |-> l, close |-> c]
Moments    == {S(1002, 999, 1001), S(1002, 990, 999), S(1013, 999, 1011)}

FewBars    == [f \in Frames |-> IF f = "15m" THEN 3 ELSE 6]
FewTicks   == [f \in Frames |-> 1]

V(adx, aligned, d, seq) == [NoView EXCEPT !.adx = adx, !.aligned = aligned, !.dir = d, !.seq = seq]
Looks      == {V(18, 2, "BULLISH", "MIXED"), V(40, 1, "BULLISH", "HH_HL"), V(30, 1, "BEARISH", "MIXED"),
               [V(30, 3, "BEARISH", "LH_LL") EXCEPT !.atr = "EXPANDING"],
               [V(40, 1, "BEARISH", "HH_HL") EXCEPT !.squeeze = TRUE]}

K(c, h, l) == [close |-> c, high |-> h, low |-> l]
Chart      == {K(1000, 1001, 998), K(1003, 1004, 1002), K(1004, 1004, 1001), K(1006, 1007, 1003),
               K(1002, 1005, 1000), K(1004, 1005, 997)}
Structure  == {<<K(1000, 1001, 998), K(1000, 1001, 998)>>, <<K(1006, 1007, 1003), K(1003, 1004, 1002)>>,
               <<K(991, 993, 990), K(992, 993, 990)>>}
Quotes     == {994, 999, 1003, 1008, 1012}
Windows    == {20, 25}
=============================================================================
