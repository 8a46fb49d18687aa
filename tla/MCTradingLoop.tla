--------------------------- MODULE MCTradingLoop ----------------------------
(* Constants of the model-checking runs of TradingLoop.                    *)
EXTENDS TradingLoop

Losses   == {-1, -2}
WinOnly  == {1}

\* One regime of each effect on the loop: condors, sweeps, the hard gate.
FewRegimes  == {"RANGING", "SWEEP", "UNKNOWN"}

=============================================================================
