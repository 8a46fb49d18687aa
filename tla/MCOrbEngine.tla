---------------------------- MODULE MCOrbEngine -----------------------------
(* Constants of the model-checking runs of OrbEngine: the range is 20..28,   *)
(* the 50% targets are 32 and 16.                                            *)
EXTENDS OrbProperties

C(o, h, l, c) == [open |-> o, high |-> h, low |-> l, close |-> c]

\* Every way a candle can meet the upper level, and the mirror image of the
\* ways that start, confirm and end a setup below.
MarketCandles ==
  {C(24, 25, 23, 24),    \* inside
   C(29, 31, 29, 30),    \* breaks out and stays out
   C(27, 31, 26, 30),    \* breaks out, wick inside, body within tolerance
   C(24, 31, 23, 30),    \* breaks out from deep inside
   C(30, 31, 27, 29),    \* retests
   C(29, 30, 25, 26),    \* closes back inside
   C(30, 33, 30, 31),    \* runs away
   C(18, 19, 17, 18),    \* breaks out below and stays out
   C(18, 21, 17, 19),    \* retests from below
   C(18, 18, 15, 17)}    \* runs away below

=============================================================================
