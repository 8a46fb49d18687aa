----------------------------- MODULE OptionChain ----------------------------
(* The options chain of one tick as the neutral strategies read it           *)
(* (data/options_chain.py): for either side, the mark of every strike.  A    *)
(* strike no quote arrived for has mark 0 and counts as not there.  Prices   *)
(* and marks are ticks of five cents; greeks are left out.                   *)
EXTENDS Integers, FiniteSets

CONSTANTS
  Strikes,       \* the strikes of the day's expiry
  Inc            \* STRIKE_INCREMENT

ASSUME ChainAssumption == Strikes \subseteq Nat \ {0} /\ Inc \in Nat \ {0}

Marks == [Strikes -> Nat]
Chain == [price : Nat, call : Marks, put : Marks]

NoStrike == 0

Liquid(c, s) == {k \in Strikes : c[s][k] > 0}

Distance(a, b) == IF a > b THEN a - b ELSE b - a

\* min(..., key = abs(strike - x)) over a list sorted by strike.
Nearest(S, x) ==
  CHOOSE k \in S : \A j \in S : \/ Distance(k, x) < Distance(j, x)
                                \/ Distance(k, x) = Distance(j, x) /\ k <= j

\* The strike asked for, or the nearest liquid one.
Contract(c, s, k) == IF Liquid(c, s) = {} THEN NoStrike ELSE Nearest(Liquid(c, s), k)

Priced(c, s, ks) == ks \subseteq Liquid(c, s)

\* What a vertical costs to buy back.
Spread(c, s, short, long) == c[s][short] - c[s][long]

\* What one contract is worth at expiry when the price is p.
Payoff(s, k, p) ==
  IF s = "call" THEN IF p > k THEN p - k ELSE 0
                ELSE IF k > p THEN k - p ELSE 0

=============================================================================
