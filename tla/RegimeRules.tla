----------------------------- MODULE RegimeRules ----------------------------
(* RegimeClassifier.classify of analysis/regime_classifier.py: the first     *)
(* rule that holds names the regime.  A view is what the volatility, trend   *)
(* and structure engines report of one tick; the conviction and the note     *)
(* attached to a regime are left out.                                        *)
EXTENDS LiquidityMap

CONSTANTS
  SweepAge,      \* bars a sweep keeps its regime
  AcceptCloses   \* SWEEP_ACCEPT_CLOSES

AdxRange  == 20
AdxTrend  == 25
AdxStrong == 35

Regimes == {"SWEEP_REVERSAL", "BREAKOUT_VOLATILE", "COMPRESSION",
            "TRENDING_BULL", "TRENDING_BEAR", "RANGING", "UNKNOWN"}

View == [adx : 0 .. 100, aligned : 0 .. 3, dir : {"BULLISH", "BEARISH", "NEUTRAL"},
         seq : {"HH_HL", "LH_LL", "MIXED", "NEUTRAL"}, expanding : BOOLEAN,
         atr : {"EXPANDING", "STABLE", "CONTRACTING"}, inside : BOOLEAN, squeeze : BOOLEAN]

\* A sweep of a named level, rejected and not accepted, fresh and of three
\* thousandths.  The second test of the code, for fresher and deeper sweeps,
\* adds nothing to the first.
IsSweepReversal(s) ==
  /\ s # NoSweep
  /\ s.beyond < AcceptCloses
  /\ s.name # ""
  /\ AgeBars(s) <= SweepAge
  /\ 1000 * s.rejection >= 3 * s.extreme

IsBreakout(v) ==
  \/ v.expanding /\ ~v.inside
  \/ v.atr = "EXPANDING" /\ v.adx > AdxTrend /\ v.seq \in {"HH_HL", "LH_LL"}

IsCompression(v) == v.squeeze /\ v.atr # "EXPANDING" /\ ~v.expanding

Contradicts(v) == v.seq = IF v.dir = "BULLISH" THEN "LH_LL" ELSE "HH_HL"

\* Mutant: the rule before version 1.3, alignment at any strength.
IsTrendingMutant(v) ==
  /\ v.adx >= AdxTrend /\ v.dir # "NEUTRAL"
  /\ v.aligned >= 2
  /\ ~Contradicts(v)

IsTrending(v) ==
  /\ v.adx >= AdxTrend /\ v.dir # "NEUTRAL"
  /\ v.adx >= AdxStrong \/ v.aligned >= 2
  /\ ~Contradicts(v)

IsRanging(v) == v.adx < AdxRange /\ ~v.expanding /\ v.inside

Classify(v, s) ==
  CASE IsSweepReversal(s) -> "SWEEP_REVERSAL"
    [] ~IsSweepReversal(s) /\ IsBreakout(v) -> "BREAKOUT_VOLATILE"
    [] ~IsSweepReversal(s) /\ ~IsBreakout(v) /\ IsCompression(v) -> "COMPRESSION"
    [] OTHER -> IF IsTrending(v)
                  THEN IF v.dir = "BULLISH" THEN "TRENDING_BULL" ELSE "TRENDING_BEAR"
                  ELSE IF IsRanging(v) THEN "RANGING" ELSE "UNKNOWN"

=============================================================================
