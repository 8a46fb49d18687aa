--------------------------- MODULE ButterflyTrade ---------------------------
(* The debit butterfly: generate_signal of strategy/butterfly_strategy.py,   *)
(* its size (risk_manager.py, compute_size), its order (entry_engine.py,     *)
(* _place_butterfly) and its exits (exit_engine.py, _evaluate_butterfly).    *)
EXTENDS MacroData, OptionChain, Sequences

CONSTANTS
  FlyWidth,      \* BUTTERFLY_WING, in ticks
  FlyReach,      \* one expected move for the rest of the session, in ticks
  Improve,       \* LIMIT_IMPROVE_TICKS, in ticks
  FlyRisk        \* risk per trade, in ticks of one contract

ASSUME FlyAssumption == {FlyWidth, FlyReach, Improve, FlyRisk} \subseteq Nat

VARIABLES
  fired,         \* ButterflyStrategy._fired_today
  signal,        \* the sized signal on its way to the entry engine
  attempt,       \* the attempt of _place_butterfly: 1 or 2
  orders,        \* the butterfly orders the broker accepted
  fly            \* the booked butterfly

flyVars == <<fired, signal, attempt, orders, fly>>

NoSignal == [lots |-> 0]
NoFly    == [open |-> FALSE, order |-> 0, lots |-> 0, mark |-> 0, known |-> 0]

\* debit, grade and macro are history: what the order was sized by.
Order == [status : {"working", "filled", "gone"}, lots : Nat, limit : Nat, debit : Nat,
          grade : {"A", "B"}, macro : Snapshot]

-----------------------------------------------------------------------------
\* The three contracts, each the nearest liquid one to its strike.
Wings(c, s, pin) ==
  [lower |-> Contract(c, s, pin - FlyWidth), center |-> Contract(c, s, pin),
   upper |-> Contract(c, s, pin + FlyWidth)]

FlyValue(c, s, w) == c[s][w.lower] + c[s][w.upper] - 2 * c[s][w.center]

MaxProfit(c, s, w) == (w.upper - w.center) - FlyValue(c, s, w)

FlySignal(c, s, pin) ==
  /\ Distance(c.price, pin) <= FlyReach
  /\ Liquid(c, s) # {}
  /\ FlyValue(c, s, Wings(c, s, pin)) > 0
  /\ MaxProfit(c, s, Wings(c, s, pin)) > 0

\* Grade A is one and a half times the risk, a normal VIX halves it.
FlyLots(debit, grade, half) ==
  (FlyRisk * IF grade = "A" THEN 3 ELSE 2) \div ((IF half THEN 4 ELSE 2) * debit)

Limit == signal.debit + (attempt - 1) * Improve

OrderOf(status) ==
  [status |-> status, lots |-> signal.lots, limit |-> Limit, debit |-> signal.debit,
   grade |-> signal.grade, macro |-> macro]

\* The record of a fill.
FlyRow(order) ==
  [open |-> TRUE, order |-> order, lots |-> signal.lots, mark |-> 0, known |-> 0,
   side |-> signal.side, wings |-> signal.wings, debit |-> signal.debit, profit |-> signal.profit]

-----------------------------------------------------------------------------
\* A trend, the 150 minutes, 75 % of the debit or 20 % of the profit.
FlyExitIsDue(regime, old, premium) ==
  \/ regime \in {"TRENDING_BULL", "TRENDING_BEAR", "BREAKOUT_VOLATILE"}
  \/ old
  \/ 4 * premium <= 3 * fly.debit
  \/ 5 * premium >= 5 * fly.debit + fly.profit

=============================================================================
