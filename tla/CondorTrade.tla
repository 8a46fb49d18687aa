----------------------------- MODULE CondorTrade ----------------------------
(* The iron condor with its prices: the strikes and triggers of              *)
(* strategy/iron_condor_strategy.py, the size of a vertical (risk_manager.py,*)
(* compute_condor_leg_size), its exits (exit_engine.py, _evaluate_condor_leg)*)
(* and the broken-wing roll (condor_roll.py).                                *)
EXTENDS CondorPlan, OptionChain, Sequences

CONSTANTS
  WingWidth,     \* CONDOR_WING_WIDTH, in ticks
  Risk,          \* risk per trade, in ticks of one contract
  Nickel,        \* CONDOR_NICKEL_CLOSE
  Proximity      \* CONDOR_PROXIMITY_STRIKES

ASSUME CondorAssumption == {WingWidth, Risk, Nickel, Proximity} \subseteq Nat

VARIABLES
  strikes,       \* the plan's strikes: per side, short and long
  rows,          \* the verticals of the day, open and closed
  listed,        \* PositionManager._open_records: the rows in use
  market         \* what the tick sees: the chain and the regime

condorVars == <<plan, planDate, strikes, rows, listed>>

NoStrikes == [s \in Sides |-> [short |-> NoStrike, long |-> NoStrike]]

chain == market.chain
price == market.chain.price

Trends == {"TRENDING_BULL", "TRENDING_BEAR", "BREAKOUT_VOLATILE"}

\* mark is an open row's current_premium in the table and known what the record
\* in memory has of it; condor, from and tested are history: the Leg 1 row of the structure,
\* and the rows a rolled vertical replaced and protects.
Row == [open : BOOLEAN, side : Sides, short : Nat, long : Int, credit : Int, lots : Nat,
        exit : Int, mark : Int, known : Int, wing : BOOLEAN,
        condor : Nat, from : Nat, tested : Nat]

Open     == {i \in DOMAIN rows : rows[i].open}
Width(r) == Distance(r.short, r.long)

-----------------------------------------------------------------------------
(* The strikes of a plan.                                                    *)

\* The straddle at the money.
ExpectedMove ==
  IF Liquid(chain, "call") = {} \/ Liquid(chain, "put") = {} THEN 0
  ELSE chain["call"][Contract(chain, "call", price)] + chain["put"][Contract(chain, "put", price)]

\* The first liquid strike at or outside the band, or the nearest inside.
SelectByBand(s, band) ==
  LET outside == {k \in Liquid(chain, s) : IF s = "call" THEN k >= band ELSE k <= band}
  IN IF outside # {} THEN Nearest(outside, band) ELSE Contract(chain, s, band)

\* A band that is not known is one expected move away.
Upper(b) == IF b.upper > 0 THEN b.upper ELSE price + ExpectedMove
Lower(b) == IF b.lower > 0 THEN b.lower ELSE price - ExpectedMove

PlanStrikes(b) ==
  LET call == SelectByBand("call", Upper(b))
      put  == SelectByBand("put", Lower(b))
  IN [s \in Sides |-> IF s = "call" THEN [short |-> call, long |-> call + WingWidth]
                                    ELSE [short |-> put, long |-> put - WingWidth]]

\* The bands hold the price, and neither short is beyond 1.2 expected moves.
PlanIsUsable(b) ==
  /\ ExpectedMove > 0
  /\ Lower(b) < price /\ price < Upper(b)
  /\ 5 * (PlanStrikes(b)["call"].short - price) <= 6 * ExpectedMove
  /\ 5 * (price - PlanStrikes(b)["put"].short) <= 6 * ExpectedMove

Trigger(p, s) == IF s = "call" THEN p[s].short - Proximity * Inc ELSE p[s].short + Proximity * Inc

\* Leg 1 is the side whose trigger is nearer.
FirstSide(p) ==
  IF Distance(price, Trigger(p, "call")) <= Distance(price, Trigger(p, "put")) THEN "call" ELSE "put"

Reached == {s \in Sides : IF s = "call" THEN price >= Trigger(strikes, s) ELSE price <= Trigger(strikes, s)}

-----------------------------------------------------------------------------
(* A leg.                                                                    *)

\* Mutant: the whole budget for one side.
LegLotsMutant(width, credit) == IF width <= credit THEN 0 ELSE Risk \div (width - credit)

\* Half the budget, whole contracts.
LegLots(width, credit) == IF width <= credit THEN 0 ELSE Risk \div (2 * (width - credit))

Vertical(s, short, long, credit, lots, condor) ==
  [open |-> TRUE, side |-> s, short |-> short, long |-> long, credit |-> credit, lots |-> lots,
   exit |-> 0, mark |-> 0, known |-> 0, wing |-> FALSE, condor |-> condor, from |-> 0, tested |-> 0]

\* _build_leg_signal and _execute_condor_leg: the nearest liquid contracts to
\* the planned strikes.
LegOf(s) ==
  LET short  == Contract(chain, s, strikes[s].short)
      long   == Contract(chain, s, strikes[s].long)
      credit == Spread(chain, s, short, long)
  IN Vertical(s, short, long, credit, LegLots(Distance(short, long), credit),
              IF plan.state = "DECIDED" THEN Len(rows) + 1 ELSE plan.condor)

\* Mutant: a vertical the budget does not carry is sold all the same.
LegCanFillMutant(s) == Liquid(chain, s) # {} /\ LegOf(s).credit > 0

LegCanFill(s) == Liquid(chain, s) # {} /\ LegOf(s).credit > 0 /\ LegOf(s).lots >= 1

FillLeg ==
  /\ rows' = Append(rows, LegOf(PendingSide))
  /\ listed' = listed \cup {Len(rows) + 1}
  /\ NotifyLegFilled(Len(rows) + 1)

-----------------------------------------------------------------------------
(* Exits.                                                                    *)

\* Mutant: a downtrend threatens nothing.
AdverseMutant(s, regime) ==
  \/ regime = "BREAKOUT_VOLATILE"
  \/ s = "call" /\ regime = "TRENDING_BULL"

\* A trend towards the short strike.
Adverse(s, regime) ==
  \/ regime = "BREAKOUT_VOLATILE"
  \/ s = "call" /\ regime = "TRENDING_BULL"
  \/ s = "put"  /\ regime = "TRENDING_BEAR"

\* A trend, 125 % of the credit, or the nickel.
LegExitIsDue(r, regime, premium) ==
  Adverse(r.side, regime) \/ 4 * premium >= 5 * r.credit \/ premium <= Nickel

Closed(r, premium) == [r EXCEPT !.open = FALSE, !.exit = premium, !.mark = 0, !.known = 0]

-----------------------------------------------------------------------------
(* The broken-wing roll.                                                     *)

\* classify_tested, the call side first.
TestedSide(call, put) ==
  IF price >= rows[call].short - Inc THEN "call"
  ELSE IF price <= rows[put].short + Inc THEN "put" ELSE "none"

\* Two verticals, one on each side, neither in its final form; t is tested.
MayRoll(t, u) ==
  /\ t # u /\ listed = {t, u}
  /\ rows[t].side = Other(rows[u].side)
  /\ ~rows[t].wing /\ ~rows[u].wing
  /\ rows[t].side = IF rows[t].side = "call" THEN TestedSide(t, u) ELSE TestedSide(u, t)

\* From the untested short strike toward the price.
Toward(u) ==
  {k \in Strikes : IF u.side = "put" THEN u.short < k /\ k <= price ELSE price <= k /\ k < u.short}

RolledLong(u, k) == IF u.side = "put" THEN k - Width(u) ELSE k + Width(u)

CloseCost(u) ==
  LET cost == Spread(chain, u.side, u.short, u.long) IN IF cost > 0 THEN cost ELSE 0

RollCredit(u, k) == Spread(chain, u.side, k, RolledLong(u, k))

\* Mutant: what the old vertical costs to buy back is forgotten.
RiskFreeMutant(t, u, k) ==
  /\ Priced(chain, u.side, {k, RolledLong(u, k)})
  /\ RollCredit(u, k) > 0
  /\ t.credit + u.credit + RollCredit(u, k) >= Width(t)

\* All the credit, less the cost of closing, covers the tested width.
RiskFree(t, u, k) ==
  /\ Priced(chain, u.side, {k, RolledLong(u, k)})
  /\ RollCredit(u, k) > 0
  /\ t.credit + u.credit + RollCredit(u, k) - CloseCost(u) >= Width(t)

\* find_risk_free_roll marches toward the price and takes the first one.
IsRoll(t, u, k) ==
  /\ Priced(chain, u.side, {u.short, u.long})
  /\ k \in Toward(u) /\ RiskFree(t, u, k)
  /\ \A j \in Toward(u) : Distance(j, u.short) < Distance(k, u.short) => ~RiskFree(t, u, j)

Rolled(t, u, k) ==
  [Vertical(rows[u].side, k, RolledLong(rows[u], k), RollCredit(rows[u], k), rows[u].lots,
            rows[u].condor)
     EXCEPT !.wing = TRUE, !.from = u, !.tested = t]

\* _execute_roll: the old vertical closed, the new one opened, both final.
ExecuteRoll(t, u, k) ==
  /\ rows' = Append([rows EXCEPT ![u] = Closed(@, CloseCost(@)), ![t].wing = TRUE], Rolled(t, u, k))
  /\ listed' = {t, Len(rows) + 1}

=============================================================================
