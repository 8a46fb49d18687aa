------------------------------ MODULE NeutralDay ----------------------------
(* A day of the neutral strategies with their prices: the iron condor and    *)
(* its roll, the butterfly and its limit order, under the macro snapshot,    *)
(* through the tick of main.py that TradingLoop models without prices.       *)
(* Directional trades, the daily limit and the adoption of positions at the  *)
(* broker are left to TradingLoop and BrokerSync.                            *)
EXTENDS CondorTrade, ButterflyTrade

CONSTANTS
  Chains,        \* the chains a tick may see
  Bands,         \* the Bollinger bands decide() may see
  Regimes,       \* the verdicts of the classifier
  Pins,          \* the strikes the gamma pins the price to
  Grades,        \* the scorer's verdicts; "none" is below B
  Leans,         \* the sides the VWAP may lean to
  Quotes,        \* the broker's quote of one option; 0 is none
  MaxOrders,     \* verticals and butterfly orders in a day
  MaxCrashes

ASSUME DayAssumption ==
  /\ Chains \subseteq Chain
  /\ Bands \subseteq [upper : Nat, lower : Nat]
  /\ "UNKNOWN" \notin Trends /\ Leans \subseteq Sides
  /\ Grades \subseteq {"A", "B", "none"} /\ Pins \subseteq Strikes /\ Quotes \subseteq Nat
  /\ MaxOrders \in Nat /\ MaxCrashes \in Nat

VARIABLES
  live,          \* not state.paper_trading
  slot,          \* the time of day
  pc,            \* the step of the tick
  crashes

vars == <<condorVars, market, flyVars, fedDay, macro, live, slot, pc, crashes>>

NoMarket == [chain |-> [price |-> 0, call |-> [k \in Strikes |-> 0], put |-> [k \in Strikes |-> 0]],
             regime |-> "UNKNOWN"]

Init ==
  /\ PlanInit /\ strikes = NoStrikes /\ rows = <<>> /\ listed = {} /\ market = NoMarket
  /\ fired = FALSE /\ signal = NoSignal /\ attempt = 1 /\ orders = <<>> /\ fly = NoFly
  /\ fedDay \in BOOLEAN /\ macro = NoSnapshot
  /\ live \in BOOLEAN /\ slot = Midday /\ pc = "idle" /\ crashes = 0

EndTick == pc' = "idle" /\ market' = NoMarket

\* get_open_trades: what the table has of a row is what the list holds.
Loaded(rs) == [i \in DOMAIN rs |-> [rs[i] EXCEPT !.known = rs[i].mark]]

MayOrder == Len(rows) + Len(orders) < MaxOrders

-----------------------------------------------------------------------------
\* MacroManager.get with a snapshot that is too old.  From 14:00 on nothing
\* depends on it.
Refresh ==
  /\ pc = "idle" /\ slot < Afternoon /\ ~IsFresh(slot)
  /\ \E ok, calendar \in BOOLEAN, level \in Levels : Fetch(slot, ok, level, calendar)
  /\ UNCHANGED <<condorVars, market, flyVars, fedDay, live, slot, pc, crashes>>

-----------------------------------------------------------------------------
(* has_open_position and manage_open_position.                               *)

\* The list is read from the table when it is empty.
IsEmpty == listed = {} /\ ~fly.open
InUse   == IF IsEmpty THEN Open ELSE listed
Records == IF IsEmpty THEN Loaded(rows) ELSE rows

\* What stands in for a spread the chain does not price: on paper the mark
\* the record knows or its entry, live the short option alone.
StandIn(r, quote) == IF live THEN quote ELSE IF r.known > 0 THEN r.known ELSE r.credit

HasMark(c, r, quote) == Priced(c, r.side, {r.short, r.long}) \/ ~live \/ quote > 0

Premium(c, r, quote) ==
  IF Priced(c, r.side, {r.short, r.long}) THEN Spread(c, r.side, r.short, r.long)
  ELSE StandIn(r, quote)

\* update_current_premium; live nothing reads it back.
Mark(p) == IF live THEN 0 ELSE p

\* _manage_one
Managed(c, regime, r, quote, refused) ==
  LET p == Premium(c, r, quote)
  IN IF ~HasMark(c, r, quote) THEN r
     ELSE IF LegExitIsDue(r, regime, p) /\ ~refused THEN Closed(r, p)
     ELSE [r EXCEPT !.mark = Mark(p)]

FlyPriced(c)  == Priced(c, fly.side, {fly.wings.lower, fly.wings.center, fly.wings.upper})
FlyPremium(c) == IF FlyPriced(c) THEN FlyValue(c, fly.side, fly.wings)
                 ELSE IF fly.known > 0 THEN fly.known ELSE fly.debit

\* A live butterfly has no symbols: it is neither quoted nor sold.
ManagedFly(c, regime, old) ==
  IF ~fly.open \/ (live /\ ~FlyPriced(c)) THEN fly
  ELSE IF ~live /\ FlyExitIsDue(regime, old, FlyPremium(c)) THEN NoFly
  ELSE [fly EXCEPT !.mark = Mark(FlyPremium(c))]

\* A live order may be refused.
Refusals == IF live THEN SUBSET InUse ELSE {{}}

MayTick == pc = "idle" /\ slot < Closing /\ (slot < Afternoon => IsFresh(slot))

\* check_and_execute_roll returns at once unless two verticals are held.
ThenRoll(m) == IF Cardinality(listed') = 2 THEN pc' = "roll" /\ market' = m ELSE EndTick

Manage ==
  /\ MayTick /\ (InUse # {} \/ fly.open)
  /\ \E m \in [chain : Chains, regime : Regimes], quote \in [InUse -> Quotes],
        refused \in Refusals, old \in {FALSE, slot = Afternoon} :
       /\ rows' = [i \in DOMAIN rows |->
                     IF i \in InUse
                     THEN Managed(m.chain, m.regime, Records[i], quote[i], i \in refused)
                     ELSE rows[i]]
       /\ fly' = ManagedFly(m.chain, m.regime, old)
       /\ listed' = {i \in InUse : rows'[i].open}
       /\ IF plan.state = "LEG1_FILLED" THEN pc' = "leg" /\ market' = m ELSE ThenRoll(m)
  /\ UNCHANGED <<plan, planDate, strikes, fired, signal, attempt, orders,
                 fedDay, macro, live, slot, crashes>>

\* With nothing open the tick goes on to attempt_new_entry, which returns at
\* once outside the session's window, in a crisis or without a regime.
NothingOpen ==
  /\ MayTick /\ InUse = {} /\ ~fly.open
  /\ CanEnter(slot) /\ EntriesAllowed
  /\ market' \in [chain : Chains, regime : Regimes \ {"UNKNOWN"}]
  /\ pc' = "entry"
  /\ UNCHANGED <<condorVars, flyVars, fedDay, macro, live, slot, crashes>>

-----------------------------------------------------------------------------
(* The triggers of the plan.                                                 *)

LegDropped == PendingLegDropped(market.regime, slot)

\* check_leg_triggers and _execute_condor_leg, without the order's refusal.
DropLeg == LegDropped /\ DropPendingLeg /\ UNCHANGED <<strikes, rows, listed>>

Leg ==
  /\ LegTriggered(market.regime, slot, Reached) /\ LegCanFill(PendingSide)
  /\ MayOrder
  /\ FillLeg
  /\ UNCHANGED strikes

LegWaits ==
  /\ ~LegDropped
  /\ live \/ ~LegTriggered(market.regime, slot, Reached) \/ ~LegCanFill(PendingSide)
  /\ UNCHANGED condorVars

CheckLegTriggers == DropLeg \/ Leg \/ LegWaits

\* Leg 2 in the tick that managed the list.
LegStage ==
  /\ pc = "leg"
  /\ CheckLegTriggers
  /\ ThenRoll(market)
  /\ UNCHANGED <<flyVars, fedDay, macro, live, slot, crashes>>

-----------------------------------------------------------------------------
\* check_and_execute_roll.  The live close may be refused.
Roll ==
  /\ pc = "roll" /\ MayOrder
  /\ \E t, u \in listed : /\ MayRoll(t, u)
                          /\ \E k \in Strikes : IsRoll(rows[t], rows[u], k) /\ ExecuteRoll(t, u, k)
  /\ EndTick
  /\ UNCHANGED <<plan, planDate, strikes, flyVars, fedDay, macro, live, slot, crashes>>

NoRoll ==
  /\ pc = "roll"
  /\ \/ live
     \/ \A t, u \in listed : MayRoll(t, u) => \A k \in Strikes : ~IsRoll(rows[t], rows[u], k)
  /\ EndTick
  /\ UNCHANGED <<condorVars, flyVars, fedDay, macro, live, slot, crashes>>

-----------------------------------------------------------------------------
(* attempt_new_entry.                                                        *)

FlyWindow ==
  /\ market.regime \in {"RANGING", "COMPRESSION"}
  /\ slot = Noon /\ ~fired /\ ButterflyAllowed

\* Mutant: the butterfly of the day is not remembered.
MarkFiredMutant == UNCHANGED fired

\* The last line of generate_signal.
MarkFired == fired' = TRUE

\* A signal, scored and sized; one that is not is dropped.
Signal(s, pin, grade) ==
  LET w     == Wings(chain, s, pin)
      debit == FlyValue(chain, s, w)
      lots  == IF grade = "none" THEN 0 ELSE FlyLots(debit, grade, HalfSize)
  IN IF lots = 0 THEN NoSignal
     ELSE [lots |-> lots, side |-> s, wings |-> w, debit |-> debit, grade |-> grade,
           profit |-> MaxProfit(chain, s, w)]

\* The butterfly comes first; the plan is looked at in the same tick.
EnterFly ==
  /\ pc = "entry" /\ FlyWindow
  /\ \E s \in Leans, pin \in Pins, grade \in Grades :
       FlySignal(chain, s, pin) /\ signal' = Signal(s, pin, grade)
  /\ MarkFired
  /\ IF HasActivePlan THEN CheckLegTriggers ELSE UNCHANGED condorVars
  /\ attempt' = 1
  /\ IF signal' = NoSignal THEN EndTick ELSE pc' = "place" /\ UNCHANGED market
  /\ UNCHANGED <<orders, fly, fedDay, macro, live, slot, crashes>>

EnterCondor ==
  /\ pc = "entry"
  /\ IF HasActivePlan THEN CheckLegTriggers
     ELSE IF market.regime = "RANGING"
     THEN \E b \in Bands :
            LET usable == Calm /\ PlanIsUsable(b)
            IN /\ Decide(market.regime, slot, 1, IF usable THEN FirstSide(PlanStrikes(b)) ELSE "none")
               /\ strikes' = IF usable /\ plan'.state = "DECIDED" THEN PlanStrikes(b) ELSE strikes
               /\ UNCHANGED <<rows, listed>>
     ELSE UNCHANGED condorVars
  /\ EndTick
  /\ UNCHANGED <<flyVars, fedDay, macro, live, slot, crashes>>

-----------------------------------------------------------------------------
(* _place_butterfly and what enter() makes of it.                            *)

\* Mutant: an order the broker accepted counts as filled.
BookedMutant(status) == status \in {"filled", "working"}

Booked(status) == status = "filled"

\* set_open_position: the list is the butterfly alone.
BookFly(order) == fly' = FlyRow(order) /\ listed' = {} /\ signal' = NoSignal /\ EndTick

NoFill == fly' = fly /\ listed' = listed /\ signal' = NoSignal /\ EndTick

PaperFly ==
  /\ pc = "place" /\ ~live
  /\ BookFly(0)
  /\ UNCHANGED <<plan, planDate, strikes, rows, fired, attempt, orders, fedDay, macro, live,
                 slot, crashes>>

\* The order is accepted and fills at once or does not.
PlaceFly ==
  /\ pc = "place" /\ live /\ MayOrder
  /\ \E status \in {"filled", "working"} :
       /\ orders' = Append(orders, OrderOf(status))
       /\ IF Booked(status) THEN BookFly(Len(orders'))
          ELSE pc' = "cancel" /\ UNCHANGED <<fly, listed, signal, market>>
  /\ UNCHANGED <<plan, planDate, strikes, rows, fired, attempt, fedDay, macro, live, slot, crashes>>

\* It is refused, which leads to the second attempt, or the call raises,
\* which leads to none; the order may have been accepted all the same.
PlaceFails ==
  /\ pc = "place" /\ live
  /\ \/ attempt = 1 /\ attempt' = 2 /\ orders' = orders
        /\ UNCHANGED <<fly, listed, signal, pc, market>>
     \/ attempt' = attempt /\ orders' = orders /\ NoFill
     \/ /\ MayOrder
        /\ attempt' = attempt /\ orders' = Append(orders, OrderOf("working")) /\ NoFill
  /\ UNCHANGED <<plan, planDate, strikes, rows, fired, fedDay, macro, live, slot, crashes>>

\* Half a minute later delete_order, whose answer nobody looks at.
CancelFly ==
  /\ pc = "cancel"
  /\ \/ orders' = orders
     \/ /\ orders[Len(orders)].status = "working"
        /\ orders' = [orders EXCEPT ![Len(orders)].status = "gone"]
  /\ IF attempt = 1 THEN attempt' = 2 /\ pc' = "place" /\ UNCHANGED <<fly, listed, signal, market>>
     ELSE NoFill /\ attempt' = attempt
  /\ UNCHANGED <<plan, planDate, strikes, rows, fired, fedDay, macro, live, slot, crashes>>

BrokerFills ==
  /\ slot < AfterHours
  /\ \E i \in DOMAIN orders : /\ orders[i].status = "working"
                              /\ orders' = [orders EXCEPT ![i].status = "filled"]
  /\ UNCHANGED <<condorVars, market, fired, signal, attempt, fly, fedDay, macro, live, slot, pc,
                 crashes>>

-----------------------------------------------------------------------------
\* flatten_all, which handle_hard_close gives no chain.
Flatten ==
  /\ pc = "idle" /\ slot = Closing /\ (InUse # {} \/ fly.open)
  /\ \E quote \in [InUse -> Quotes], refused \in Refusals :
       rows' = [i \in DOMAIN rows |->
                  IF i \in InUse \ refused
                  THEN LET p == StandIn(Records[i], quote[i])
                       IN Closed(rows[i], IF p > 0 THEN p ELSE rows[i].credit)
                  ELSE rows[i]]
  /\ listed' = {i \in InUse : rows'[i].open}
  /\ fly' = IF live THEN fly ELSE NoFly
  /\ UNCHANGED <<plan, planDate, strikes, market, pc, fired, signal, attempt, orders, fedDay, macro, live,
                 slot, crashes>>

Advance ==
  /\ pc \in {"idle", "cancel"} /\ slot < AfterHours
  /\ slot' = slot + 1
  /\ orders' = IF slot' = AfterHours
               THEN [i \in DOMAIN orders |->
                       IF orders[i].status = "working" THEN [orders[i] EXCEPT !.status = "gone"]
                       ELSE orders[i]]
               ELSE orders
  /\ UNCHANGED <<condorVars, market, fired, signal, attempt, fly, fedDay, macro, live, pc, crashes>>

\* The process dies and systemd starts it again; rows and orders remain.
Restart ==
  /\ crashes < MaxCrashes /\ crashes' = crashes + 1
  /\ plan' = NoPlan /\ planDate' = 0 /\ strikes' = NoStrikes
  /\ rows' = Loaded(rows) /\ listed' = Open
  /\ fired' = FALSE /\ signal' = NoSignal /\ attempt' = 1
  /\ fly' = [fly EXCEPT !.known = fly.mark]
  /\ macro' = NoSnapshot
  /\ EndTick
  /\ UNCHANGED <<orders, fedDay, live, slot>>

Next ==
  \/ Refresh \/ NothingOpen \/ Manage \/ LegStage \/ Roll \/ NoRoll
  \/ EnterFly \/ EnterCondor \/ PaperFly \/ PlaceFly \/ PlaceFails \/ CancelFly
  \/ BrokerFills \/ Flatten \/ Advance \/ Restart

Spec == Init /\ [][Next]_vars

=============================================================================
