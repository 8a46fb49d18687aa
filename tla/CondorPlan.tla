----------------------------- MODULE CondorPlan -----------------------------
(***************************************************************************)
(* The plan object of strategy/iron_condor_strategy.py: which side of the  *)
(* condor is waiting for its price trigger.  The plan lives in process     *)
(* memory only.  Strikes, credits and the expected move are abstracted:    *)
(* what the state machine tells apart is the side a trigger concerns.      *)
(***************************************************************************)
EXTENDS TradingDay

Sides      == {"call", "put"}
AllRegimes == {"RANGING", "COMPRESSION", "TREND", "SWEEP", "UNKNOWN"}

VARIABLES
  plan,      \* self._plan
  planDate   \* self._last_reset_date; 0 is the initial None

planVars == <<plan, planDate>>

PlanStates == {"NONE", "DECIDED", "LEG1_FILLED", "COMPLETE"}

\* condor is history: the book row of Leg 1.
PlanType(Ids) == [state : PlanStates, leg1 : Sides, condor : Ids \cup {0}]

NoPlan == [state |-> "NONE", leg1 |-> "call", condor |-> 0]

Other(s) == IF s = "call" THEN "put" ELSE "call"

PlanInit == plan = NoPlan /\ planDate = 0

HasActivePlan == plan.state \in {"DECIDED", "LEG1_FILLED"}

\* (mutant) Leg 2 is queued on the side of Leg 1.
PendingSideMutant == plan.leg1

\* The side whose trigger price the pending leg waits for.
PendingSide == IF plan.state = "DECIDED" THEN plan.leg1 ELSE Other(plan.leg1)

-----------------------------------------------------------------------------
\* (mutant) The 14:00 cutoff is forgotten.
PendingLegDroppedMutant(regime, t) == regime # "RANGING"

\* check_leg_triggers(), first half: a regime other than RANGING, or the
\* 14:00 cutoff, drops the pending leg.  The 11:00 start is not looked at.
PendingLegDropped(regime, t) == regime # "RANGING" \/ IsPastEntryCutoff(t)

DropPendingLeg ==
  /\ plan' = IF plan.state = "DECIDED"
             THEN NoPlan
             ELSE [plan EXCEPT !.state = "COMPLETE"]
  /\ UNCHANGED planDate

\* check_leg_triggers(), second half: price has reached the pending side.
\* trig is the set of sides whose trigger level the price has reached; in a
\* tight band both can be reached at once.
LegTriggered(regime, t, trig) ==
  /\ ~PendingLegDropped(regime, t)
  /\ PendingSide \in trig

\* (mutant) A filled Leg 2 leaves the plan waiting for Leg 2.
NotifyLegFilledMutant(i) ==
  /\ plan' = [plan EXCEPT !.state = "LEG1_FILLED", !.condor = i]
  /\ UNCHANGED planDate

\* notify_leg_filled(): i is the book row just opened for the leg.
NotifyLegFilled(i) ==
  /\ plan' = IF plan.state = "DECIDED"
             THEN [plan EXCEPT !.state = "LEG1_FILLED", !.condor = i]
             ELSE [plan EXCEPT !.state = "COMPLETE"]
  /\ UNCHANGED planDate

\* decide(): the new-day reset happens only here, then the window, the
\* one-plan rule and the regime.  The VIX, expected-move, band and guardrail
\* checks may refuse a plan in any state: that is the choice of no side.
PlanAfterReset(d) == IF planDate = d THEN plan ELSE NoPlan

MayDecide(regime, t, d) ==
  /\ t >= Midday /\ ~IsPastEntryCutoff(t)
  /\ PlanAfterReset(d).state = "NONE"
  /\ regime = "RANGING"

Decide(regime, t, d, side) ==
  /\ planDate' = d
  /\ plan' = IF MayDecide(regime, t, d) /\ side \in Sides
             THEN [NoPlan EXCEPT !.state = "DECIDED", !.leg1 = side]
             ELSE PlanAfterReset(d)

=============================================================================
