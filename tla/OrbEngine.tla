----------------------------- MODULE OrbEngine ------------------------------
(***************************************************************************)
(* The opening-range breakout state machine of analysis/orb_engine.py, the *)
(* range file it reads (analysis/get_orb_range.py) and what the loop of    *)
(* main.py does with it: session reset, update, dispatch, position close.  *)
(*                                                                         *)
(* A tick has two steps, the update of the engine and the dispatch: chain  *)
(* fetches and the order lie between and after them, while the clock may   *)
(* strike and the process may be killed.  A 1-minute candle is read by     *)
(* several ticks; levels and prices are integers on a small grid.          *)
(***************************************************************************)
EXTENDS Integers

CONSTANTS
  High, Low,     \* the opening range
  Buffer,        \* ORB_BREAK_BUFFER, in grid units
  Tol,           \* how far into the range a body may reach: 0.1 percent
  MaxRetest,     \* ORB_MAX_RETEST_BARS
  Candles,       \* the closed 1-minute candles the market produces
  MaxBars,       \* bound on the candles of a day
  MaxDay,        \* bound on the days
  MaxCrashes     \* bound on the kills of the process

ASSUME OrbAssumption ==
  /\ {High, Low, Buffer, Tol} \subseteq Nat /\ Low < High
  /\ MaxRetest \in Nat /\ MaxBars \in Nat \ {0} /\ MaxDay \in Nat \ {0}
  /\ MaxCrashes \in Nat
  /\ Candles \subseteq [open : Int, high : Int, low : Int, close : Int]

VARIABLES
  eng,           \* the ORBEngine object
  up,            \* the process is running
  pc,            \* between two ticks, or between update and dispatch
  late,          \* the clock has struck since the update of this tick
  reset,         \* BotState.session_reset_done
  regime,        \* BotState.current_regime, of the last tick
  pos,           \* what kind of position is open
  fileOk,        \* orb_range.json says ESTABLISHED and today
  phase, day,    \* the clock
  candle, bar,   \* the last closed candle, and how many there were today
  saw,           \* history: breaks a tick of this session has read
  crashes

marketVars == <<fileOk, phase, day, candle, bar>>
vars == <<eng, up, pc, late, reset, regime, pos, marketVars, saw, crashes>>

Dirs    == {"long", "short"}
Regimes == {"RANGING", "TREND", "SWEEP", "UNKNOWN"}   \* RANGING: the friendly ones
Phases  == {"morning", "midday", "closed"}   \* before 11:00, after it, no RTH

Awaiting == [long |-> "BREAK_HIGH_AWAITING_RETEST", short |-> "BREAK_LOW_AWAITING_RETEST"]
Open     == [long |-> "OPEN_LONG", short |-> "OPEN_SHORT"]
Opens    == {Open[d] : d \in Dirs}

States == {"WAITING", "RANGING", "INVALIDATED", "EXPIRED"}
            \cup {Awaiting[d] : d \in Dirs} \cup Opens

\* handed is history: a setup of this session ran away or timed out.
Engine == [state : States, dir : Dirs \cup {""}, bars : Nat,
           reason : {"", "runaway", "close_inside", "timeout"},
           broke : SUBSET Dirs, ranged : BOOLEAN, handed : BOOLEAN]

NewEngine == [state |-> "WAITING", dir |-> "", bars |-> 0, reason |-> "",
              broke |-> {}, ranged |-> FALSE, handed |-> FALSE]

-----------------------------------------------------------------------------
(* What a candle does to a level.  Half the range beyond it is the 50% target. *)

Half == (High - Low) \div 2

BodyHigh(c) == IF c.open > c.close THEN c.open ELSE c.close
BodyLow(c)  == IF c.open > c.close THEN c.close ELSE c.open

BreaksOut(d, c) ==
  IF d = "long" THEN c.close > High + Buffer ELSE c.close < Low - Buffer

RunsAway(d, c) ==
  IF d = "long" THEN c.high >= High + Half ELSE c.low <= Low - Half

Retests(d, c) ==
  IF d = "long" THEN c.low < High /\ BodyLow(c) >= High - Tol
                ELSE c.high > Low /\ BodyHigh(c) <= Low + Tol

ClosesInside(d, c) ==
  IF d = "long" THEN c.close < High ELSE c.close > Low

-----------------------------------------------------------------------------
(* The operations of the engine, as functions of the engine.               *)

\* _rearm(): new data, the range and the latches stay.
Rearm(e) ==
  [NewEngine EXCEPT !.state = "RANGING", !.broke = e.broke, !.ranged = e.ranged,
                    !.handed = e.handed]

\* _load_range_from_file(), called until the range of the day is known.
LoadRange(e) ==
  IF e.ranged \/ ~fileOk THEN e
  ELSE [e EXCEPT !.ranged = TRUE, !.state = IF @ = "WAITING" THEN "RANGING" ELSE @]

\* (mutant) Before v1.9: latched only where a break is looked for.
LatchBreaksMutant(e, c) ==
  IF e.ranged /\ e.state = "RANGING"
  THEN [e EXCEPT !.broke = @ \cup {d \in Dirs : BreaksOut(d, c)}] ELSE e

\* (mutant) The latch wants a wider break than the setup.
WideLatchMutant(e, c) ==
  IF e.ranged
  THEN [e EXCEPT !.broke = @ \cup {d \in Dirs :
          BreaksOut(d, [c EXCEPT !.close = IF d = "long" THEN @ - Buffer ELSE @ + Buffer])}]
  ELSE e

\* _update_break_latches(): in every state.
LatchBreaks(e, c) ==
  IF e.ranged THEN [e EXCEPT !.broke = @ \cup {d \in Dirs : BreaksOut(d, c)}] ELSE e

\* _check_for_break()
CheckForBreak(e, c) ==
  IF e.state = "RANGING" /\ \E d \in Dirs : BreaksOut(d, c)
  THEN LET d == CHOOSE d \in Dirs : BreaksOut(d, c)
       IN  [e EXCEPT !.state = Awaiting[d], !.dir = d, !.bars = 0]
  ELSE e

\* (mutant) A state of its own for what status.py calls disarmed.
InvalidateMutant(e, why) == [e EXCEPT !.state = "DISARMED", !.reason = why]

Invalidate(e, why) == [e EXCEPT !.state = "INVALIDATED", !.reason = why,
                                !.handed = @ \/ why # "close_inside"]

\* _check_for_retest(): counts ticks, then runaway, retest, close inside.
\* A retest during a sweep regime is left waiting.
CheckForRetest(e, c, r) ==
  LET counted == [e EXCEPT !.bars = @ + 1]
  IN  IF e.dir = "" \/ e.state # Awaiting[e.dir] THEN e
      ELSE IF counted.bars > MaxRetest THEN Invalidate(counted, "timeout")
      ELSE IF RunsAway(e.dir, c) THEN Invalidate(counted, "runaway")
      ELSE IF Retests(e.dir, c)
           THEN IF r = "SWEEP" THEN counted ELSE [counted EXCEPT !.state = Open[e.dir]]
      ELSE IF ClosesInside(e.dir, c) THEN Invalidate(counted, "close_inside")
      ELSE counted

\* (mutant) Every invalidation re-arms.
RearmAfterMutant(e) == IF e.state = "INVALIDATED" THEN Rearm(e) ELSE e

\* The end of update(): only a close inside the range re-arms.
RearmAfter(e) ==
  IF e.state = "INVALIDATED" /\ e.reason = "close_inside" THEN Rearm(e) ELSE e

\* (mutant) A confirmed setup survives 11:00.
ExpiresMutant(e) == phase # "morning" /\ e.state \notin Opens

\* The 11:00 cutoff, from any state.
Expires(e) == phase # "morning"

\* update(): cs is the closed candle, or nothing when no data came.
Update(e, cs, r) ==
  LET loaded  == LoadRange(e)
      latched == IF cs = {} THEN loaded ELSE LatchBreaks(loaded, candle)
      broken  == CheckForBreak(latched, candle)
  IN  IF Expires(latched) THEN [latched EXCEPT !.state = "EXPIRED"]
      ELSE IF latched.state \in Opens THEN latched
      ELSE RearmAfter(IF cs = {} THEN latched ELSE CheckForRetest(broken, candle, r))

\* notify_position_closed() and mark_triggered(); a tick whose update left the
\* engine OPEN, before 11:00, is over by 14:00.
PositionClosed(e) == IF e.state \in Opens THEN Rearm(e) ELSE e

-----------------------------------------------------------------------------
Init ==
  /\ eng = NewEngine /\ up = TRUE /\ pc = "idle" /\ late = FALSE
  /\ reset = FALSE /\ regime = "UNKNOWN" /\ pos = "none"
  /\ fileOk = FALSE /\ phase = "morning" /\ day = 1
  /\ candle \in Candles /\ bar = 1
  /\ saw = {} /\ crashes = 0

\* handle_session_reset, then run_analysis with the regime of the last tick.
Updated(cs) == Update(IF reset THEN eng ELSE NewEngine, cs, regime)

SeenBreaks(cs) ==
  saw \cup (IF Updated(cs).ranged THEN {d \in Dirs : cs # {} /\ BreaksOut(d, candle)} ELSE {})

\* The first half of a tick: the new regime is known only after the engine's
\* update.
TickUpdates(cs, r) ==
  /\ up /\ pc = "idle" /\ phase # "closed"
  /\ eng' = Updated(cs) /\ reset' = TRUE /\ regime' = r
  /\ saw' = SeenBreaks(cs)
  /\ pc' = "dispatch" /\ late' = FALSE
  /\ UNCHANGED <<up, pos, marketVars, crashes>>

\* The second half asks the engine and the regime, and not the clock again.
TickDispatches ==
  /\ pc = "dispatch" /\ pc' = "idle" /\ late' = FALSE
  /\ UNCHANGED <<up, reset, regime, marketVars, saw, crashes>>

\* A position is open: managed, and maybe closed.
TickManages(closes) ==
  /\ TickDispatches
  /\ pos # "none"
  /\ eng' = IF closes /\ pos = "orb" THEN PositionClosed(eng) ELSE eng
  /\ pos' = IF closes THEN "none" ELSE pos

\* No position, and the entry gates let the ORB through: its signal spends the
\* setup whether or not score, size and order make it a position.
TickSignals(fills) ==
  /\ TickDispatches
  /\ pos = "none"
  /\ regime \notin {"SWEEP", "UNKNOWN"}
  /\ eng.state \in Opens
  /\ eng' = PositionClosed(eng)
  /\ pos' = IF fills THEN "orb" ELSE "none"

\* No position and no ORB signal: not open, gates closed, blocked by a
\* liquidity pool, or another strategy's turn.
TickLooksElsewhere(fills) ==
  /\ TickDispatches
  /\ pos = "none"
  /\ pos' = IF fills /\ regime # "UNKNOWN" THEN "other" ELSE "none"
  /\ UNCHANGED eng

\* Outside trading hours the loop only clears its session flag.
ClosedTick ==
  /\ up /\ pc = "idle" /\ phase = "closed" /\ reset' = FALSE
  /\ UNCHANGED <<eng, up, pc, late, regime, pos, marketVars, saw, crashes>>

Tick ==
  \/ \E cs \in {{}, {candle}}, r \in Regimes : TickUpdates(cs, r)
  \/ \E b \in BOOLEAN : TickManages(b) \/ TickSignals(b) \/ TickLooksElsewhere(b)
  \/ ClosedTick

\* A minute passes.
NewCandle ==
  /\ phase # "closed" /\ bar < MaxBars
  /\ bar' = bar + 1 /\ candle' \in Candles
  /\ UNCHANGED <<eng, up, pc, late, reset, regime, pos, fileOk, phase, day, saw, crashes>>

\* get_orb_range.py finds today's opening candle closed.
RangeEstablished ==
  /\ ~fileOk /\ phase # "closed"
  /\ fileOk' = TRUE
  /\ UNCHANGED <<eng, up, pc, late, reset, regime, pos, phase, day, candle, bar, saw, crashes>>

\* The clock strikes, between ticks or within one.  A tick is shorter than a
\* phase, and the loop ticks at least once in a night.
Strikes ==
  \/ /\ phase = "morning" /\ phase' = "midday"
     /\ UNCHANGED <<fileOk, day, candle, bar, saw>>
  \/ /\ phase = "midday" /\ phase' = "closed" /\ fileOk' = FALSE
     /\ UNCHANGED <<day, candle, bar, saw>>
  \/ /\ phase = "closed" /\ day < MaxDay /\ phase' = "morning"
     /\ pc = "idle" /\ ~reset
     /\ day' = day + 1 /\ bar' = 1 /\ candle' \in Candles /\ saw' = {}
     /\ UNCHANGED fileOk

TimePasses ==
  /\ Strikes /\ ~late /\ late' = (pc = "dispatch")
  /\ UNCHANGED <<eng, up, pc, reset, regime, pos, crashes>>

Crash ==
  /\ up /\ crashes < MaxCrashes
  /\ crashes' = crashes + 1
  /\ up' = FALSE /\ pc' = "idle" /\ late' = FALSE
  /\ eng' = NewEngine /\ reset' = FALSE /\ regime' = "UNKNOWN"
  /\ UNCHANGED <<pos, marketVars, saw>>

Start ==
  /\ ~up /\ up' = TRUE
  /\ UNCHANGED <<eng, pc, late, reset, regime, pos, marketVars, saw, crashes>>

Next == Tick \/ NewCandle \/ RangeEstablished \/ TimePasses \/ Crash \/ Start

Spec == Init /\ [][Next]_vars

=============================================================================
