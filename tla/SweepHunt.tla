------------------------------ MODULE SweepHunt -----------------------------
(* A sweep reversal trade from the candles to its exit: DataCache of         *)
(* data/data_cache.py, LiquidityMapper, RegimeClassifier, generate_signal of *)
(* strategy/sweep_reversal_strategy.py, and the break-of-structure exit of   *)
(* the trade (StructureExit).  One tick of the polling loop is Poll, Scan,   *)
(* Assess, and Enter or Pass.  Simplifications: while a trade is open the    *)
(* chart is not followed, and the next hunt starts with a session of its     *)
(* own; what the chain, the score and the sizing decide is Pass.             *)
EXTENDS RegimeRules, StructureExit

CONSTANTS
  Yesterday,     \* yesterday's 5-minute bars
  Shapes,        \* [high, low, close] of the bars of today
  MaxBars,       \* bound: bars of today
  Stale,         \* ticks a frame is served from the cache: CACHE_STALENESS_SECONDS
  Views,         \* what the other engines may report
  Prices,        \* prices of the underlying at an entry
  Reaches,       \* recovery windows, in thousandths: 20, or more with a high ATR
  Recents        \* the closed 1-minute candles before a tick, last one last

Prints == [high : Nat, low : Nat, close : Nat]
Bars   == [today : BOOLEAN, hour : Nat, high : Nat, low : Nat, close : Nat]

ASSUME HuntAssumption ==
  /\ Yesterday \in Seq(Bars) \ {<<>>} /\ Shapes \subseteq Prints /\ Candles # {}
  /\ Stale \in [Frames -> Nat] /\ MaxBars \in Nat /\ SweepAge \in Nat
  /\ Views \subseteq View
  /\ Prices \subseteq Nat /\ Reaches \subseteq {r \in Nat : r >= 20}
  /\ SlowBars \in Nat /\ SlowBars * Minutes["5m"] = Minutes["15m"]
  /\ Recents \subseteq Seq({c \in Prints : c.low <= c.close /\ c.close <= c.high}) \ {<<>>}

VARIABLES
  chart,         \* the market: the 5-minute bars so far, the last one forming
  cache,         \* per frame, the chart its candles were fetched from
  age,           \* per frame, the ticks since then
  failed,        \* frames whose refresh failed at this tick
  pc,            \* "poll", "scan", "assess", "hunt", "filled" or "trade"
  sweep,         \* lmap.recent_sweep
  view, regime,  \* what the tick sees and what it is called
  entry          \* history: the sweep of the trade just filled, and how it was entered

marketVars == <<chart, cache, age, failed>>
tickVars   == <<sweep, view, regime>>
tradeVars  == <<dir, tracker, seen, candle, left>>
huntVars   == <<chart, cache, age, failed, pc, sweep, view, regime, entry,
                dir, tracker, seen, candle, left>>

NoChart == <<>>
NoView  == [adx |-> 0, aligned |-> 0, dir |-> "NEUTRAL", seq |-> "NEUTRAL", expanding |-> FALSE,
            atr |-> "STABLE", inside |-> TRUE, squeeze |-> FALSE]
NoEntry == [sweep |-> NoSweep, price |-> 0, ones |-> <<>>, since |-> 0, failed |-> {}]

NeverFetched == [f \in Frames |-> Stale[f] + 1]
AnyCandle    == CHOOSE c \in Candles : TRUE
NoTrade      == dir' = "long" /\ tracker' = NewTracker /\ seen' = {} /\ candle' = AnyCandle
                /\ left' = FALSE

-----------------------------------------------------------------------------
\* The hour of a bar: 0 before the ORB cutoff, 1 while London is open, 2 after.
Bar(shape, hour) == [today |-> TRUE, hour |-> hour, high |-> shape.high,
                     low |-> shape.low, close |-> shape.close]

\* The bars of today that may follow bar b, and those b may still become.
Follows(b) == {Bar(s, h) : s \in Shapes, h \in IF b.today THEN b.hour .. Min({2, b.hour + 1}) ELSE {0}}
Becomes(b) == {x \in Follows(b) : x.high >= b.high /\ x.low <= b.low /\ x.hour = b.hour}

Moves(c) ==
  {c} \cup {Append(c, b) : b \in {x \in Follows(Last(c)) : Len(c) < Len(Yesterday) + MaxBars}}
      \cup {Append(Front(c), b) : b \in {x \in Becomes(Last(c)) : Last(c).today}}

Cap(f, n) == Min({n, Stale[f] + 1})
NeedsFetch(f) == Cap(f, age[f] + 1) > Stale[f] \/ cache[f] = NoChart

\* Mutant: a refresh counts as one whether it brought candles or not.
GetMutant(now, down) ==
  /\ cache' = [f \in Frames |-> IF NeedsFetch(f) /\ f \notin down THEN now ELSE cache[f]]
  /\ age'   = [f \in Frames |-> IF NeedsFetch(f) THEN 0 ELSE Cap(f, age[f] + 1)]
  /\ failed' = {f \in down : NeedsFetch(f)}

\* DataCache.get of every frame: a stale one is refreshed, and the old candles
\* are served when that brings none.
Get(now, down) ==
  /\ cache' = [f \in Frames |-> IF NeedsFetch(f) /\ f \notin down THEN now ELSE cache[f]]
  /\ age'   = [f \in Frames |-> IF NeedsFetch(f) /\ f \notin down THEN 0 ELSE Cap(f, age[f] + 1)]
  /\ failed' = {f \in down : NeedsFetch(f)}

-----------------------------------------------------------------------------
HuntInit ==
  /\ chart = Yesterday
  /\ cache = [f \in Frames |-> NoChart] /\ age = NeverFetched /\ failed = {}
  /\ pc = "poll"
  /\ sweep = NoSweep /\ view = NoView /\ regime = "UNKNOWN" /\ entry = NoEntry
  /\ dir = "long" /\ tracker = NewTracker /\ seen = {} /\ candle = AnyCandle /\ left = FALSE

\* run_analysis up to its candles: without 5-minute ones the tick fails.
Poll ==
  /\ pc = "poll"
  /\ \E now \in Moves(chart), down \in SUBSET Frames :
       /\ chart' = now
       /\ Get(now, down)
  /\ pc' = IF cache'["5m"] = NoChart THEN "poll" ELSE "scan"
  /\ UNCHANGED <<tickVars, entry, tradeVars>>

\* LiquidityMapper.analyze.
Scan ==
  /\ pc = "scan"
  /\ sweep' = RecentSweep(Sweeps(cache["15m"], cache["5m"]))
  /\ pc' = "assess"
  /\ UNCHANGED <<marketVars, view, regime, entry, tradeVars>>

\* run_regime_classification.
Assess ==
  /\ pc = "assess"
  /\ \E v \in Views : view' = v /\ regime' = Classify(v, sweep)
  /\ pc' = "hunt"
  /\ UNCHANGED <<marketVars, sweep, entry, tradeVars>>

-----------------------------------------------------------------------------
Direction(s) == IF s.kind = "low" THEN "long" ELSE "short"

\* The bars of today; the opening one is the opening range.
Session == SelectSeq(chart, LAMBDA b : b.today)

\* A candle can have closed beyond the opening range on this side.
MayHaveBroken(kind) ==
  \E i \in 2 .. Len(Session) :
    IF kind = "high" THEN Session[i].high > Session[1].high ELSE Session[i].low < Session[1].low

\* The ORB gate: before the cutoff of 11:00, once the range is known, a sweep
\* needs a break of the range on its own side.
SweepBrokeOrb(s) == Len(Session) < 2 \/ Last(chart).hour > 0 \/ MayHaveBroken(s.kind)

\* Mutant: the level need not have been recovered.
RecoveredMutant(s, price, reach) ==
  IF s.kind = "low" THEN 1000 * (price - s.extreme) <= reach * s.extreme
                    ELSE 1000 * (s.extreme - price) <= reach * s.extreme

\* Back inside the level, and not too far from the extreme.
Recovered(s, price, reach) ==
  IF s.kind = "low" THEN price > s.pool /\ 1000 * (price - s.extreme) <= reach * s.extreme
                    ELSE price < s.pool /\ 1000 * (s.extreme - price) <= reach * s.extreme

ConfirmBos(ones, d, price) ==
  IF d = "long" THEN price > High(ones) \/ Last(ones).close > High(ones)
                ELSE price < Low(ones) \/ Last(ones).close < Low(ones)

\* Bars of the market after the bar of the sweep.
Since(s) ==
  IF s.frame = "5m" \/ cache["15m"] = NoChart THEN Len(chart) - (Len(cache["5m"]) - s.ago)
  ELSE Len(chart) - Min({SlowBars * (Len(Slow(cache["15m"])) - s.ago), Len(cache["15m"])})

\* generate_signal with a signal that is sized, filled and tracked.
Enter ==
  /\ pc = "hunt"
  /\ regime = "SWEEP_REVERSAL"
  /\ AgeBars(sweep) <= SweepAge
  /\ SweepBrokeOrb(sweep)
  /\ \E price \in {p \in Prices : \E reach \in Reaches : Recovered(sweep, p, reach)}, ones \in Recents :
       /\ ConfirmBos(ones, Direction(sweep), price)
       /\ entry' = [sweep |-> sweep, price |-> price, ones |-> ones, since |-> Since(sweep),
                    failed |-> failed]
  /\ pc' = "filled"
  /\ dir' = Direction(sweep) /\ UNCHANGED <<tracker, seen, candle, left>>
  /\ chart' = Yesterday
  /\ cache' = [f \in Frames |-> NoChart] /\ age' = NeverFetched /\ failed' = {}
  /\ sweep' = NoSweep /\ view' = NoView /\ regime' = "UNKNOWN"

Pass ==
  /\ pc = "hunt"
  /\ pc' = "poll"
  /\ sweep' = NoSweep /\ view' = NoView /\ regime' = "UNKNOWN"
  /\ UNCHANGED <<marketVars, entry, tradeVars>>

\* The record is tracked: from here on the tick manages it.
Track ==
  /\ pc = "filled"
  /\ pc' = "trade" /\ entry' = NoEntry
  /\ candle' \in Candles
  /\ UNCHANGED <<marketVars, tickVars, dir, tracker, seen, left>>

\* A tick, a candle or a restart of the trade.
Trade ==
  /\ pc = "trade"
  /\ Tick \/ NewCandle \/ Restart
  /\ UNCHANGED <<marketVars, pc, tickVars, entry>>

\* The trade is left: on its structure, or by its stop, its target or the clock.
Leave ==
  /\ pc = "trade"
  /\ pc' = "poll"
  /\ NoTrade
  /\ UNCHANGED <<marketVars, tickVars, entry>>

\* The process restarts between two ticks: the cache is its memory.
Reboot ==
  /\ pc = "poll"
  /\ cache' = [f \in Frames |-> NoChart] /\ age' = NeverFetched /\ failed' = {}
  /\ UNCHANGED <<chart, pc, tickVars, entry, tradeVars>>

HuntNext == Poll \/ Scan \/ Assess \/ Enter \/ Pass \/ Track \/ Trade \/ Leave \/ Reboot

HuntSpec == HuntInit /\ [][HuntNext]_huntVars
-----------------------------------------------------------------------------
HuntTypeOK ==
  /\ TypeOK
  /\ age \in [Frames -> Nat] /\ \A f \in Frames : age[f] <= Stale[f] + 1
  /\ failed \subseteq Frames
  /\ pc \in {"poll", "scan", "assess", "hunt", "filled", "trade"}
  /\ view \in View /\ regime \in Regimes

\* The candles an analysis reads are the market's to within the staleness of
\* their frame, unless the refresh of this very tick brought none: data_cache.py,
\* "Respects staleness limits per timeframe".
CandlesAreCurrent ==
  pc \in {"scan", "assess", "hunt"} =>
    \A f \in Frames \ failed : Len(chart) <= Len(cache[f]) + Stale[f]

\* A held trend of unmistakable strength is never abstained from, nor called a
\* range, whatever its timeframes say: regime_classifier.py, version 1.3.
TrendIsNamed ==
  pc = "hunt" /\ view.adx >= AdxStrong /\ view.dir # "NEUTRAL" /\ ~Contradicts(view)
    => regime \notin {"UNKNOWN", "RANGING"}

\* A sweep that is traded is fresh by the market's clock and not only by the
\* window's: its age counts the cached bars, which a refresh may have missed.
TradedSweepIsFresh ==
  pc = "filled" /\ entry.sweep.frame \notin entry.failed
    => entry.since <= SweepAge + Stale[entry.sweep.frame]

\* A reversal is bought on the far side of all it reverses: the level lies
\* between the extreme of the sweep and the price, and the price is beyond every
\* candle the break of structure is measured on.
EntryIsReclaimed ==
  pc = "filled" =>
    LET s == entry.sweep IN
    /\ s.name # ""
    /\ dir = "long"  => s.extreme < s.pool /\ s.pool < entry.price /\ High(entry.ones) < entry.price
    /\ dir = "short" => s.extreme > s.pool /\ s.pool > entry.price /\ Low(entry.ones) > entry.price

=============================================================================
