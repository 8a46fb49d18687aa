---------------------------- MODULE LiquidityMap ----------------------------
(* The liquidity levels and sweeps of one analysis: LiquidityMapper.analyze  *)
(* of analysis/liquidity_mapper.py, a function of the 15-minute and          *)
(* 5-minute candles it is given.  A chart is the 5-minute bars since the     *)
(* start of yesterday, yesterday being a whole number of slow bars; prices   *)
(* are ticks.  Stop clusters and nearby pools feed no decision and are left  *)
(* out, and so is the Asia session, which has no regular-hours candle.       *)
EXTENDS Integers, Sequences, FiniteSets, SequencesExt

CONSTANTS
  SlowBars,      \* 5-minute bars in a 15-minute bar
  Window,        \* candles kept per frame: TIMEFRAMES
  MinNamed,      \* a window shorter than this names no level
  Lookback,      \* EQUAL_HIGH_LOW_LOOKBACK
  HoldBars       \* SWEEP_REJECTION_CANDLES

Frames  == {"15m", "5m"}
Minutes == [f \in Frames |-> IF f = "15m" THEN 15 ELSE 5]

High(bars) == Max({bars[i].high : i \in DOMAIN bars})
Low(bars)  == Min({bars[i].low : i \in DOMAIN bars})

\* The bars that are left when only the last n are asked for.
Recently(bars, n) == SubSeq(bars, Max({1, Len(bars) - n + 1}), Len(bars))

\* The 15-minute candles of a chart: the last one is still forming.
Slow(chart) ==
  [k \in 1 .. ((Len(chart) + SlowBars - 1) \div SlowBars) |->
     LET part == SubSeq(chart, SlowBars * (k - 1) + 1, Min({SlowBars * k, Len(chart)}))
     IN [Last(part) EXCEPT !.high = High(part), !.low = Low(part)]]

\* What a fetch of frame f returns.
Frame(f, chart) == Recently(IF f = "15m" THEN Slow(chart) ELSE chart, Window[f])

-----------------------------------------------------------------------------
\* within_pct, in thousandths.
Near(a, b, permil) == 1000 * (a - b) <= permil * a /\ 1000 * (b - a) <= permil * a

\* Groups of equal values, newest first: each takes the values of the twenty
\* before it that no newer group took.
Clusters(v) ==
  LET Step(acc, k) ==
        LET i     == Len(v) + 1 - k
            mates == {j \in 1 .. (i - 1) : j > i - 20 /\ j \notin acc.used /\ Near(v[i], v[j], 1)}
        IN IF i \in acc.used THEN acc
           ELSE [used |-> acc.used \cup mates \cup {i},
                 out  |-> IF mates = {} THEN acc.out ELSE Append(acc.out, mates \cup {i})]
  IN FoldLeft(Step, [used |-> {}, out |-> <<>>], [k \in 1 .. (Len(v) - 1) |-> k]).out

\* The price of a cluster, its average: a price between two ticks is crossed
\* exactly when the tick on its near side is.
Average(v, c, kind) ==
  LET sum == FoldLeft(LAMBDA a, i : a + v[i], 0, SetToSeq(c))
      n   == Cardinality(c)
  IN IF kind = "high" THEN sum \div n ELSE (sum + n - 1) \div n

EqualPools(pools, bars, kind) ==
  LET last == Recently(bars, Lookback)
      v    == [i \in DOMAIN last |-> IF kind = "high" THEN last[i].high ELSE last[i].low]
      Add(ps, c) ==
        LET price == Average(v, c, kind)
        IN IF \E i \in DOMAIN ps : ps[i].kind = kind /\ Near(ps[i].price, price, 1) THEN ps
           ELSE Append(ps, [price |-> price, kind |-> kind, name |-> ""])
  IN FoldLeft(Add, pools, Clusters(v))

FindPools(pools, bars) == EqualPools(EqualPools(pools, bars, "high"), bars, "low")

\* The levels of a group of candles: none when the window holds none of them.
Extremes(bars, high, low) ==
  IF bars = <<>> THEN <<>>
  ELSE <<[price |-> High(bars), kind |-> "high", name |-> high],
         [price |-> Low(bars), kind |-> "low", name |-> low]>>

\* Yesterday, and the London and New York sessions of today.
Levels(bars) ==
  Extremes(SelectSeq(bars, LAMBDA b : ~b.today), "PDH", "PDL")
    \o Extremes(SelectSeq(bars, LAMBDA b : b.today /\ b.hour < 2), "London High", "London Low")
    \o Extremes(SelectSeq(bars, LAMBDA b : b.today), "NY High", "NY Low")

AddNamedPool(pools, level) ==
  IF \E i \in DOMAIN pools : pools[i].name # "" /\ Near(pools[i].price, level.price, 2)
    THEN pools ELSE Append(pools, level)

NamedPools(pools, bars) ==
  IF Len(bars) < MinNamed THEN pools ELSE FoldLeft(AddNamedPool, pools, Levels(bars))

-----------------------------------------------------------------------------
Pierces(p, b) == IF p.kind = "low" THEN b.low < p.price ELSE b.high > p.price

\* Bar i is beyond the level when it closes there.
Beyond(p, b) == IF p.kind = "low" THEN b.close < p.price ELSE b.close > p.price

Hold(bars, i) == i .. Min({i + HoldBars, Len(bars)})

\* How far the furthest close back inside is from the extreme of bar i.
Rejection(p, bars, i) ==
  LET inside == {bars[k].close : k \in {h \in Hold(bars, i) : ~Beyond(p, bars[h])}}
  IN IF p.kind = "low" THEN Max(inside) - bars[i].low ELSE bars[i].high - Min(inside)

Extreme(p, b) == IF p.kind = "low" THEN b.low ELSE b.high

\* Bar i sweeps the level: it pierces it, and it or one of the next HoldBars
\* closes back inside, two thousandths or more from its extreme.
SweepsAt(p, bars, i) ==
  /\ Pierces(p, bars[i])
  /\ \E k \in Hold(bars, i) : ~Beyond(p, bars[k])
  /\ 1000 * Rejection(p, bars, i) >= 2 * Extreme(p, bars[i])

\* A level is swept once, by the first bar that does: not the window's first.
SweepBars(p, bars) == {i \in 2 .. Len(bars) : SweepsAt(p, bars, i)}

\* turn is the place of the sweep in the list.
SweepOf(p, bars, f, turn) ==
  LET i == Min(SweepBars(p, bars)) IN
  [pool |-> p.price, kind |-> p.kind, name |-> p.name, frame |-> f, ago |-> Len(bars) - i,
   extreme |-> Extreme(p, bars[i]), rejection |-> Rejection(p, bars, i),
   beyond |-> Cardinality({k \in Hold(bars, i) : Beyond(p, bars[k])}), turn |-> turn]

Swept(pools, bars) == {i \in 1 .. Len(pools) : SweepBars(pools[i], bars) # {}}

\* _detect_sweeps of both frames: the slow scan marks the levels it finds swept,
\* and the fast scan skips them.
DetectSweeps(pools, slow, fast) ==
  {SweepOf(pools[i], slow, "15m", i) : i \in Swept(pools, slow)}
    \cup {SweepOf(pools[i], fast, "5m", Len(pools) + i) : i \in Swept(pools, fast) \ Swept(pools, slow)}

\* Without 15-minute candles the slow scan reads the 5-minute ones.
Sweeps(slowChart, fastChart) ==
  LET fast  == Frame("5m", fastChart)
      slow  == IF slowChart = <<>> THEN fast ELSE Frame("15m", slowChart)
      pools == NamedPools(FindPools(FindPools(<<>>, slow), fast), fast)
  IN DetectSweeps(pools, slow, fast)

MinutesAgo(s) == s.ago * Minutes[s.frame]

NoSweep == [pool |-> 0, kind |-> "none", name |-> "", frame |-> "5m", ago |-> 0,
            extreme |-> 0, rejection |-> 0, beyond |-> 0, turn |-> 0]

Youngest(sweeps) == {s \in sweeps : \A t \in sweeps : MinutesAgo(s) <= MinutesAgo(t)}

\* The first of the sweeps with the fewest minutes behind it.  Two sweeps of
\* one level and side are of the same bar, so collapsing them changes nothing.
RecentSweep(sweeps) ==
  IF sweeps = {} THEN NoSweep
  ELSE CHOOSE s \in Youngest(sweeps) : \A t \in Youngest(sweeps) : s.turn <= t.turn

\* sweep_age_bars: 5-minute bars.
AgeBars(s) == MinutesAgo(s) \div 5

=============================================================================
