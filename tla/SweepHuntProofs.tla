--------------------------- MODULE SweepHuntProofs --------------------------
(* CandlesAreCurrent, TrendIsNamed, TradedSweepIsFresh, EntryIsReclaimed,    *)
(* LongIsProtected and LongLeavesOnClose for every chart, window, staleness, *)
(* set of views and market of 1-minute candles.                              *)
EXTENDS SweepHunt, SequenceTheorems, WellFoundedInduction, TLAPS

\* The chart grows bar by bar, and every frame's candles are behind it by no
\* more than their age in ticks, until they are too old to be served.
ChartOK ==
  /\ chart \in Seq(Bars) \ {<<>>}
  /\ age \in [Frames -> Nat] /\ cache \in [Frames -> Seq(Bars)] /\ failed \subseteq Frames
  /\ \A f \in Frames :
       /\ age[f] <= Stale[f] + 1
       /\ cache[f] = NoChart => age[f] = Stale[f] + 1
       /\ age[f] <= Stale[f] => Len(chart) <= Len(cache[f]) + age[f]
  /\ pc \in {"scan", "assess", "hunt"} => \A f \in Frames \ failed : age[f] <= Stale[f]

\* The tick: what it sees and what that is called.
ViewOK ==
  /\ pc \in {"poll", "scan", "assess", "hunt", "filled", "trade"}
  /\ view \in View /\ regime \in Regimes
  /\ TrendIsNamed

\* What a sweep is, whatever level it was found at: its extreme lies beyond.
IsSweep(s) ==
  /\ s.frame \in Frames /\ s.ago \in Nat /\ s.turn \in Nat
  /\ IF s.kind = "low" THEN s.extreme < s.pool ELSE s.extreme > s.pool

\* From the scan to the entry: the sweep in hand, and the regime it makes.
SweepOK ==
  /\ pc \in {"assess", "hunt"} => sweep = NoSweep \/ IsSweep(sweep)
  /\ pc = "hunt" => regime = Classify(view, sweep)
  /\ EntryIsReclaimed /\ TradedSweepIsFresh

\* The trade: a long's peak is the highest close it has read, and its level the
\* low of a candle that closed there.
TradeOK ==
  /\ TypeOK
  /\ seen = {} => tracker = NewTracker
  /\ pc # "trade" => seen = {} /\ ~left
  /\ dir = "long" /\ seen # {} =>
       \E c \in Highest : tracker.level = c.low /\ tracker.peak = c.close

Inv == ChartOK /\ ViewOK /\ SweepOK /\ TradeOK

-----------------------------------------------------------------------------
(* Numbers.                                                                  *)

LEMMA MinOfTwo ==
  ASSUME NEW a \in Int, NEW b \in Int
  PROVE  Min({a, b}) = IF a <= b THEN a ELSE b
<1> DEFINE m == IF a <= b THEN a ELSE b
<1>1. m \in {a, b} /\ \A y \in {a, b} : m =< y
  OBVIOUS
<1>2. \A x \in {a, b} : (\A y \in {a, b} : x =< y) => x = m
  OBVIOUS
<1> HIDE DEF m
<1>3. Min({a, b}) = m
  BY <1>1, <1>2 DEF Min
<1> QED BY <1>3 DEF m

\* The least-number principle, for a set.
LEMMA LeastNumber ==
  ASSUME NEW S \in SUBSET Nat, S # {}
  PROVE  \E m \in S : \A n \in S : m <= n
<1> DEFINE less == {p \in Nat \X Nat : p[1] < p[2]}
<1>1. IsWellFoundedOn(less, Nat)
  BY NatLessThanWellFounded DEF OpToRel
<1>2. PICK m \in S : \A n \in S : <<n, m>> \notin less
  <2> HIDE DEF less
  <2> QED BY <1>1, WFMin
<1>3. ASSUME NEW n \in S
      PROVE  m <= n
  <2>1. <<n, m>> \in Nat \X Nat /\ <<n, m>>[1] = n /\ <<n, m>>[2] = m
    OBVIOUS
  <2>2. ~(n < m)
    BY <1>2, <2>1
  <2> QED BY <2>2
<1> QED BY <1>3

LEMMA MinOfNumbers ==
  ASSUME NEW S \in SUBSET Nat, S # {}
  PROVE  Min(S) \in S /\ \A n \in S : Min(S) <= n
  BY LeastNumber DEF Min

\* A sequence of numbers has a greatest: the first so many of it have one.
LEMMA MaxOfNumbers ==
  ASSUME NEW n \in Nat \ {0}, NEW f \in [1 .. n -> Nat]
  PROVE  \E i \in 1 .. n : \A j \in 1 .. n : f[j] <= f[i]
<1> DEFINE bad == {m \in 1 .. n : ~\E i \in 1 .. m : \A j \in 1 .. m : f[j] <= f[i]}
<1>1. CASE bad = {}
  <2>1. n \in 1 .. n
    OBVIOUS
  <2>2. n \notin bad
    <3> HIDE DEF bad
    <3> QED BY <1>1
  <2> QED BY <2>1, <2>2
<1>2. CASE bad # {}
  <2>1. bad \in SUBSET Nat
    OBVIOUS
  <2>2. PICK m \in bad : \A k \in bad : m <= k
    <3>1. \E m \in bad : \A k \in bad : m <= k
      <4> HIDE DEF bad
      <4> QED BY <1>2, <2>1, LeastNumber
    <3> HIDE DEF bad
    <3> QED BY <3>1
  <2>3. m \in 1 .. n /\ ~\E i \in 1 .. m : \A j \in 1 .. m : f[j] <= f[i]
    OBVIOUS
  <2>4. m # 1
    <3>1. 1 \in 1 .. 1 /\ \A j \in 1 .. 1 : j = 1
      OBVIOUS
    <3>2. f[1] \in Nat /\ f[1] <= f[1]
      BY <2>3
    <3> QED BY <2>3, <3>1, <3>2
  <2>5. m - 1 \in 1 .. n /\ m - 1 \notin bad
    <3>1. m - 1 \in 1 .. n /\ m - 1 \in Nat /\ m \in Nat /\ ~(m <= m - 1)
      BY <2>3, <2>4
    <3> HIDE DEF bad
    <3> QED BY <2>2, <3>1
  <2>6. PICK i \in 1 .. (m - 1) : \A j \in 1 .. (m - 1) : f[j] <= f[i]
    BY <2>5
  <2> HIDE DEF bad
  <2>7. /\ f[i] \in Nat /\ f[m] \in Nat /\ i \in 1 .. m /\ m \in 1 .. m
        /\ \A j \in 1 .. m : (j = m \/ j \in 1 .. (m - 1)) /\ f[j] \in Nat
    BY <2>3, <2>6
  <2>8. CASE f[m] <= f[i]
    BY <2>3, <2>6, <2>7, <2>8
  <2>9. CASE f[i] < f[m]
    <3>1. \A j \in 1 .. m : f[j] <= f[m]
      BY <2>6, <2>7, <2>9
    <3> QED BY <2>3, <2>7, <3>1
  <2>10. f[m] <= f[i] \/ f[i] < f[m]
    BY <2>7
  <2> QED BY <2>8, <2>9, <2>10
<1> QED BY <1>1, <1>2

LEMMA HighAndLow ==
  ASSUME NEW c \in Seq(Prints) \ {<<>>}
  PROVE  /\ High(c) \in Nat /\ Low(c) \in Nat
         /\ \A i \in DOMAIN c : Low(c) <= c[i].low /\ c[i].high <= High(c)
<1> DEFINE highs == {c[i].high : i \in DOMAIN c}
           lows  == {c[i].low : i \in DOMAIN c}
<1>1. /\ Len(c) \in Nat \ {0} /\ DOMAIN c = 1 .. Len(c)
      /\ \A i \in DOMAIN c : c[i].high \in Nat /\ c[i].low \in Nat
  <2>1. \A i \in 1 .. Len(c) : c[i] \in Prints
    OBVIOUS
  <2>2. DOMAIN c = 1 .. Len(c) /\ Len(c) \in Nat \ {0}
    OBVIOUS
  <2> QED BY <2>1, <2>2 DEF Prints
<1>2. lows \subseteq Nat /\ lows # {} /\ highs \subseteq Nat
  BY <1>1
<1>3. Min(lows) \in Nat /\ \A x \in lows : Min(lows) <= x
  <2> HIDE DEF lows
  <2> QED BY <1>2, MinOfNumbers
<1>4. PICK i \in 1 .. Len(c) : \A j \in 1 .. Len(c) : c[j].high <= c[i].high
  <2> DEFINE f == [i \in 1 .. Len(c) |-> c[i].high]
  <2>1. f \in [1 .. Len(c) -> Nat]
    BY <1>1
  <2>2. PICK i \in 1 .. Len(c) : \A j \in 1 .. Len(c) : f[j] <= f[i]
    <3> HIDE DEF f
    <3> QED BY <1>1, <2>1, MaxOfNumbers
  <2> QED BY <2>2
<1>5. \E h \in highs : \A x \in highs : h >= x
  BY <1>1, <1>4
<1>6. \A x \in highs : Max(highs) >= x
  <2> HIDE DEF highs
  <2> QED BY <1>5 DEF Max
<1>7. High(c) = Max(highs) /\ Low(c) = Min(lows)
  BY DEF High, Low
<1>8. Max(highs) \in Nat
  <2> HIDE DEF highs
  <2> QED BY <1>2, <1>5 DEF Max
<1> QED BY <1>1, <1>2, <1>3, <1>6, <1>7, <1>8

-----------------------------------------------------------------------------
(* The cache.                                                                *)

LEMMA Staleness == \A f \in Frames : Stale[f] \in Nat
  BY HuntAssumption DEF HuntAssumption

LEMMA FrontIsShorter ==
  ASSUME NEW S, NEW s \in Seq(S), s # <<>>
  PROVE  Front(s) \in Seq(S) /\ Len(Front(s)) = Len(s) - 1
<1> DEFINE n == Len(s) - 1
<1>1. n \in Nat /\ 1 \in Int /\ n \in Int
  OBVIOUS
<1>2. \A i \in 1 .. n : s[i] \in S
  OBVIOUS
<1>3. Front(s) = SubSeq(s, 1, n)
  BY DEF Front
<1> HIDE DEF n
<1>4. SubSeq(s, 1, n) \in Seq(S)
  BY <1>1, <1>2, SubSeqProperties
<1>5. Len(SubSeq(s, 1, n)) = IF 1 <= n THEN n - 1 + 1 ELSE 0
  BY <1>1, <1>2, SubSeqProperties
<1>6. Len(Front(s)) = n
  BY <1>1, <1>3, <1>5
<1> QED BY <1>3, <1>4, <1>6 DEF n

LEMMA CapIs ==
  ASSUME NEW f \in Frames, NEW n \in Nat
  PROVE  Cap(f, n) = IF n <= Stale[f] THEN n ELSE Stale[f] + 1
<1>1. Stale[f] \in Nat
  BY Staleness
<1>2. Cap(f, n) = IF n <= Stale[f] + 1 THEN n ELSE Stale[f] + 1
  BY <1>1, MinOfTwo DEF Cap
<1> QED BY <1>1, <1>2

LEMMA MovesGrow ==
  ASSUME NEW c \in Seq(Bars) \ {<<>>}, NEW now \in Moves(c)
  PROVE  now \in Seq(Bars) \ {<<>>} /\ Len(now) <= Len(c) + 1
<1>1. Len(c) \in Nat \ {0} /\ Last(c) \in Bars
  BY DEF Last
<1>2. Follows(Last(c)) \subseteq Bars
  <2> DEFINE l == Last(c)
             hours == IF l.today THEN l.hour .. Min({2, l.hour + 1}) ELSE {0}
  <2>1. hours \subseteq Nat
    <3>1. l.hour \in Nat
      BY <1>1 DEF Bars
    <3>2. Min({2, l.hour + 1}) \in Int
      <4>1. l.hour + 1 \in Int
        BY <3>1
      <4> QED BY <4>1, MinOfTwo
    <3> QED BY <3>1, <3>2
  <2>2. ASSUME NEW s \in Shapes, NEW h \in Nat
        PROVE  Bar(s, h) \in Bars
    <3>1. s \in Prints
      BY HuntAssumption DEF HuntAssumption
    <3> QED BY <3>1 DEF Bar, Bars, Prints
  <2>3. Follows(l) = {Bar(s, h) : s \in Shapes, h \in hours}
    BY DEF Follows
  <2> HIDE DEF hours
  <2> QED BY <2>1, <2>2, <2>3
<1>3. Becomes(Last(c)) \subseteq Bars
  BY <1>2 DEF Becomes
<1>4. CASE now = c
  BY <1>1, <1>4
<1>5. ASSUME NEW b \in Follows(Last(c)), now = Append(c, b)
      PROVE  now \in Seq(Bars) \ {<<>>} /\ Len(now) <= Len(c) + 1
  <2>1. b \in Bars
    BY <1>2
  <2>2. now \in Seq(Bars) /\ Len(now) = Len(c) + 1
    BY <1>5, <2>1
  <2> QED BY <1>1, <2>2
<1>6. ASSUME NEW b \in Becomes(Last(c)), now = Append(Front(c), b)
      PROVE  now \in Seq(Bars) \ {<<>>} /\ Len(now) <= Len(c) + 1
  <2>1. b \in Bars
    BY <1>3
  <2>2. Front(c) \in Seq(Bars) /\ Len(Front(c)) = Len(c) - 1
    BY FrontIsShorter
  <2>3. now \in Seq(Bars) /\ Len(now) = Len(c)
    BY <1>1, <1>6, <2>1, <2>2
  <2> QED BY <1>1, <2>3
<1> QED BY <1>4, <1>5, <1>6 DEF Moves

LEMMA PollKeepsChart ==
  ASSUME ChartOK, Poll
  PROVE  ChartOK'
<1>1. PICK now \in Moves(chart), down \in SUBSET Frames : chart' = now /\ Get(now, down)
  BY DEF Poll
<1>2. now \in Seq(Bars) \ {<<>>} /\ Len(now) <= Len(chart) + 1 /\ Len(now) \in Nat /\ Len(chart) \in Nat
  BY <1>1, MovesGrow DEF ChartOK
<1>3. /\ cache' = [f \in Frames |-> IF NeedsFetch(f) /\ f \notin down THEN now ELSE cache[f]]
      /\ age'   = [f \in Frames |-> IF NeedsFetch(f) /\ f \notin down THEN 0 ELSE Cap(f, age[f] + 1)]
      /\ failed' = {f \in down : NeedsFetch(f)}
  BY <1>1 DEF Get
<1>4. ASSUME NEW f \in Frames
      PROVE  /\ age'[f] \in Nat /\ age'[f] <= Stale[f] + 1
             /\ cache'[f] = NoChart => age'[f] = Stale[f] + 1
             /\ age'[f] <= Stale[f] => Len(now) <= Len(cache'[f]) + age'[f]
             /\ f \notin failed' => age'[f] <= Stale[f]
  <2>1. /\ cache[f] \in Seq(Bars) /\ Len(cache[f]) \in Nat
        /\ age[f] \in Nat /\ age[f] <= Stale[f] + 1 /\ Stale[f] \in Nat
        /\ cache[f] = NoChart => age[f] = Stale[f] + 1
        /\ age[f] <= Stale[f] => Len(chart) <= Len(cache[f]) + age[f]
    BY Staleness DEF ChartOK
  <2>2. Cap(f, age[f] + 1) = IF age[f] + 1 <= Stale[f] THEN age[f] + 1 ELSE Stale[f] + 1
    BY <2>1, CapIs
  <2>3. NeedsFetch(f) <=> (age[f] + 1 > Stale[f] \/ cache[f] = NoChart)
    BY <2>1, <2>2 DEF NeedsFetch
  <2>4. CASE NeedsFetch(f) /\ f \notin down
    <3>1. cache'[f] = now /\ age'[f] = 0
      BY <1>3, <2>4
    <3> QED BY <1>2, <2>1, <3>1 DEF NoChart
  <2>5. CASE NeedsFetch(f) /\ f \in down
    <3>1. cache'[f] = cache[f] /\ age'[f] = Cap(f, age[f] + 1) /\ f \in failed'
      BY <1>3, <2>5
    <3>2. age'[f] = Stale[f] + 1
      BY <2>1, <2>2, <2>3, <2>5, <3>1
    <3> QED BY <2>1, <3>1, <3>2
  <2>6. CASE ~NeedsFetch(f)
    <3>1. cache'[f] = cache[f] /\ age'[f] = Cap(f, age[f] + 1)
      BY <1>3, <2>6
    <3>2. age[f] + 1 <= Stale[f] /\ cache[f] # NoChart
      BY <2>1, <2>3, <2>6
    <3>3. age'[f] = age[f] + 1 /\ Len(chart) <= Len(cache[f]) + age[f]
      BY <2>1, <2>2, <3>1, <3>2
    <3>4. Len(now) <= Len(cache'[f]) + age'[f]
      BY <1>2, <2>1, <3>1, <3>3
    <3>5. age'[f] \in Nat /\ age'[f] <= Stale[f]
      BY <2>1, <3>2, <3>3
    <3> QED BY <2>1, <3>1, <3>2, <3>4, <3>5
  <2> QED BY <2>4, <2>5, <2>6
<1>5. age' \in [Frames -> Nat] /\ cache' \in [Frames -> Seq(Bars)] /\ failed' \subseteq Frames
  BY <1>2, <1>3, <1>4 DEF ChartOK
<1> QED BY <1>1, <1>2, <1>4, <1>5 DEF ChartOK

-----------------------------------------------------------------------------
(* The name of a trend.                                                      *)

LEMMA ClassifyNamesTrends ==
  ASSUME NEW v \in View, NEW s
  PROVE  /\ Classify(v, s) \in Regimes
         /\ v.adx >= AdxStrong /\ v.dir # "NEUTRAL" /\ ~Contradicts(v)
              => Classify(v, s) \notin {"UNKNOWN", "RANGING"}
<1>1. v.adx >= AdxStrong /\ v.dir # "NEUTRAL" /\ ~Contradicts(v) => IsTrending(v)
  BY DEF IsTrending, View, AdxStrong, AdxTrend
<1>2. CASE IsSweepReversal(s)
  BY <1>2 DEF Classify, Regimes
<1>3. CASE ~IsSweepReversal(s) /\ IsBreakout(v)
  BY <1>3 DEF Classify, Regimes
<1>4. CASE ~IsSweepReversal(s) /\ ~IsBreakout(v) /\ IsCompression(v)
  BY <1>4 DEF Classify, Regimes
<1>5. CASE ~IsSweepReversal(s) /\ ~IsBreakout(v) /\ ~IsCompression(v)
  <2>1. Classify(v, s) = IF IsTrending(v)
                           THEN IF v.dir = "BULLISH" THEN "TRENDING_BULL" ELSE "TRENDING_BEAR"
                           ELSE IF IsRanging(v) THEN "RANGING" ELSE "UNKNOWN"
    BY <1>5 DEF Classify
  <2> QED BY <1>1, <2>1 DEF Regimes
<1> QED BY <1>2, <1>3, <1>4, <1>5

LEMMA NoViewIsAView == NoView \in View
  BY DEF NoView, View

-----------------------------------------------------------------------------
(* The trade.                                                                *)

LEMMA CandlesArePrices ==
  \A c \in Candles : /\ c.close \in Nat /\ c.high \in Nat /\ c.low \in Nat
                      /\ Premium \in Nat /\ Premium < c.close /\ c.low # None
  BY StructureAssumption DEF StructureAssumption, None

LEMMA SomeCandle == AnyCandle \in Candles
<1>1. \E c \in Candles : TRUE
  BY HuntAssumption DEF HuntAssumption
<1> QED BY <1>1 DEF AnyCandle

LEMMA TickKeepsTrade ==
  ASSUME TradeOK, Tick, pc = "trade"
  PROVE  /\ TypeOK'
         /\ seen' # {}
         /\ dir = "long" => \E c \in Highest' : tracker'.level = c.low /\ tracker'.peak = c.close
<1>1. /\ tracker' = Update(tracker, dir, candle) /\ seen' = seen \cup {candle}
      /\ left' = Breaks(tracker', dir, candle) /\ dir' = dir /\ candle' = candle
      /\ candle \in Candles /\ seen \subseteq Candles /\ dir \in Dirs
      /\ tracker \in [peak : Nat, level : Nat]
      /\ candle.close \in Nat /\ candle.low \in Nat /\ candle.high \in Nat
  BY CandlesArePrices DEF Tick, TradeOK, TypeOK
<1>2. tracker' \in [peak : Nat, level : Nat]
  BY <1>1 DEF Update
<1>3. left' \in BOOLEAN
  BY <1>1 DEF Breaks
<1>4. ASSUME dir = "long"
      PROVE  \E c \in Highest' : tracker'.level = c.low /\ tracker'.peak = c.close
  <2>1. tracker' = IF candle.close > tracker.peak
                     THEN [peak |-> candle.close, level |-> candle.low] ELSE tracker
    BY <1>1, <1>4 DEF Update
  <2>2. \A d \in seen : d.close \in Nat /\ d.close <= tracker.peak
    <3>1. CASE seen = {}
      BY <3>1
    <3>2. CASE seen # {}
      <4>1. PICK c \in Highest : tracker.peak = c.close
        BY <1>4, <3>2 DEF TradeOK
      <4> QED BY <1>1, <4>1, CandlesArePrices DEF Highest
    <3> QED BY <3>1, <3>2
  <2>3. CASE candle.close > tracker.peak
    <3>1. tracker'.level = candle.low /\ tracker'.peak = candle.close
      BY <2>1, <2>3
    <3>2. \A d \in seen \cup {candle} : d.close <= candle.close
      BY <1>1, <2>2, <2>3
    <3>3. candle \in Highest'
      BY <1>1, <3>2 DEF Highest
    <3> QED BY <3>1, <3>3
  <2>4. CASE ~(candle.close > tracker.peak)
    <3>1. tracker' = tracker /\ candle.close <= tracker.peak
      BY <1>1, <2>1, <2>4
    <3>2. seen # {}
      <4>1. seen = {} => tracker.peak = Premium
        BY DEF TradeOK, NewTracker
      <4> QED BY <1>1, <2>4, <4>1, CandlesArePrices
    <3>3. PICK c \in Highest : tracker.level = c.low /\ tracker.peak = c.close
      BY <1>4, <3>2 DEF TradeOK
    <3>4. c \in Highest'
      BY <1>1, <3>1, <3>3 DEF Highest
    <3> QED BY <3>1, <3>3, <3>4
  <2> QED BY <2>3, <2>4
<1> QED BY <1>1, <1>2, <1>3, <1>4 DEF TypeOK

-----------------------------------------------------------------------------
(* The sweeps.                                                               *)

LEMMA SweepOfIsSweep ==
  ASSUME NEW p, NEW bars, NEW f \in Frames, NEW turn \in Nat, SweepBars(p, bars) # {}
  PROVE  IsSweep(SweepOf(p, bars, f, turn))
<1> DEFINE i == Min(SweepBars(p, bars))
           s == SweepOf(p, bars, f, turn)
<1>1. SweepBars(p, bars) \in SUBSET Nat
  BY DEF SweepBars
<1>2. i \in SweepBars(p, bars)
  BY <1>1, MinOfNumbers
<1>3. i \in 2 .. Len(bars) /\ Pierces(p, bars[i])
  BY <1>2 DEF SweepBars, SweepsAt
<1>4. /\ s.frame = f /\ s.ago = Len(bars) - i /\ s.turn = turn
      /\ s.kind = p.kind /\ s.pool = p.price /\ s.extreme = Extreme(p, bars[i])
  BY DEF SweepOf
<1> HIDE DEF i, s
<1>5. s.ago \in Nat
  BY <1>3, <1>4
<1>6. IF s.kind = "low" THEN s.extreme < s.pool ELSE s.extreme > s.pool
  BY <1>3, <1>4 DEF Pierces, Extreme
<1>7. IsSweep(s)
  BY <1>4, <1>5, <1>6 DEF IsSweep
<1> QED BY <1>7 DEF s

LEMMA DetectedAreSweeps ==
  ASSUME NEW pools, NEW slow, NEW fast, NEW s \in DetectSweeps(pools, slow, fast)
  PROVE  IsSweep(s)
<1>1. ASSUME NEW i \in Swept(pools, slow), s = SweepOf(pools[i], slow, "15m", i)
      PROVE  IsSweep(s)
  <2>1. i \in Nat /\ SweepBars(pools[i], slow) # {}
    BY DEF Swept
  <2> QED BY <1>1, <2>1, SweepOfIsSweep DEF Frames
<1>2. ASSUME NEW i \in Swept(pools, fast), s = SweepOf(pools[i], fast, "5m", Len(pools) + i)
      PROVE  IsSweep(s)
  <2>1. Len(pools) + i \in Nat /\ SweepBars(pools[i], fast) # {}
    BY DEF Swept
  <2> QED BY <1>2, <2>1, SweepOfIsSweep DEF Frames
<1> QED BY <1>1, <1>2 DEF DetectSweeps

LEMMA RecentIsOneOfThem ==
  ASSUME NEW S, S # {}, \A s \in S : IsSweep(s)
  PROVE  RecentSweep(S) \in S
<1>1. \A s \in S : MinutesAgo(s) \in Nat /\ s.turn \in Nat
  BY DEF IsSweep, MinutesAgo, Minutes, Frames
<1>2. Youngest(S) # {}
  <2> DEFINE all == {MinutesAgo(s) : s \in S}
  <2>1. all \in SUBSET Nat /\ all # {}
    BY <1>1
  <2>2. \E m \in all : \A n \in all : m <= n
    <3> HIDE DEF all
    <3> QED BY <2>1, LeastNumber
  <2> QED BY <2>2 DEF Youngest
<1>3. \E s \in Youngest(S) : \A t \in Youngest(S) : s.turn <= t.turn
  <2> DEFINE all == {s.turn : s \in Youngest(S)}
  <2>1. all \in SUBSET Nat /\ all # {}
    BY <1>1, <1>2 DEF Youngest
  <2>2. \E m \in all : \A n \in all : m <= n
    <3> HIDE DEF all
    <3> QED BY <2>1, LeastNumber
  <2> QED BY <2>2
<1>4. RecentSweep(S) \in Youngest(S)
  BY <1>3 DEF RecentSweep
<1> QED BY <1>4 DEF Youngest

LEMMA ScanFindsASweep ==
  ASSUME NEW a, NEW b
  PROVE  RecentSweep(Sweeps(a, b)) = NoSweep \/ IsSweep(RecentSweep(Sweeps(a, b)))
<1>1. \A s \in Sweeps(a, b) : IsSweep(s)
  BY DetectedAreSweeps DEF Sweeps
<1>2. CASE Sweeps(a, b) = {}
  BY <1>2 DEF RecentSweep
<1>3. CASE Sweeps(a, b) # {}
  BY <1>1, <1>3, RecentIsOneOfThem
<1> QED BY <1>2, <1>3

LEMMA ReversalsAreNamed ==
  ASSUME NEW v, NEW s, Classify(v, s) = "SWEEP_REVERSAL"
  PROVE  IsSweepReversal(s)
<1> SUFFICES ASSUME ~IsSweepReversal(s) PROVE FALSE
  OBVIOUS
<1>1. CASE IsBreakout(v)
  BY <1>1 DEF Classify
<1>2. CASE ~IsBreakout(v) /\ IsCompression(v)
  BY <1>2 DEF Classify
<1>3. CASE ~IsBreakout(v) /\ ~IsCompression(v)
  BY <1>3 DEF Classify
<1> QED BY <1>1, <1>2, <1>3

LEMMA EnterReclaims ==
  ASSUME SweepOK, Enter
  PROVE  EntryIsReclaimed'
<1>1. PICK price \in Prices, ones \in Recents :
        /\ \E reach \in Reaches : Recovered(sweep, price, reach)
        /\ ConfirmBos(ones, Direction(sweep), price)
        /\ entry' = [sweep |-> sweep, price |-> price, ones |-> ones, since |-> Since(sweep),
                     failed |-> failed]
  BY DEF Enter
<1>2. dir' = Direction(sweep) /\ regime = "SWEEP_REVERSAL" /\ pc = "hunt"
  BY DEF Enter
<1>3. sweep # NoSweep /\ sweep.name # ""
  <2>1. Classify(view, sweep) = "SWEEP_REVERSAL"
    BY <1>2 DEF SweepOK
  <2>2. IsSweepReversal(sweep)
    BY <2>1, ReversalsAreNamed
  <2> QED BY <2>2 DEF IsSweepReversal
<1>4. IF sweep.kind = "low" THEN sweep.extreme < sweep.pool /\ sweep.pool < price
                            ELSE sweep.extreme > sweep.pool /\ sweep.pool > price
  BY <1>1, <1>2, <1>3 DEF SweepOK, IsSweep, Recovered
<1>5. /\ ones \in Seq(Prints) \ {<<>>} /\ price \in Nat
      /\ \A i \in 1 .. Len(ones) : ones[i].low <= ones[i].close /\ ones[i].close <= ones[i].high
  <2> DEFINE Candle == {c \in Prints : c.low <= c.close /\ c.close <= c.high}
  <2>1. ones \in Seq(Candle) \ {<<>>} /\ price \in Nat
    BY HuntAssumption DEF HuntAssumption
  <2>2. \A i \in 1 .. Len(ones) : ones[i] \in Candle
    BY <2>1
  <2> QED BY <2>1, <2>2
<1>6. Low(ones) \in Nat /\ High(ones) \in Nat /\ Last(ones).close \in Nat
  <2>1. Last(ones) \in Prints
    BY <1>5 DEF Last
  <2> QED BY <1>5, <2>1, HighAndLow DEF Prints
<1>7. Low(ones) <= Last(ones).close /\ Last(ones).close <= High(ones)
  <2>1. Len(ones) \in 1 .. Len(ones) /\ Last(ones) = ones[Len(ones)] /\ DOMAIN ones = 1 .. Len(ones)
    BY <1>5 DEF Last
  <2>2. ones[Len(ones)] \in Prints
    BY <1>5, <2>1
  <2>3. Low(ones) <= ones[Len(ones)].low /\ ones[Len(ones)].high <= High(ones)
    BY <1>5, <2>1, HighAndLow
  <2>4. /\ ones[Len(ones)].low <= ones[Len(ones)].close
        /\ ones[Len(ones)].close <= ones[Len(ones)].high
    BY <1>5, <2>1
  <2> QED BY <1>6, <2>1, <2>2, <2>3, <2>4 DEF Prints
<1>8. IF sweep.kind = "low" THEN High(ones) < price ELSE Low(ones) > price
  BY <1>1, <1>5, <1>6, <1>7 DEF ConfirmBos, Direction
<1>9. /\ entry'.sweep = sweep /\ entry'.price = price /\ entry'.ones = ones
      /\ dir' = IF sweep.kind = "low" THEN "long" ELSE "short"
  BY <1>1, <1>2 DEF Direction
<1> QED BY <1>3, <1>4, <1>8, <1>9 DEF EntryIsReclaimed

LEMMA SweepAgeIsInt == SweepAge \in Nat
  BY HuntAssumption DEF HuntAssumption

LEMMA SlowCovers ==
  ASSUME NEW c \in Seq(Bars)
  PROVE  SlowBars = 3 /\ Len(Slow(c)) \in Nat /\ Len(c) <= 3 * Len(Slow(c))
<1>1. SlowBars = 3
  BY HuntAssumption DEF HuntAssumption, Minutes, Frames
<1>2. Len(c) \in Nat
  OBVIOUS
<1>3. (Len(c) + 2) \div 3 \in Nat /\ Len(c) <= 3 * ((Len(c) + 2) \div 3)
  BY <1>2
<1>4. Len(Slow(c)) = (Len(c) + SlowBars - 1) \div SlowBars
  BY <1>1, <1>2, <1>3 DEF Slow
<1> QED BY <1>1, <1>2, <1>3, <1>4

LEMMA EnterIsFresh ==
  ASSUME ChartOK, SweepOK, Enter
  PROVE  TradedSweepIsFresh'
<1>1. /\ entry'.sweep = sweep /\ entry'.since = Since(sweep) /\ entry'.failed = failed
      /\ regime = "SWEEP_REVERSAL" /\ pc = "hunt" /\ AgeBars(sweep) <= SweepAge
  BY DEF Enter
<1>2. IsSweep(sweep)
  <2>1. Classify(view, sweep) = "SWEEP_REVERSAL"
    BY <1>1 DEF SweepOK
  <2>2. IsSweepReversal(sweep)
    BY <2>1, ReversalsAreNamed
  <2>3. sweep # NoSweep
    BY <2>2 DEF IsSweepReversal
  <2> QED BY <1>1, <2>3 DEF SweepOK
<1> DEFINE f == sweep.frame
<1>3. SUFFICES ASSUME f \notin failed
               PROVE  Since(sweep) <= SweepAge + Stale[f]
  BY <1>1 DEF TradedSweepIsFresh
<1>4. f \in Frames /\ Stale[f] \in Nat /\ sweep.ago \in Nat /\ Len(chart) \in Nat
  BY <1>2, Staleness DEF IsSweep, ChartOK
<1>5. /\ Len(cache["5m"]) \in Nat /\ Len(cache["15m"]) \in Nat /\ cache["15m"] \in Seq(Bars)
      /\ Len(chart) <= Len(cache[f]) + Stale[f] /\ cache[f] # NoChart
  <2>1. age[f] <= Stale[f] /\ age[f] \in Nat
    BY <1>1, <1>3, <1>4 DEF ChartOK
  <2> QED BY <1>4, <2>1 DEF ChartOK, Frames
<1>6. CASE f = "5m"
  <2>1. AgeBars(sweep) = sweep.ago
    BY <1>4, <1>6 DEF AgeBars, MinutesAgo, Minutes, Frames
  <2>2. Since(sweep) = Len(chart) - (Len(cache["5m"]) - sweep.ago)
    BY <1>6 DEF Since
  <2> QED BY <1>1, <1>4, <1>5, <1>6, <2>1, <2>2, SweepAgeIsInt
<1>7. CASE f = "15m"
  <2>1. AgeBars(sweep) = 3 * sweep.ago
    BY <1>4, <1>7 DEF AgeBars, MinutesAgo, Minutes, Frames
  <2> DEFINE n == Len(Slow(cache["15m"]))
  <2>2. n \in Nat /\ Len(cache["15m"]) <= 3 * n /\ SlowBars = 3
    BY <1>5, SlowCovers
  <2>3. Since(sweep) = Len(chart) - Min({3 * (n - sweep.ago), Len(cache["15m"])})
    BY <1>5, <1>7, <2>2 DEF Since
  <2> HIDE DEF n
  <2> DEFINE m == 3 * (n - sweep.ago)
             l == Len(cache["15m"])
  <2>4. m \in Int /\ l \in Int /\ Since(sweep) = Len(chart) - Min({m, l})
    BY <1>4, <1>5, <2>2, <2>3
  <2>5. Min({m, l}) = IF m <= l THEN m ELSE l
    <3> HIDE DEF m, l
    <3> QED BY <2>4, MinOfTwo
  <2>6. /\ l \in Nat /\ l <= 3 * n /\ n \in Nat /\ sweep.ago \in Nat /\ Len(chart) \in Nat
        /\ Len(chart) <= l + Stale[f] /\ Stale[f] \in Nat
        /\ 3 * sweep.ago <= SweepAge /\ SweepAge \in Nat
    BY <1>1, <1>4, <1>5, <1>7, <2>1, <2>2, SweepAgeIsInt
  <2>7. Since(sweep) = Len(chart) - (IF m <= l THEN m ELSE l)
    BY <2>4, <2>5
  <2> HIDE DEF l, f
  <2>8. CASE m <= l
    <3>1. Since(sweep) = Len(chart) - 3 * n + 3 * sweep.ago
      BY <2>6, <2>7, <2>8
    <3> QED BY <2>6, <3>1
  <2>9. CASE ~(m <= l)
    <3>1. Since(sweep) = Len(chart) - l
      BY <2>7, <2>9
    <3> QED BY <2>6, <3>1
  <2> QED BY <2>8, <2>9
<1> QED BY <1>4, <1>6, <1>7 DEF Frames

-----------------------------------------------------------------------------
(* The invariant.                                                            *)

LEMMA InitInv == HuntInit => Inv
<1> SUFFICES ASSUME HuntInit PROVE Inv
  OBVIOUS
<1>1. ChartOK
  <2>1. chart \in Seq(Bars) \ {<<>>}
    BY HuntAssumption DEF HuntAssumption, HuntInit
  <2>2. cache \in [Frames -> Seq(Bars)]
    BY DEF HuntInit, NoChart
  <2> QED BY <2>1, <2>2, Staleness DEF HuntInit, ChartOK, NeverFetched, NoChart
<1>2. ViewOK
  BY NoViewIsAView DEF HuntInit, ViewOK, TrendIsNamed, Regimes
<1>3. SweepOK
  BY DEF HuntInit, SweepOK, EntryIsReclaimed, TradedSweepIsFresh
<1>4. TradeOK
  BY SomeCandle, CandlesArePrices DEF HuntInit, TradeOK, TypeOK, NewTracker, None, Dirs
<1> QED BY <1>1, <1>2, <1>4, <1>3 DEF Inv

LEMMA ForgottenCache ==
  ASSUME ChartOK, chart' \in {chart, Yesterday}, pc' \in {"filled", "poll"},
         cache' = [f \in Frames |-> NoChart], age' = NeverFetched, failed' = {}
  PROVE  ChartOK'
<1>1. chart' \in Seq(Bars) \ {<<>>}
  BY HuntAssumption DEF HuntAssumption, ChartOK
<1>2. cache' \in [Frames -> Seq(Bars)]
  BY DEF NoChart
<1> QED BY <1>1, <1>2, Staleness DEF ChartOK, NeverFetched, NoChart

LEMMA NextInv == Inv /\ [HuntNext]_huntVars => Inv'
<1> SUFFICES ASSUME Inv, [HuntNext]_huntVars PROVE Inv'
  OBVIOUS
<1> USE DEF Inv
<1>1. CASE Poll
  <2>1. ChartOK'
    BY <1>1, PollKeepsChart
  <2>2. ViewOK'
    BY <1>1 DEF Poll, tickVars, ViewOK, TrendIsNamed
  <2>3. TradeOK'
    BY <1>1 DEF Poll, tradeVars, TradeOK, TypeOK, Highest
  <2>9. SweepOK'
    BY <1>1 DEF Poll, SweepOK, EntryIsReclaimed, TradedSweepIsFresh
  <2> QED BY <2>1, <2>2, <2>3, <2>9
<1>2. CASE Scan
  <2>1. ChartOK'
    BY <1>2 DEF Scan, marketVars, ChartOK
  <2>2. ViewOK'
    BY <1>2 DEF Scan, ViewOK, TrendIsNamed
  <2>3. TradeOK'
    BY <1>2 DEF Scan, tradeVars, TradeOK, TypeOK, Highest
  <2>9. SweepOK'
    BY <1>2, ScanFindsASweep DEF Scan, SweepOK, EntryIsReclaimed, TradedSweepIsFresh
  <2> QED BY <2>1, <2>2, <2>3, <2>9
<1>3. CASE Assess
  <2>1. ChartOK'
    BY <1>3 DEF Assess, marketVars, ChartOK
  <2>2. ViewOK'
    <3>1. PICK v \in Views : view' = v /\ regime' = Classify(v, sweep)
      BY <1>3 DEF Assess
    <3>2. v \in View
      BY HuntAssumption DEF HuntAssumption
    <3> QED BY <1>3, <3>1, <3>2, ClassifyNamesTrends DEF Assess, ViewOK, TrendIsNamed
  <2>3. TradeOK'
    BY <1>3 DEF Assess, tradeVars, TradeOK, TypeOK, Highest
  <2>9. SweepOK'
    BY <1>3 DEF Assess, SweepOK, EntryIsReclaimed, TradedSweepIsFresh
  <2> QED BY <2>1, <2>2, <2>3, <2>9
<1>4. CASE Enter
  <2>1. ChartOK'
    BY <1>4, ForgottenCache DEF Enter
  <2>2. ViewOK'
    BY <1>4, NoViewIsAView DEF Enter, ViewOK, TrendIsNamed, Regimes
  <2>3. TradeOK'
    BY <1>4 DEF Enter, Direction, Dirs, TradeOK, TypeOK, Highest
  <2>9. SweepOK'
    BY <1>4, EnterReclaims, EnterIsFresh DEF Enter, SweepOK
  <2> QED BY <2>1, <2>2, <2>3, <2>9
<1>5. CASE Pass
  <2>1. ChartOK'
    BY <1>5 DEF Pass, marketVars, ChartOK
  <2>2. ViewOK'
    BY <1>5, NoViewIsAView DEF Pass, ViewOK, TrendIsNamed, Regimes
  <2>3. TradeOK'
    BY <1>5 DEF Pass, tradeVars, TradeOK, TypeOK, Highest
  <2>9. SweepOK'
    BY <1>5 DEF Pass, SweepOK, EntryIsReclaimed, TradedSweepIsFresh
  <2> QED BY <2>1, <2>2, <2>3, <2>9
<1>6. CASE Track
  <2>1. ChartOK'
    BY <1>6 DEF Track, marketVars, ChartOK
  <2>2. ViewOK'
    BY <1>6 DEF Track, tickVars, ViewOK, TrendIsNamed
  <2>3. TradeOK'
    BY <1>6 DEF Track, TradeOK, TypeOK, Highest
  <2>9. SweepOK'
    BY <1>6 DEF Track, SweepOK, EntryIsReclaimed, TradedSweepIsFresh
  <2> QED BY <2>1, <2>2, <2>3, <2>9
<1>7. CASE Trade
  <2>1. ChartOK'
    BY <1>7 DEF Trade, marketVars, ChartOK
  <2>2. ViewOK'
    BY <1>7 DEF Trade, tickVars, ViewOK, TrendIsNamed
  <2>3. pc = "trade" /\ pc' = "trade"
    BY <1>7 DEF Trade
  <2>4. ASSUME Tick PROVE TradeOK'
    BY <2>3, <2>4, TickKeepsTrade DEF TradeOK, Tick
  <2>5. ASSUME NewCandle PROVE TradeOK'
    BY <2>3, <2>5 DEF NewCandle, TradeOK, TypeOK, Highest
  <2>6. ASSUME Restart PROVE TradeOK'
    BY <2>3, <2>6, CandlesArePrices DEF Restart, TradeOK, TypeOK, NewTracker, None
  <2>9. SweepOK'
    BY <1>7 DEF Trade, SweepOK, EntryIsReclaimed, TradedSweepIsFresh
  <2> QED BY <1>7, <2>1, <2>2, <2>9, <2>4, <2>5, <2>6 DEF Trade
<1>8. CASE Leave
  <2>1. ChartOK'
    BY <1>8 DEF Leave, marketVars, ChartOK
  <2>2. ViewOK'
    BY <1>8 DEF Leave, tickVars, ViewOK, TrendIsNamed
  <2>3. TradeOK'
    BY <1>8, SomeCandle, CandlesArePrices
       DEF Leave, NoTrade, TradeOK, TypeOK, NewTracker, None, Dirs
  <2>9. SweepOK'
    BY <1>8 DEF Leave, SweepOK, EntryIsReclaimed, TradedSweepIsFresh
  <2> QED BY <2>1, <2>2, <2>3, <2>9
<1>9. CASE Reboot
  <2>1. ChartOK'
    BY <1>9, ForgottenCache DEF Reboot
  <2>2. ViewOK'
    BY <1>9 DEF Reboot, tickVars, ViewOK, TrendIsNamed
  <2>3. TradeOK'
    BY <1>9 DEF Reboot, tradeVars, TradeOK, TypeOK, Highest
  <2>9. SweepOK'
    BY <1>9 DEF Reboot, SweepOK, EntryIsReclaimed, TradedSweepIsFresh
  <2> QED BY <2>1, <2>2, <2>3, <2>9
<1>10. CASE UNCHANGED huntVars
  BY <1>10 DEF huntVars, ChartOK, ViewOK, TrendIsNamed, SweepOK, EntryIsReclaimed, TradedSweepIsFresh, TradeOK, TypeOK, Highest
<1> QED BY <1>1, <1>2, <1>3, <1>4, <1>5, <1>6, <1>7, <1>8, <1>9, <1>10 DEF HuntNext

LEMMA Invariance == HuntSpec => []Inv
  BY InitInv, NextInv, PTL DEF HuntSpec

-----------------------------------------------------------------------------
\* Every variable keeps its type, the trade's included.
THEOREM TypeCorrect == HuntSpec => []HuntTypeOK
<1>1. Inv => HuntTypeOK
  BY DEF Inv, ChartOK, ViewOK, TradeOK, HuntTypeOK
<1> QED BY <1>1, Invariance, PTL

\* DataCache.get serves an analysis no frame that lags the market by more than
\* its staleness, whatever the staleness of each frame and however long the
\* day, save where the refresh of this very tick has failed.
THEOREM CandlesFollowMarket == HuntSpec => []CandlesAreCurrent
<1>1. Inv => CandlesAreCurrent
  <2> SUFFICES ASSUME Inv, pc \in {"scan", "assess", "hunt"}, NEW f \in Frames \ failed
               PROVE  Len(chart) <= Len(cache[f]) + Stale[f]
    BY DEF CandlesAreCurrent
  <2>1. age[f] <= Stale[f] /\ Len(chart) <= Len(cache[f]) + age[f]
    BY DEF Inv, ChartOK
  <2>2. age[f] \in Nat /\ Stale[f] \in Nat /\ Len(chart) \in Nat /\ Len(cache[f]) \in Nat
    BY Staleness DEF Inv, ChartOK
  <2> QED BY <2>1, <2>2
<1> QED BY <1>1, Invariance, PTL

\* classify names every strong trend that the structure does not contradict,
\* whatever the other engines report.
THEOREM StrongTrendsAreNamed == HuntSpec => []TrendIsNamed
<1>1. Inv => TrendIsNamed
  BY DEF Inv, ViewOK
<1> QED BY <1>1, Invariance, PTL

\* Whatever levels the scan is given, a sweep that is traded has a name, and the
\* trade is opened beyond its level and beyond every candle of its structure.
THEOREM EntriesAreReclaimed == HuntSpec => []EntryIsReclaimed
<1>1. Inv => EntryIsReclaimed
  BY DEF Inv, SweepOK
<1> QED BY <1>1, Invariance, PTL

\* However long the day, the sweep of a trade is no older by the market's bars
\* than the limit and the staleness of the frame it was found in.
THEOREM TradedSweepsAreFresh == HuntSpec => []TradedSweepIsFresh
<1>1. Inv => TradedSweepIsFresh
  BY DEF Inv, SweepOK
<1> QED BY <1>1, Invariance, PTL

\* BOSTracker protects a long by the low of a candle with the highest close it
\* has read, through every market of candles and every restart.
THEOREM LongsAreProtected == HuntSpec => []LongIsProtected
<1>1. Inv => LongIsProtected
  BY DEF Inv, TradeOK, LongIsProtected
<1> QED BY <1>1, Invariance, PTL

\* A long is left on its structure exactly when a candle closes below that low.
THEOREM LongsLeaveOnClose == HuntSpec => LongLeavesOnClose
<1>1. ASSUME Inv, [HuntNext]_huntVars, Tick, dir = "long"
      PROVE  left' <=> \E c \in Highest' : candle.close < c.low /\ tracker'.level = c.low
  <2>1. Inv'
    BY <1>1, NextInv
  <2>2. /\ left' = Breaks(tracker', dir, candle) /\ dir' = dir
        /\ seen' = seen \cup {candle} /\ candle \in Candles /\ seen' \subseteq Candles
    BY <1>1, <2>1 DEF Tick, Inv, TradeOK, TypeOK
  <2>3. PICK c \in Highest' : tracker'.level = c.low
    BY <1>1, <2>1, <2>2 DEF Inv, TradeOK
  <2>4. c \in Candles /\ c.low # None
    BY <2>2, <2>3, CandlesArePrices DEF Highest
  <2>5. left' <=> candle.close < tracker'.level
    BY <1>1, <2>2, <2>3, <2>4 DEF Breaks
  <2> QED BY <2>3, <2>5
<1>2. Inv /\ [HuntNext]_huntVars
        => [Tick /\ dir = "long" =>
              (left' <=> \E c \in Highest' : candle.close < c.low /\ tracker'.level = c.low)]_vars
  BY <1>1
<1> QED BY <1>2, Invariance, PTL DEF HuntSpec, LongLeavesOnClose

\* What the docstring of BOSTracker promises a short (exit_engine.py:203) no
\* short ever gets: its lowest close starts at the option's premium, which no
\* close of the underlying is below.
ShortUnprotected == dir = "short" => tracker = NewTracker /\ ~left

LEMMA ShortStays == Inv /\ ShortUnprotected /\ [HuntNext]_huntVars => ShortUnprotected'
<1> SUFFICES ASSUME Inv, ShortUnprotected, [HuntNext]_huntVars, dir' = "short"
             PROVE  tracker' = NewTracker /\ ~left'
  BY DEF ShortUnprotected
<1>1. CASE Poll \/ Scan \/ Assess \/ Pass \/ Reboot \/ UNCHANGED huntVars
  BY <1>1 DEF Poll, Scan, Assess, Pass, Reboot, tradeVars, huntVars, ShortUnprotected
<1>2. CASE Enter
  BY <1>2 DEF Enter, Inv, TradeOK
<1>3. CASE Track
  BY <1>3 DEF Track, ShortUnprotected
<1>4. CASE Trade
  <2>1. CASE Tick
    <3>1. /\ tracker' = Update(tracker, dir, candle) /\ left' = Breaks(tracker', dir, candle)
          /\ dir = "short" /\ candle \in Candles
      BY <2>1 DEF Tick, Inv, TradeOK, TypeOK
    <3>2. tracker = NewTracker /\ ~(candle.close < Premium)
      BY <3>1, StructureAssumption, CandlesArePrices DEF ShortUnprotected, StructureAssumption
    <3>3. tracker' = NewTracker
      BY <3>1, <3>2 DEF Update, NewTracker
    <3> QED BY <3>1, <3>3 DEF Breaks, NewTracker
  <2>2. CASE NewCandle \/ Restart
    BY <2>2 DEF NewCandle, Restart, ShortUnprotected
  <2> QED BY <1>4, <2>1, <2>2 DEF Trade
<1>5. CASE Leave
  BY <1>5 DEF Leave, NoTrade
<1> QED BY <1>1, <1>2, <1>3, <1>4, <1>5 DEF HuntNext

\* No short is ever left on a break of structure, or has a level to break,
\* whatever its underlying does: what the run bos_short shows for some candles.
THEOREM ShortsNeverBreak == HuntSpec => [](dir = "short" => tracker.level = None /\ ~left)
<1>1. HuntInit => ShortUnprotected
  BY DEF HuntInit, ShortUnprotected
<1>2. ShortUnprotected => (dir = "short" => tracker.level = None /\ ~left)
  BY DEF ShortUnprotected, NewTracker
<1> QED BY <1>1, <1>2, ShortStays, Invariance, PTL DEF HuntSpec

=============================================================================
