--------------------------- MODULE StructureExit ----------------------------
(* The break-of-structure exit of a sweep trade: BOSTracker of               *)
(* execution/exit_engine.py, created and fed by _evaluate_sweep while the    *)
(* trade is in profit.                                                       *)
EXTENDS Integers

CONSTANTS
  Premium,     \* what the option cost: the tracker's entry_price
  Candles      \* the closed 1-minute candles of the underlying

\* An option costs less than its underlying trades for.
ASSUME StructureAssumption ==
  /\ Premium \in Nat
  /\ Candles \subseteq [close : Nat, high : Nat, low : Nat]
  /\ \A c \in Candles : Premium < c.close /\ 0 < c.low

Dirs == {"long", "short"}
None == 0      \* protected_level before the first new extreme

VARIABLES
  dir,         \* direction of the trade
  tracker,     \* its BOSTracker: peak_close and protected_level
  seen,        \* history: the candles the tracker has read
  candle,      \* the last closed candle
  left         \* history: the trade was left on a break of structure

vars == <<dir, tracker, seen, candle, left>>

\* Mutant: the sentinel of a price feed.
NewTrackerMutant == [peak |-> -1, level |-> None]

NewTracker == [peak |-> Premium, level |-> None]

\* Mutant: the level stays where the first new high left it.
UpdateMutant(t, d, c) ==
  IF d = "long"
    THEN IF c.close > t.peak
           THEN [peak |-> c.close, level |-> IF t.level = None THEN c.low ELSE t.level] ELSE t
    ELSE IF c.close < t.peak THEN [peak |-> c.close, level |-> c.high] ELSE t

Update(t, d, c) ==
  IF d = "long"
    THEN IF c.close > t.peak THEN [peak |-> c.close, level |-> c.low] ELSE t
    ELSE IF c.close < t.peak THEN [peak |-> c.close, level |-> c.high] ELSE t

\* Mutant: a wick through the level is enough.
BreaksMutant(t, d, c) ==
  /\ t.level # None
  /\ IF d = "long" THEN c.low < t.level ELSE c.high > t.level

Breaks(t, d, c) ==
  /\ t.level # None
  /\ IF d = "long" THEN c.close < t.level ELSE c.close > t.level

-----------------------------------------------------------------------------
Init ==
  /\ dir \in Dirs /\ candle \in Candles
  /\ tracker = NewTracker /\ seen = {} /\ left = FALSE

\* A tick of a trade in profit.
Tick ==
  /\ ~left
  /\ tracker' = Update(tracker, dir, candle)
  /\ seen' = seen \cup {candle}
  /\ left' = Breaks(tracker', dir, candle)
  /\ UNCHANGED <<dir, candle>>

\* Candles that close while the trade shows no profit are not read.
NewCandle ==
  /\ candle' \in Candles
  /\ UNCHANGED <<dir, tracker, seen, left>>

\* The trackers are memory of the process.
Restart ==
  /\ ~left
  /\ tracker' = NewTracker /\ seen' = {}
  /\ UNCHANGED <<dir, candle, left>>

\* clear_trail, and the next sweep trade.
NextTrade ==
  /\ left
  /\ dir' \in Dirs /\ tracker' = NewTracker /\ seen' = {} /\ left' = FALSE
  /\ UNCHANGED candle

Next == Tick \/ NewCandle \/ Restart \/ NextTrade

Spec == Init /\ [][Next]_vars

-----------------------------------------------------------------------------
TypeOK ==
  /\ dir \in Dirs /\ seen \subseteq Candles /\ candle \in Candles /\ left \in BOOLEAN
  /\ tracker \in [peak : Nat, level : Nat]

\* The candles of the highest close a long has read.
Highest == {c \in seen : \A d \in seen : d.close <= c.close}

\* The level that protects a long is the low of a candle with the highest
\* close it has read: the docstring's reference, over the whole history.
LongIsProtected ==
  dir = "long" /\ seen # {} => \E c \in Highest : tracker.level = c.low

\* A long is left on a break exactly when the candle it reads closes below the
\* level that protects it.
LongLeavesOnClose ==
  [][Tick /\ dir = "long" => (left' <=> \E c \in Highest' : candle.close < c.low /\ tracker'.level = c.low)]_vars

\* exit_engine.py:203, "Short: tracks lowest closing low -> protected LH = high
\* of that candle": a short that has read a candle has a level.
ShortIsProtected == dir = "short" /\ seen # {} => tracker.level # None

=============================================================================
