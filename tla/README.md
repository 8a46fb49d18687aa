# A verification model of options_trader_v2

The bot trades same-day options on one underlying. One Python process runs
`main_loop` (main.py): every 15 seconds it analyses the market, manages what is
open, and, when nothing is open, looks for an entry. systemd restarts the process
whenever it ends. What it must remember across a restart is in one SQLite table,
`trades`; everything else — the day's halt, the condor plan, the opening-range
engine, the trails of open options — is process memory. In live trading there is a
third copy of the truth, the account at the broker.

The hard part of this program is therefore not its arithmetic. It is that four
memories (process, list of open records, table, broker) have to agree after any
sequence of entries, partial failures, restarts, days and market moves, and that
several parts of one tick act on what an earlier part of it read. The modules model
that, once without prices (`TradingLoop`, `BrokerSync`) and, for the strategies whose
promises are about money or about candles, once with them (`NeutralDay`, `SweepHunt`,
`LongExit`).

## 1. Inventory

| Component (source) | State it keeps | Operations | Talks to |
| --- | --- | --- | --- |
| Polling loop (main.py) | `BotState`, stage of the tick, error counter | closed tick, hard close, manage, Leg 2 check, roll, entry attempt, restart and recovery | everything, by direct calls |
| Clock and session guard (utils/time_utils.py, risk/session_guard.py) | none (wall clock) | `is_rth`, `is_hard_close_time`, `can_enter` | loop, strategies |
| Iron condor plan (strategy/iron_condor_strategy.py) | `_plan` (state, Leg 1 side, triggers), `_plan_date` | `decide`, `check_leg_triggers`, `notify_leg_filled`, reset on a new day | loop; market regime |
| Broken-wing roll (strategy/condor_roll.py) | none (`is_broken_wing` of rows) | `check_and_execute_roll`, `_execute_roll` | exit engine, table, list |
| Position manager (execution/position_manager.py) | `_open_records` | `has_open_position`, set, add, remove, manage, flatten | exit engine, table, risk manager, ORB engine |
| Trades table (database/trade_logger.py) | rows of `trades` | entry, exit, phantom close, open rows, day's result | SQLite |
| Risk manager (risk/risk_manager.py) | halt latch, in-memory result, streak | `is_halted`, record result, `reset_session`, sizing | table |
| Opening-range engine (analysis/orb_engine.py, analysis/get_orb_range.py) | `ORBData`, break latches | `update` (break, retest, expiry, re-arm), `reset_for_session`, `notify_position_closed` | loop, position manager, sweep gate |
| Exit engine (execution/exit_engine.py) | `_trail_stops`, `_trail_active`, `_bos_trackers` | `evaluate` per kind of trade, `place_exit_order`, `clear_trail` | position manager, broker |
| Entry engine (execution/entry_engine.py) | none | `enter`: order, then row | broker, table |
| Broker reconcile (execution/broker_reconcile.py, main.py) | none | `build_plan`, sweep at a start, sweep each half hour | broker, table, list |
| Tasty session (data/tasty_client.py) | cached session and account, a lock | `get_session`, `get_account`, positions | brokerage SDK |
| Butterfly strategy (strategy/butterfly_strategy.py) | `_fired_today` | signal | loop |
| Macro data (data/macro_data.py) | the hour's snapshot: VIX, Fed flag | refresh, gates | loop, condor, butterfly, sizing |
| Candle cache (data/data_cache.py, data/market_data.py) | frames with their time of refresh | refresh of the stale frames | analysis |
| Liquidity map (analysis/liquidity_mapper.py) | none; recomputed | pools, named levels, sweeps and their ages | classifier, sweep strategy |
| Regime classifier (analysis/regime_classifier.py) | none | rules in a fixed order | everything |
| Sweep reversal (strategy/sweep_reversal_strategy.py) | none | freshness, recovery, break of structure, signal | loop |
| Options chain (data/options_chain.py) | one tick's chain | marks by strike, nearest liquid strike | strategies, exits |
| ORB strategy, setup scorer, indicators, GEX | none that outlives a tick | signal, score, sums | loop |
| Notifications, reports, collectors, deployment | — | — | — |

Calls are synchronous and the bot has one thread of its own; interleaving comes
from the broker (fills, closes), from the clock passing between and within ticks,
from kills between any two writes, and from the order of the stages in a tick.
The clock is asked at the head of a tick and at most once more before an entry, and
network calls follow: a cutoff can pass in the middle of a tick.
An exception anywhere in a tick abandons the rest of that tick and the loop goes on,
with the list, the table and the account as they were left; the hourly error limit
ends the process, which is a kill like any other.

What has to be right, component by component:

- *loop, plan, list, table*: never two verticals on a side; one position outside
  a condor, and never left out of a list in use; a result booked once; entries only in
  their window, or by the tick that its end overtakes; everything closed after 15:45; a pending leg's promise about the
  book is true at every stage, also after failed writes and restarts.
- *risk manager*: nothing but a queued leg is opened while the day is past its limit.
- *roll*: at most one adjustment per condor, however it is cut short; what it is paid
  covers the width it leaves; none in a trend.
- *condor*: no side can lose more than its half of the budget, at any strikes the
  chain offered and through exits and rolls.
- *butterfly*: what is managed was filled; a bounded number of fills whatever the
  broker answers; sized by a VIX that was read.
- *candles and sweeps*: what is analysed is current or its refresh failed; a traded
  sweep is fresh by the market's clock, not by the bars it was found on; a held
  trend is not called a range.
- *opening-range engine*: a setup has its break, a runaway is never chased again,
  no position from 11:00 on but that of the tick 11:00 overtakes, every break read is
  latched.
- *exit engine*: no trade below its stop, no stop looser than the loss limit, a gain
  once locked stays locked across rewritten trails, rejected exits and restarts;
  the structure level is that of the highest close.
- *reconcile*: one owner per option symbol; a sweep or start that runs to its end takes
  the owner from nothing it has read; and a start that reads the whole account leaves no
  symbol there unmanaged.

PROJECT.json lists the hazards with the line each one bites at.

## 2. Modules

| Module | Models | State -> code |
| --- | --- | --- |
| `TradingDay` | the clock guards | eight slots between the times the guards compare with |
| `CondorPlan` | the plan's state machine | `plan` = `_plan`, `planDate` = `_plan_date` |
| `PositionBook` | table and list | `rows` = the table, `records` = `_open_records` |
| `DailyHalt` | the halt latch | `halted`, `mirror` (in-memory result at or past the limit) |
| `TradingLoop` | the stages of a tick over the four modules above, restart and recovery, the clock, failures | `pc` = stage of the tick; `tick` = what this tick has read (regime, chain, triggers); `todo`/`kept` = the loop variables of `manage_open_position`; `signal`, `roll` = locals that live across stages |
| `CondorStructure` | the abstract promise of a condor, with a roll in several steps (`TradingLoop`) or in one (`NeutralDay`) | what is open on each side, whether it was rolled |
| `OrbEngine`, `OrbProperties` | the engine and the ticks that drive it | `eng` = `ORBData` and latches, `candle` = the last closed candle, `pos` = what is open, `regime` = what the previous tick classified |
| `LongExit` | stops and trails of long options (ORB, sweep, adopted) | `stop` = `stop_premium` of the row, `mem` = the two trail dictionaries, `mark`/`best` = history |
| `StructureExit` | `BOSTracker` as `_evaluate_sweep` creates and feeds it | `tracker`; `seen`, `left` = history |
| `LiquidityMap` | pools, named levels and sweeps of two frames as operators on bars | pure |
| `RegimeRules` | the classifier's rules in their order, as an operator | pure |
| `SweepHunt` | a sweep reversal from the market's bars to the exit: cache, map, classifier, gates, entry, and `StructureExit` as its exit | `chart` = the market, `view` and `age` = the cache, `sweep` and `regime` = what this tick made of it |
| `OptionChain` | the chain of one tick | marks by side and strike; 0 is a strike without a quote |
| `MacroData` | the snapshot and its gates | `macro` = `_snapshot`, `fedDay` = the calendar |
| `CondorTrade` | strikes, sizes and exits of the condor and the solver of its roll, over `CondorPlan` and `OptionChain` | `rows` = the verticals with their prices, `listed` = those in `_open_records` |
| `ButterflyTrade` | strikes, debit, size, limit orders and exits of the butterfly | `signal`, `attempt` = locals of the entry, `orders` = what the broker accepted, `fly` = the row |
| `NeutralDay`, `NeutralProperties` | the tick that drives the last three, on paper and live, with a broker that refuses and fills late, and a restart | `pc` = the step of the tick |
| `BrokerSync` | live mode: broker, table and list; the ticks that enter and exit, both reconciles, exceptions | `acct` = contracts held of each option symbol, `order` = what was sent, `book` = rows, `list` = `_open_records`, `resting` = accepted, unfilled limit orders, `plan` = `_plan`, `todo`/`kept` = the loop variables of a pass |
| `TastySession` | the two getters and their lock | `stack` = the getters the thread is in |

`MC*` modules give the constants of the runs, `*Proofs` modules hold the theorems.

Correspondence that is not obvious:

- A tick of `TradingLoop` is a sequence of stages, one action per step that changes
  state, in the order of main.py: begin (or hard close), manage record by record,
  Leg 2 check, the three writes of a roll, the entry attempt. Between stages the
  process may be killed (`Crash`), an exception may abandon the tick (`TickAborted`)
  or the clock may move (`Advance`, in any stage). `late` says that it has moved since
  the tick began, so that `TickSlot` is the slot in which the tick asked for the time;
  one tick does not outlast a slot, the shortest of which is five minutes (9:30 to 9:35).
  `OrbEngine` does the same around 11:00: a tick updates the engine (`TickUpdates`) and
  enters later (`TickDispatches`). `Faults` says which failures a run allows:
  kills, failing table writes, rejected orders, missing chains.
- In `TradingLoop` signals, regimes, marks and triggers are chosen freely, so a
  property that holds there does so for any arithmetic of the strategies.
- `NeutralDay` and `SweepHunt` are the other way round: they follow one strategy with
  its arithmetic through the same tick, and leave to `TradingLoop` what they do not
  touch (directional trades, the halt, the night). `CondorPlan` and `TradingDay` are
  shared, so that both speak of the same plan and clock; `StructureExit` is the exit
  of `SweepHunt` and has a run of its own only for shorts.
- Prices and marks of `NeutralDay` are ticks of five cents; one contract's hundred
  shares cancel. The list is the rows in use, and `mark`/`known` of a row are
  `current_premium` in the table and in the record: they part at a write and meet at
  a reload.
- The hour between two macro fetches is one fetch in each interval of the day before
  14:00; nothing looks at the snapshot later.
- A candle in `OrbEngine` is four integers on a grid; the percentages of the code are
  the grid distances `Buffer` and `Tol`. Several ticks read the same candle. A tick
  whose data is missing is `cs = {}`.
- `LongExit` counts marks in ticks and levels in twentieths of a tick, so that each
  factor of the code (0.75, 0.80, 0.85, 1.20, 1.25, 1.50, 2.00) is exact; the
  underlying is measured from its price at entry in favour of the trade, so that a
  call and a put are one trade. Python's rounding of floats is not modelled.
- `BrokerSync` treats a row of `enter()` as having no symbols, which is what
  `_db_leg_symbols` finds in it. Orders may be for the same option symbols: a leg whose
  row is lost leaves the plan as it was and is sent again. A read of the broker is any
  part of the account, the empty one included, and says nothing of quantities, as
  `build_plan` compares none. One attempt to enter may send a leg and then a signal,
  whose record replaces the list. A pass replaces the list at its end, and an exception
  (`Raise`) leaves closed records in it. A sweep or a start can be cut short between
  any two of its writes: by an exception, after which the loop goes on with the old list,
  or by a kill.
- What `BrokerSync` simplifies: the broker takes a `SELL_TO_CLOSE` exactly when the
  account is long the symbol, and an exit then sells any number of contracts up to those
  held; rolls are left out (their first order closes a short with `SELL_TO_CLOSE`, is
  refused, and nothing follows); the account does not change between the read of a sweep
  and its writes; a start that raises counts as a kill; no row expires, since the model is
  one day; broker calls return (`TastySession` shows that the first one does not:
  `BrokerSync` is what the code does once that is out of the way).

## 3. Runs

Bounds of the loop: a model row is a trade of the day; four rows are a full condor, its
roll and one more position, which is what the properties of one structure's life need.
Two days are the least for whatever survives a night, one restart the least for whatever
a restart loses. The losses of `loop_day` are 1 and 2 against a limit of 2, so that
one or two of them are a breach and booking one twice with another amount shows.
`FewRegimes` keeps one regime of each effect on the loop (RANGING: condors, SWEEP:
others, UNKNOWN: hard gate); `loop_nights` does without the last. `loop_day` reaches about 960 000 states,
`loop_nights` 3.5 million, `broker_sync` 1.2 million, `orb_day` 630 000.

| Run | Question | Bounds |
| --- | --- | --- |
| `loop_day` | types; no closed row is booked twice; the halt holds across a restart; one roll per condor; the loop implements `CondorStructure` (without failing writes, under which a roll's flag can be lost and the refinement is false); liveness: from 15:45 on every open row is closed or the session ends | 4 rows, 1 day, 1 restart, missing chains |
| `loop_nights` | one position outside a condor, never lost from a list in use; one leg per side, plan and book agree; every opening in its window or by the tick a cutoff overtakes; the proofs' invariant | 3 rows that expire the next day, 2 days, 1 restart, failing writes, rejected orders, RANGING and SWEEP |
| `orb_day` | a setup has its break, hands off, every break read is latched, nothing opened from 11:00 but by the tick it overtakes | 10 candles, 3 a day, 2 days, 1 restart |
| `exit_trail` | floor, lock and ratchet | 12 marks at and around every threshold, 4 positions of the underlying, any subset of 3 gaps in every tick, 1 restart, 1 rejected exit; any number of trades |
| `sweep_trade` | candles are current or failed; a held trend is named; a traded sweep is fresh and reclaimed; a long leaves on the structure it recorded | 3 bars of yesterday, any 4 bars of today over a few candles, frames stale after a tick, windows of 6 and 3 bars, failing refreshes, restarts |
| `neutral_day` | a roll covers the tested width and comes in no trend; no side loses more than its budget; butterflies are filled once booked, bounded, calm | 10 strikes, 4 chains (high and low volatility, a strike without a quote, an empty chain), RANGING and TRENDING_BEAR, VIX low and normal, 3 rows and orders, 1 restart, paper and live |
| `broker_sync` | one owner per symbol; a signal's position is never pushed off a list in use; a complete sweep or start takes the owner from nothing it has read; a start that reads all manages all | 5 symbols: a condor, a long option and a butterfly at strikes the condor uses; 2 orders, 1 of them resting, 1 exception or fill without a row, 2 kills, any reads and broker closes |

The marks, candles and gaps are chosen at and on both sides of every threshold the
code compares with (comments in the `MC*` modules). The chains of `neutral_day` are
free of arbitrage (`NoArbitrage`, which `MCNeutralDay` has TLC check of each), which
`WithinBudget` needs; between two ticks the market may jump
from any to any other. Three rows and orders are a condor and its roll, or a leg and
both attempts of a butterfly.

Five runs end in a violation of a sentence of the repository the code does not keep;
PROJECT.json quotes both:

| Run | What happens |
| --- | --- |
| `loop_orphan` | a condor leg and another signal fill in one tick; the second replaces the list, the leg is unmanaged |
| `bos_short` | a short's tracker starts at the option's premium, is fed the underlying, and never gets a level |
| `hard_close_mark` | the forced close gets no chain and looks at the record, whose mark was only ever written to the table: a vertical priced all day is booked at its entry |
| `broker_close` | at the hard close nothing the process entered live is ever sold: a row `enter()` wrote has no symbol, a butterfly no legs, and a condor leg is sent as a sale of its short |
| `session_lock` | the first `get_account` waits for itself |

Every property of a passing run has a mutant of the code (`...Mutant` operators next
to what they change) that breaks it.

Deadlock is checked in the loop, exit and sweep runs. `OrbEngine`, `NeutralDay` and
`BrokerSync` count candles, orders and kills up to a bound, or their day, and really
end; `TastySession` really stops, which is its finding.

### Fairness

`TradingLoop!FairSpec` has weak fairness of the loop's own steps and of a start: the
loop polls for ever and systemd restarts the process (`Restart=always`). Neither the
clock, nor failures, nor the market is fair. An order is rejected at most as the run
allows (`loop_day` allows none: the code retries each tick and a broker that refuses
for a quarter of an hour defeats it). `BrokerSync!FairSpec` is the same for its
ticks and for a start. `TastySession` assumes that a call that can go
on does.

## 4. Proofs

TLAPS checks these for every value of the constants (any number of days, rows, kills,
candles, marks, orders), from the assumptions named in the modules only.

- `TradingLoopProofs` — `TypeCorrect`, `LegsAgree`, `NoDoubledSide`, `PlanAndBookAgree`.
  "One leg per side" is not inductive: the list may still hold records of closed
  rows, the plan may wait for a side, the roll works on a side it has just emptied. `LegInv` adds that a
  record in the list and any leg on its side are the same, that the plan's promise
  covers the list as well, and what each stage knows (`StageInv`: an entry is
  attempted with list and table empty; a roll about to open has an empty side).
  `IInv == TypeOK /\ LegInv` is inductive; one lemma per stage, and lemmas for "legs
  only shrink" and "one leg is added on a free side" carry the steps.
- `OrbProofs` — `TypeCorrect`, `SetupsHaveBreaks`, `RunawaysAreHandedOff`,
  `OrbIsForTheMorning`, `LatchesForgetNothing`. `EngineOK` adds to the properties that a range is known in
  every state that uses it and that what was handed off was not a close inside, the
  one reason that re-arms. `update` is a composition of functions on the engine's
  record; each has a lemma that it keeps `EngineOK`. `LatchInv`: until
  the first kill, what a session has read is latched once its reset ran, and an open
  session reads nothing before.
- `LongExitProofs` — `TypeCorrect`, `LossesAreFloored`, `GainsAreLocked`,
  `StopsRatchet`. The invariant adds that a trail is above the entry from
  the moment it exists, that an active trail exists, and that an adopted trade's
  row holds the engine's trail. `StopsRatchet` needs that a trail, once there, is never
  below the stop of the row (`Leads`): the row is written from it, in the same tick or,
  after a rejected exit, in a later one. Two falls are real and excepted: the tick that
  first arms the 50 % trail, and the first trail after a restart (section 5).
- `BrokerSyncProofs` — `TypeCorrect`, `OneManager`, `SignalsAreManaged`, `NoLegOrphaned`,
  `StartManagesAll`, for any number of symbols, orders, exceptions and kills. `Staged` says
  what a pass and an entry find: an entry is attempted with no signal's row open, and a
  pass still has the position before it or has kept it, also when the list holds closed
  records. `LegIsApart` says that a pending Leg 2 shares no symbol with an open row, for Leg 1's
  symbols, adopted or not, are not those of the other side, and a signal's row has none;
  Leg 1 is sent with nothing open. A leg whose row was lost has no row to meet when it is
  sent again. `FreshIsUnused` says that no row belongs to an
  order not sent. All the ways in which a sweep or a start may write, complete or cut
  short, are one lemma (`Rewritten`): they close open rows and adopt symbols that no other
  row has. `NoLegOrphaned` follows from one owner per symbol (`ReadKeepsOwners`): a row
  that is closed had none of its symbols in the read, or only a long that is adopted with it.
- `TradingBookProofs` — `OnePosition`, `PositionStaysListed`, `RolledOnlyOnce`, on top of
  `IInv`. `SingleInv` says where the list stands in the middle of a tick: a pass over it
  still has the position before it or has kept it, and the entry engine starts without
  one. `RollInv` explains the single roll: all legs that are open or listed belong to
  one condor; once a condor was rolled at most one of them lacks the broken-wing flag,
  and a roll wants two; a row not yet used names nothing.
- `TradingStepProofs` — `EntriesInHours`; and, assuming that the table can always be
  read and written (`"db" \notin Faults`), `BookedOnlyOnce`, `HaltIsKept` and
  `LoopImplementsCondor`. The
  window is not that of a guard alone: `check_leg_triggers` looks only at 14:00, a
  plan can survive the night, and the clock moves after it was asked. `StageHours` says
  in which `TickSlot` each stage can be, which is what remains true when the clock moves.
  `BookHours` says that every tick after 14:00 with a
  position drops a pending Leg 2, so that a plan still waiting past that tick has
  nothing open or listed, and could fire only through the entry attempt, which is
  guarded. `BookedInv` says that a pass starts over open rows, which only a
  failed write breaks. `HaltInv` says that the answer of `is_halted` still holds in every stage it has
  admitted, up to the order: nothing is booked in between.
  `LoopImplementsCondor` is the refinement: every write of the loop to the legs is one
  step of `CondorStructure`, whatever is killed, restarted, rejected or missing, and
  everything else stutters. It stands on `IInv`, `RollInv` and `BookedInv`; `RollStage`
  adds what a roll knows between its writes (the tested vertical is open and not final,
  opposite the one bought back, and after the second write of a rolled condor). Failing
  writes are excluded because the statement is false under them: a pass that aborts after
  `log_exit` leaves a closed record in the list, which can be rolled, and a roll can end
  without its flag.
- `SweepHuntProofs` — `TypeCorrect`, `CandlesFollowMarket`, `StrongTrendsAreNamed`,
  `EntriesAreReclaimed`, `TradedSweepsAreFresh`, and, through `StructureExit`,
  `LongsAreProtected`, `LongsLeaveOnClose` and `ShortsNeverBreak`. The last is the finding
  of `bos_short` for every market: the tracker of a short stays as it was created, since
  no close is below the premium it starts from. The invariant has four parts: how far the
  cached candles lag behind the chart, what the tick sees, what a sweep is, and the
  trade (the peak is the highest close read, the level the low of a candle that closed
  there). Scans over bars go through the least index of a set of naturals, from
  `WellFoundedInduction`, in place of an induction.
- `NeutralProofs` — `TypeCorrect`, `RollsAreRiskFree`, `RollsStayInRange`,
  `OneCondorAtATime`, `DayImplementsCondor`, `SidesStayWithinBudget`,
  `CondorsStayWithinRisk`, `FliesAreFilled`, `FliesAreBounded`, `FliesAreCalm`. `Covers` is the solver's contract
  stated over the rows, and every other action is shown to leave the credits and the
  booked close of a rolled condor alone. `Unthreatened` is why no roll comes in a trend:
  after the managing pass nothing listed is on the threatened side, and a leg is only
  sold in a range. The butterfly needs that each process sends at most two orders
  (`CountOK` counts them against the kills) and that size and VIX travel unchanged from
  the signal to the second order (`SizedBy`).
  `OneCondorAtATime` says that the rows form one structure after another (`Shape`):
  neither side is entered twice, one roll at most, and a new structure only when the last
  is flat. It needs that a plan waiting for its second leg has the first one open
  and alone (`PlanShape`). `DayImplementsCondor` (`KeepsStructure`) is the second
  refinement of `CondorStructure`, without hypotheses, live and paper: here a roll is one
  step, so it maps to `Adjust`, which is `CloseLegs`, `Roll` and `MakeFinal` at once. The
  open row of each side of the current structure is what `Shape` says it is (`FormIn`),
  and each action changes it by one step: the pass over the positions closes, a leg opens
  on a flat side, a roll turns two legs into wings. `SidesStayWithinBudget` builds on it: a side has one row, or
  one and the row that replaced it, so that its result is one or two terms. `Solvent` says
  that nothing is marked or booked above the width of its vertical, that a leg's width
  less its credit is within the leg's budget at its lots, and that the row of a roll was sold for at
  least what buying the old one back cost: the strikes of a roll have the old width and
  are nearer the money, and there a vertical is worth more. That, and that no
  vertical is worth more than its width, is `NoArbitrage`, the one assumption
  (`FairChains`); without it a stop can be booked above the most a vertical can lose.
  `CondorsStayWithinRisk` (`CondorWithinRisk`) adds up the two sides of one condor.
  Both are for paper: live, the mark of a leg can be that of its short alone
  (section 5).

`KeepsStructure`, `CondorWithinRisk`, `Shape` and the statement of `ShortsNeverBreak` belong
to no run. On the constants of `neutral_day` TLC finds the first two true.

Only model-checked: liveness (`HardCloseFlattens`). Liveness, ENABLED, recursive
operators and induction over data are out of the prover's reach; no module with a theorem
uses a recursive operator. The sum of `WithinBudget` is one of the community modules'
folds: the proof evaluates it on a set of one row and of two.

## 5. Where the code and its documents part

Besides the five runs above, the models show behaviours that the documents exclude.
They are part of the models, and they have no run of their own. The properties of the
passing runs except them where they touch one, and leave to neither side what two
documents contradict each other about.

- *Cutoffs.* A row can be opened after 14:00, an ORB position after 11:00 and a rolled vertical after 15:45 by the tick that was
  under way: the time is asked before chains are fetched and orders sent (main.py:436,
  main.py:468, main.py:704), and not again. `EntryWindow` and `MorningOnly` say that
  this tick is the last one.

- A plan left by yesterday can fire from 9:35 on: its reset runs only in `decide()`,
  and `check_leg_triggers` looks at the 14:00 cutoff alone (README.md:147 has condors
  from 11:00). `EntryWindow` therefore says 9:35.
- With the regime UNKNOWN, the halt set or the gate closed, `attempt_new_entry` returns
  before `check_leg_triggers`: a flip away from RANGING in such a tick does not cancel
  the pending leg (iron_condor_strategy.py:26).
- The Leg 2 check never asks `is_halted` (README.md:136); `HaltHolds` excepts it.
- A restart re-derives the halt from the current net result: a day that was halted and
  recovered by its winners trades again (README.md:137). After a restart a failing
  read of the table counts as no loss (risk_manager.py:286).
- The candle that breaks out may be its own retest (README.md:39); a retrace re-arms
  in a trend regime (README.md:43); the engine, given the previous tick's regime, can
  stay open without a position through sweep ticks (orb_engine.py:382); a restart
  forgets the latches (orb_engine.py:15). `LatchesComplete` excepts the restart.
- The first activation of the 50% trail overwrites a higher trail (exit_engine.py:522);
  a restart lets an adopted trade's stop fall (exit_engine.py:823); a gap from before
  the entry becomes a floor above the mark and closes the trade (exit_engine.py:520).
- *Reconcile.* A start closes the row of a live single leg as a phantom and adopts the leg
  with a new plan (broker_reconcile.py:13). `build_plan` compares symbols and no
  quantities: a condor leg whose row was lost is sent again at the same strikes, one row
  then stands for two fills, and half of the contracts stay unmanaged also after a start.
  A sweep that raises after `close_phantom` and before `log_entry`
  (main.py:910) leaves the surviving long without a row, with the process up, until the
  next start. A read that skips a position it cannot parse (tasty_client.py:154) counts the
  position as gone: its row is closed, or its surviving leg is adopted, and nobody owns it
  until a start reads it. `OwnersRemain` and `StartTakesAll` are stated for what was read
  and for symbols.
- *List.* A condor leg and a signal of one tick leave an open row outside a list in use
  (`loop_orphan`); an exception after `log_exit` (position_manager.py:322) leaves a closed
  record in it, which the next tick exits and books again. `PositionIsListed` and
  `SingleTracked` speak of positions that are not condor legs, `BookedOnce` of a table that
  can be written.
- *Sweeps.* `_detect_sweeps` scans from the oldest bar and marks a level swept at its
  first confirmed sweep: a later sweep of the same level is not seen, although the
  choice that follows is "selected by ACTUAL TIME" (liquidity_mapper.py:154).
  Ties between a named level and an equal high can leave the recent sweep unnamed.
  Minutes ago are counted in bars, so yesterday's last bars are minutes ago at the
  open. PDH and PDL are taken from whatever part of yesterday the frame still holds. With
  the 15-minute frame missing the 5-minute one is analysed under its label, and its
  sweeps count as three times as old (liquidity_mapper.py:128).
- `_confirm_bos` accepts a break that "already CLOSED on the just-closed candle"
  (sweep_reversal_strategy.py:357), which cannot be: that candle's high is in the
  reference it must exceed. `EntriesAreReclaimed` is proved without the branch mattering.
  The strategy's own limit on a sweep's age cannot fail after the classifier's.
  One sweep may be traded again after its trade is closed.
- A frame whose refresh fails is served however old it is, which "Respects staleness
  limits" (data_cache.py:3) does not say; `CandlesAreCurrent` excepts that tick.
- *Roll.* The contract of condor_roll.py:9 holds per share (`RollsAreRiskFree`). In
  dollars it does not: the rolled vertical takes the untested side's contracts, and
  the tested side may have more. It also rests on chain marks at the tick of the roll. When
  a stop was missed the rolled short can pass the tested one and the wings cross.
  A live roll sends no opening order for its vertical, although
  "live order placement mirrors _execute_condor_leg" (condor_roll.py:203).
- *Condor.* The live mark of a leg, when the chain has none, is that of its short option
  alone (position_manager.py:272), which is more than the spread: a stop can fire on it.
- *Butterfly.* A limit order that fills while it is being cancelled is sent again and
  both are held; one is booked (`FliesAreBounded` is two per process, not one). The
  second attempt is at mid plus a tick against "Never pay worse than mid"
  (entry_engine.py:10). Wings at the nearest listed strike may be unequal, and then the
  loss at expiry can exceed the debit, on which the size rests. "Hard exit: 2:00 PM ET"
  (butterfly_strategy.py:19) is 15:45 in the exit engine, and the target is 25 % in
  exit_engine.py:72, 20 % in butterfly_strategy.py:17 and in the code.
- *Fed days.* butterfly_strategy.py:123, main.py:500 and README.md:152 trade them,
  macro_data.py:91 disables the butterfly on them, and so does the code; but a calendar
  that cannot be read counts as no Fed day, and clears what an earlier read of the day had
  found. The documents contradict each other, so no property speaks of Fed days:
  `FlyIsCalm` is about the VIX and the risk of the order.

## 6. Not modelled

- Arithmetic without state: indicators, conviction, the scorer's weighted sum, GEX and
  its pin, the confluence, delta and strike of the sweep strategy, the ORB strategy's
  strike selection, the size of a long option. Each is an input, chosen freely.
- `structure_analyzer.py`: swings, order blocks and levels. What the decisions read of it
  is the view of a tick in `SweepHunt` and the gaps in `LongExit`.
- The broker's side of a live roll: `NeutralDay` has the roll as it is booked,
  `BrokerSync` has none.
- The background event loop and the SDK of the session; the network reads.
- Rounding of floats. Prices are whole ticks wherever the code compares them.
- `iron_condor_strategy.py` names `OptionContract` and `OptionsChain` in annotations
  it does not import; up to Python 3.13 that is a NameError at import. The models
  assume that the module loads.
- Notifications, reports (query.py, status.py, weekly reports), the data collector,
  deployment scripts: nothing the bot decides depends on them.

## 7. Plan

Done: the loop, its plan, table, halt and clock (`TradingLoop` and the modules under it),
the opening range, the long options' exits, the sweep reversal from candles to exit, the
condor and the butterfly with their money, the broker reconcile, the session lock; two
refinements of `CondorStructure`, both proved, the loop's also checked by a run; every safety property of a passing run proved; eight proof
modules.

Left, in this order:

1. `NeutralDay` over the account of `BrokerSync`, to state what a live roll and a doubled
   butterfly leave at the broker after the next reconcile.
2. GEX and the scorer as pure operators against a reference, if a decision is found
   that depends on more than their sign.
