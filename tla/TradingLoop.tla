---------------------------- MODULE TradingLoop -----------------------------
(***************************************************************************)
(* The polling loop of main.py over the plan, the position book and the    *)
(* daily halt.  The process is single-threaded; one tick is a sequence of  *)
(* stages, each at most one write to the trades table.  Between two stages *)
(* the process can be killed, systemd starts it again, and the clock may   *)
(* pass a boundary: it is asked before an order and not again.             *)
(*                                                                         *)
(* Market data, pricing, scoring and sizing are abstracted to what they    *)
(* decide: the regime, the sides whose trigger level is reached, whether   *)
(* a chain was fetched, and a free choice wherever a price test, a score,  *)
(* a size or a live order can go either way.                               *)
(***************************************************************************)
EXTENDS CondorPlan, DailyHalt

CONSTANTS
  MaxDay,      \* bound on the trading days
  MaxCrashes,  \* bound on the kills of the process
  Tenors,      \* days to expiry a contract may have
  Regimes      \* the classifications the market goes through

ASSUME LoopAssumption ==
  /\ MaxDay \in Nat \ {0} /\ MaxCrashes \in Nat
  /\ Tenors \subseteq Nat
  /\ Regimes \subseteq AllRegimes

VARIABLES
  day, slot,      \* the wall clock
  ticked,         \* a tick has completed in this slot
  up,             \* the process is running
  sessionReset,   \* BotState.session_reset_done
  flyDay,         \* the day of ButterflyStrategy._fired_today; 0: not fired
  pc,             \* stage of the tick
  late,           \* the clock has passed a boundary since this tick began
  tick,           \* what this tick read from the market
  todo, kept,     \* manage_open_position / flatten_all: the loop's progress
  signal,         \* the scored signal on its way to the entry engine
  roll,           \* the verticals a broken-wing roll is working on
  crashes

clockVars == <<day, slot, ticked>>
procVars  == <<up, sessionReset, flyDay, crashes>>
tickVars  == <<pc, late, tick, todo, kept, signal, roll>>
vars == <<planVars, bookVars, haltVars, clockVars, procVars, tickVars>>

Stages == {"idle", "flatten", "manage", "leg", "legOrder", "roll", "rollOpen", "rollFlag",
           "entry", "hunt", "huntOrder", "enter"}

\* The slot in which this tick began.
TickSlot == IF late THEN slot - 1 ELSE slot

Tick   == [regime : AllRegimes, chain : BOOLEAN, trig : SUBSET Sides]
NoTick == [regime |-> "UNKNOWN", chain |-> FALSE, trig |-> {}]
NoRoll == [from |-> 0, tested |-> 0]

IdleTick == /\ pc = "idle" /\ late = FALSE /\ tick = NoTick /\ todo = {} /\ kept = {}
            /\ signal = "none" /\ roll = NoRoll

Init ==
  /\ PlanInit /\ BookInit /\ HaltInit /\ IdleTick
  /\ day = 1 /\ slot = PreOpen /\ ticked = FALSE
  /\ up = TRUE /\ sessionReset = FALSE /\ flyDay = 0 /\ crashes = 0

\* The end of a tick: the stage variables are locals of the loop body.
Reset ==
  /\ pc' = "idle" /\ late' = FALSE /\ tick' = NoTick /\ todo' = {} /\ kept' = {}
  /\ signal' = "none" /\ roll' = NoRoll

EndTick == Reset /\ ticked' = ~late /\ UNCHANGED <<day, slot>>

GoTo(stage) == pc' = stage /\ UNCHANGED <<late, clockVars>>

-----------------------------------------------------------------------------
(* The head of the loop body.                                              *)

\* Outside trading hours the loop only clears the session flag.
ClosedTick ==
  /\ up /\ pc = "idle" /\ ~IsRth(slot)
  /\ sessionReset' = FALSE
  /\ EndTick
  /\ UNCHANGED <<planVars, bookVars, haltVars, up, flyDay, crashes>>

\* handle_session_reset and has_open_position, common to both kinds of tick.
OpenTick ==
  /\ up /\ pc = "idle" /\ IsRth(slot)
  /\ sessionReset' = TRUE
  /\ IF sessionReset THEN UNCHANGED haltVars ELSE ResetSession(day)
  /\ records' = Reloaded
  /\ todo' = Reloaded
  /\ UNCHANGED <<rows, planDate, up, flyDay, crashes, kept, signal, roll>>

\* 15:45 to 16:00: handle_hard_close, and nothing else.
BeginHardClose ==
  /\ IsHardCloseTime(slot)
  /\ OpenTick
  /\ GoTo("flatten")
  /\ UNCHANGED <<plan, tick>>

\* run_analysis, the classification and the chain fetch, then the dispatch.
BeginTick ==
  /\ ~IsHardCloseTime(slot)
  /\ OpenTick
  /\ \E regime \in Regimes,
        trig \in IF HasActivePlan THEN SUBSET Sides ELSE {{}},  \* else not read
        chain \in IF "chain" \in Faults THEN BOOLEAN ELSE {TRUE} :
       /\ tick' = [regime |-> regime, chain |-> chain, trig |-> trig]
  /\ UNCHANGED plan
  /\ GoTo(IF Reloaded = {} THEN "entry" ELSE "manage")

-----------------------------------------------------------------------------
(* handle_hard_close -> PositionManager.flatten_all                        *)

FlattenOne(r, p) ==
  /\ pc = "flatten" /\ r \in todo
  /\ LogExit(r, p)
  /\ RecordResult(p, day)
  /\ RemoveRecord(r)
  /\ todo' = todo \ {r}
  /\ GoTo("flatten")
  /\ UNCHANGED <<planVars, procVars, tick, kept, signal, roll>>

\* A live order that fails: the record stays, the next tick tries again.
FlattenFailed(r) ==
  /\ pc = "flatten" /\ r \in todo /\ "order" \in Faults
  /\ todo' = todo \ {r}
  /\ GoTo("flatten")
  /\ UNCHANGED <<planVars, bookVars, haltVars, procVars, tick, kept, signal, roll>>

FlattenDone ==
  /\ pc = "flatten" /\ todo = {}
  /\ EndTick
  /\ UNCHANGED <<planVars, bookVars, haltVars, procVars>>

-----------------------------------------------------------------------------
(* PositionManager.manage_open_position                                    *)

\* No exit is due, no premium could be fetched, or the exit order failed.
ManageKeep(r) ==
  /\ pc = "manage" /\ r \in todo
  /\ todo' = todo \ {r}
  /\ kept' = kept \cup {r}
  /\ GoTo("manage")
  /\ UNCHANGED <<planVars, bookVars, haltVars, procVars, tick, signal, roll>>

ManageExit(r, p) ==
  /\ pc = "manage" /\ r \in todo
  /\ LogExit(r, p)
  /\ RecordResult(p, day)
  /\ todo' = todo \ {r}
  /\ GoTo("manage")
  /\ UNCHANGED <<planVars, records, procVars, tick, kept, signal, roll>>

\* (mutant) The pass forgets to drop what it closed.
ManageDoneMutant ==
  /\ pc = "manage" /\ todo = {}
  /\ kept' = {}
  /\ GoTo("leg")
  /\ UNCHANGED <<planVars, bookVars, haltVars, procVars, tick, todo, signal, roll>>

\* Only now does the list lose what was closed.
ManageDone ==
  /\ pc = "manage" /\ todo = {}
  /\ records' = kept
  /\ kept' = {}
  /\ GoTo("leg")
  /\ UNCHANGED <<planVars, rows, haltVars, procVars, tick, todo, signal, roll>>

-----------------------------------------------------------------------------
(* _execute_condor_leg, for the row i.  The row's expiry is the contract's. *)

LegRow(i, e) ==
  OpenRow(IF plan.state = "DECIDED" THEN "leg1" ELSE "leg2", PendingSide, FALSE,
          IF plan.state = "DECIDED" THEN i ELSE plan.condor, day, day + e)

ExecuteLeg(i) ==
  /\ \E e \in Tenors : LogEntry(i, LegRow(i, e))
  /\ AddCondorLeg(i)
  /\ NotifyLegFilled(i)

(* The Leg 2 check of the loop, while a position is (or just was) open.    *)
Leg2Pending == plan.state = "LEG1_FILLED"

LegDropped ==
  /\ pc = "leg" /\ Leg2Pending /\ PendingLegDropped(tick.regime, slot)
  /\ DropPendingLeg
  /\ GoTo("roll")
  /\ UNCHANGED <<bookVars, haltVars, procVars, tick, todo, kept, signal, roll>>

\* The trigger is reached and the leg is worth its order.
LegDue ==
  /\ pc = "leg" /\ Leg2Pending /\ tick.chain
  /\ LegTriggered(tick.regime, slot, tick.trig)
  /\ GoTo("legOrder")
  /\ UNCHANGED <<planVars, bookVars, haltVars, procVars, tick, todo, kept, signal, roll>>

LegFires(i) ==
  /\ pc = "legOrder"
  /\ ExecuteLeg(i)
  /\ GoTo("roll")
  /\ UNCHANGED <<haltVars, procVars, tick, todo, kept, signal, roll>>

LegRejected ==
  /\ pc = "legOrder"
  /\ GoTo("roll")
  /\ UNCHANGED <<planVars, bookVars, haltVars, procVars, tick, todo, kept, signal, roll>>

\* Nothing pending, no trigger, no credit or no size.
\* With a trigger but no chain the handler raises instead: see TickAborted.
LegWaits ==
  /\ pc = "leg"
  /\ Leg2Pending => /\ ~PendingLegDropped(tick.regime, slot)
                    /\ tick.chain \/ PendingSide \notin tick.trig
  /\ GoTo("roll")
  /\ UNCHANGED <<planVars, bookVars, haltVars, procVars, tick, todo, kept, signal, roll>>

-----------------------------------------------------------------------------
(* check_and_execute_roll                                                  *)

\* (mutant) The final-form guard is missing.
CanRollMutant(tested, from) ==
  /\ tick.chain
  /\ LegRecords = {tested, from}
  /\ rows[tested].side = Other(rows[from].side)
  /\ \E i \in Id : NextFree(i)

\* The guards: exactly two vertical records, neither in final form, one on
\* each side.  Whether price tests a side and the roll pays for it is free.
CanRoll(tested, from) ==
  /\ tick.chain
  /\ LegRecords = {tested, from}
  /\ rows[tested].side = Other(rows[from].side)
  /\ ~rows[tested].wing /\ ~rows[from].wing
  /\ \E i \in Id : NextFree(i)                      \* bound on the rows

\* Step 1: buy the untested vertical back.  No record_loss here.
RollClose(tested, from, p) ==
  /\ pc = "roll" /\ CanRoll(tested, from)
  /\ LogExit(from, p)
  /\ RemoveRecord(from)
  /\ roll' = [from |-> from, tested |-> tested]
  /\ GoTo("rollOpen")
  /\ UNCHANGED <<planVars, haltVars, procVars, tick, todo, kept, signal>>

\* (mutant) The rolled vertical is not marked final.
RollOpenMutant(i) ==
  /\ pc = "rollOpen"
  /\ LogEntry(i, OpenRow("roll", rows[roll.from].side, FALSE,
                         rows[roll.from].condor, day, 0))
  /\ AddCondorLeg(i)
  /\ GoTo("rollFlag")
  /\ UNCHANGED <<planVars, haltVars, procVars, tick, todo, kept, signal, roll>>

\* Step 2: the rolled vertical; its record has no expiry.
RollOpen(i) ==
  /\ pc = "rollOpen"
  /\ LogEntry(i, OpenRow("roll", rows[roll.from].side, TRUE,
                         rows[roll.from].condor, day, 0))
  /\ AddCondorLeg(i)
  /\ GoTo("rollFlag")
  /\ UNCHANGED <<planVars, haltVars, procVars, tick, todo, kept, signal, roll>>

\* Step 3: the tested vertical becomes final as well.
RollFlag ==
  /\ pc = "rollFlag"
  /\ FlagBrokenWing(roll.tested)
  /\ Heartbeat(day)
  /\ EndTick
  /\ UNCHANGED <<planVars, records, procVars>>

\* No risk-free roll; or the exception handler around the roll, which ends it
\* at whatever step it had reached.
RollEnds ==
  /\ \/ pc = "roll"
     \/ pc \in {"rollOpen", "rollFlag"} /\ "db" \in Faults
  /\ Heartbeat(day)
  /\ EndTick
  /\ UNCHANGED <<planVars, bookVars, procVars>>

-----------------------------------------------------------------------------
(* attempt_new_entry, reached only with no open position.                  *)

\* The halt and the session gate; a VIX crisis or a missing chain refuse too.
EntryRefused ==
  /\ pc = "entry"
  /\ IsHalted(rows, day)
  /\ EndTick
  /\ UNCHANGED <<planVars, bookVars, procVars>>

\* The gates let the attempt pass; nothing below asks them again.
EntryAllowed ==
  /\ pc = "entry"
  /\ IsHalted(rows, day) /\ ~halted'
  /\ CanEnter(slot)
  /\ tick.regime # "UNKNOWN"
  /\ GoTo("hunt")
  /\ UNCHANGED <<planVars, bookVars, procVars, tick, todo, kept, signal, roll>>

\* Priorities 1 to 3: which signals a regime and a time of day can produce.
SignalPossible(s) ==
  \/ s = "none"
  \/ /\ s = "dir"
     /\ \/ tick.regime = "SWEEP"
        \/ TickSlot < Midday   \* 11:00 was asked by the engine's update
  \/ /\ s = "fly"
     /\ tick.regime \in {"RANGING", "COMPRESSION"}
     /\ slot = Noon
     /\ flyDay # day

\* What the attempt does next with the signal in hand.
Proceed(s) ==
  IF s = "none"
  THEN EndTick
  ELSE /\ signal' = s
       /\ GoTo("enter")
       /\ UNCHANGED <<tick, todo, kept, roll>>

\* The butterfly is spent when its signal is made, whatever becomes of it.
TakeSignal(s) ==
  /\ pc = "hunt" /\ SignalPossible(s)
  /\ flyDay' = IF s = "fly" THEN day ELSE flyDay
  /\ UNCHANGED <<bookVars, haltVars, up, sessionReset, crashes>>

\* Priority 4 without an active plan: decide() if nothing else fired.
EntryDecides(s, side) ==
  /\ TakeSignal(s) /\ Proceed(s)
  /\ ~HasActivePlan
  /\ IF s = "none" /\ tick.regime = "RANGING"
     THEN Decide(tick.regime, slot, day, side)
     ELSE UNCHANGED planVars

\* Priority 4 with an active plan: check_leg_triggers, whatever the signal.
EntryDropsLeg(s) ==
  /\ TakeSignal(s) /\ Proceed(s)
  /\ HasActivePlan /\ PendingLegDropped(tick.regime, slot)
  /\ DropPendingLeg

EntryLegDue(s) ==
  /\ TakeSignal(s)
  /\ HasActivePlan /\ LegTriggered(tick.regime, slot, tick.trig)
  /\ signal' = s
  /\ GoTo("huntOrder")
  /\ UNCHANGED <<planVars, tick, todo, kept, roll>>

EntryLegWaits(s) ==
  /\ TakeSignal(s) /\ Proceed(s)
  /\ HasActivePlan /\ ~PendingLegDropped(tick.regime, slot)
  /\ UNCHANGED planVars

EntryFiresLeg(i) ==
  /\ pc = "huntOrder"
  /\ ExecuteLeg(i)
  /\ Proceed(signal)
  /\ UNCHANGED <<haltVars, procVars>>

EntryLegRejected ==
  /\ pc = "huntOrder"
  /\ Proceed(signal)
  /\ UNCHANGED <<planVars, bookVars, haltVars, procVars>>

\* Score, size and the entry engine, for the signal.
EntryFilled(i) ==
  /\ pc = "enter"
  /\ \E e \in Tenors : LogEntry(i, OpenRow(signal, "none", FALSE, 0, day, day + e))
  /\ SetOpenPosition(i)
  /\ EndTick
  /\ UNCHANGED <<planVars, haltVars, procVars>>

EntryRejected ==
  /\ pc = "enter"
  /\ EndTick
  /\ UNCHANGED <<planVars, bookVars, haltVars, procVars>>

-----------------------------------------------------------------------------
(* Failures, restarts and time.                                            *)

\* An exception in the loop body: the rest of the tick is lost.  A missing
\* chain raises when Leg 2 is triggered; a locked database can raise at every
\* stage that uses it.
TickAborted ==
  /\ \/ /\ "db" \in Faults
        /\ pc \in {"flatten", "manage", "leg", "legOrder", "entry", "huntOrder", "enter"}
     \/ /\ pc = "leg" /\ Leg2Pending /\ ~tick.chain
        /\ LegTriggered(tick.regime, slot, tick.trig)
  /\ Reset
  /\ UNCHANGED <<planVars, bookVars, haltVars, procVars, clockVars>>

Crash ==
  /\ "crash" \in Faults /\ up /\ crashes < MaxCrashes
  /\ crashes' = crashes + 1
  /\ up' = FALSE /\ sessionReset' = FALSE /\ flyDay' = 0
  /\ halted' = FALSE /\ mirror' = FALSE /\ records' = {}
  /\ plan' = NoPlan /\ planDate' = 0
  /\ Reset
  /\ UNCHANGED <<rows, clockVars>>

\* _recover_open_position, before the loop starts.
Start ==
  /\ ~up
  /\ up' = TRUE
  /\ RecoverOpenPosition(day)
  /\ Reset
  /\ UNCHANGED <<planVars, haltVars, clockVars, sessionReset, flyDay, crashes>>

\* Time passes, between ticks or within one.  A slot is many ticks long, so a
\* running process has completed one in it: begun in it and ended in it.
Advance ==
  /\ ticked \/ ~up
  /\ \/ slot < AfterHours /\ slot' = slot + 1 /\ UNCHANGED day
     \/ slot = AfterHours /\ day < MaxDay /\ slot' = PreOpen /\ day' = day + 1
  /\ ticked' = FALSE /\ late' = (pc # "idle")
  /\ UNCHANGED <<planVars, bookVars, haltVars, procVars, pc, tick, todo, kept, signal, roll>>

-----------------------------------------------------------------------------
TickHead == ClosedTick \/ BeginHardClose \/ BeginTick

FlattenStep == \/ \E r \in todo, p \in Pnls : FlattenOne(r, p)
               \/ FlattenDone

ManageStep == \/ \E r \in todo : ManageKeep(r) \/ \E p \in Pnls : ManageExit(r, p)
              \/ ManageDone

LegStep == LegDropped \/ LegDue \/ LegWaits \/ LegRejected \/ \E i \in Id : LegFires(i)

RollStep == \/ \E t, f \in records, p \in Pnls : RollClose(t, f, p)
            \/ \E i \in Id : RollOpen(i)
            \/ RollFlag
            \/ RollEnds

Signals == {"none", "dir", "fly"}

EntryStep ==
  \/ EntryRefused
  \/ EntryAllowed
  \/ \E s \in Signals :
       \/ \E side \in Sides \cup {"none"} : EntryDecides(s, side)
       \/ EntryDropsLeg(s)
       \/ EntryLegDue(s)
       \/ EntryLegWaits(s)
  \/ EntryLegRejected
  \/ EntryRejected
  \/ \E i \in Id : EntryFiresLeg(i) \/ EntryFilled(i)

LoopStep == TickHead \/ FlattenStep \/ ManageStep \/ LegStep \/ RollStep \/ EntryStep

FaultStep == TickAborted \/ Crash \/ \E r \in todo : FlattenFailed(r)

Next == LoopStep \/ FaultStep \/ Start \/ Advance

Spec == Init /\ [][Next]_vars

\* The loop runs on its own and systemd restarts it; time and failures are
\* left to themselves.
FairSpec == Spec /\ WF_vars(LoopStep) /\ WF_vars(Start)

-----------------------------------------------------------------------------
TypeOK ==
  /\ plan \in PlanType(Id) /\ planDate \in Nat
  /\ rows \in [Id -> Row] /\ records \subseteq Id
  /\ halted \in BOOLEAN /\ mirror \in BOOLEAN
  /\ day \in 1..MaxDay /\ slot \in Slots /\ ticked \in BOOLEAN
  /\ up \in BOOLEAN /\ sessionReset \in BOOLEAN
  /\ flyDay \in Nat /\ crashes \in 0..MaxCrashes
  /\ pc \in Stages /\ late \in BOOLEAN /\ tick \in Tick
  /\ todo \subseteq Id /\ kept \subseteq Id
  /\ signal \in {"none", "dir", "fly"}
  /\ roll \in [from : Id \cup {0}, tested : Id \cup {0}]

-----------------------------------------------------------------------------
(* Safety.                                                                 *)

\* The condor is the only structure that may hold two positions at once, and
\* never two on one side: not through a restart, a stale plan, a failed write
\* or a roll (get_open_trades; the README's tracked-legs rule).
OneLegPerSide ==
  \A i, j \in OpenLegs : rows[i].side = rows[j].side => i = j

\* Every other strategy is single-position (set_open_position).
SinglePosition ==
  \A i, j \in Id :
    (\A k \in {i, j} : rows[k].st = "open" /\ rows[k].kind \notin LegKinds) => i = j

\* A position that is not a condor leg is never lost from the active list
\* while the list is in use: has_open_position reloads only an empty list, so
\* a row missing from a non-empty one would go unmanaged.
SingleTracked ==
  up /\ records # {} => OpenRows \ OpenLegs \subseteq records

\* What a pending leg promises about the book: a decided plan has no leg open,
\* a plan waiting for Leg 2 has none on the side it waits for.
PlanMatchesBook ==
  /\ plan.state = "DECIDED" => OpenLegs = {}
  /\ plan.state = "LEG1_FILLED" => \A i \in OpenLegs : rows[i].side = plan.leg1

\* The roll is the final adjustment: one condor is rolled at most once, also
\* when the roll is cut short and the rest is recovered after a restart
\* (condor_roll.py, HARD CONTRACT).
RolledOnce ==
  \A i, j \in Id : /\ rows[i].kind = "roll" /\ rows[j].kind = "roll"
                   /\ rows[i].condor = rows[j].condor
                   => i = j

\* A row opened by this step.
Opened(i) == rows[i].st = "none" /\ rows'[i].st = "open"

\* While the day's booked result is down by the limit, nothing is opened but
\* a queued Leg 2 and a roll (attempt_new_entry's first gate; restarts
\* re-derive it from the table, as long as the table can be read).
HaltHolds ==
  [][\A i \in Id : Opened(i) /\ RealizedPnl(rows, day) <= -Limit
                   => rows'[i].kind \in {"leg2", "roll"}]_vars

\* Nothing is entered before 9:35 or by a tick that began after 14:00, and
\* nothing is rolled by one that began after 15:45: the tick that a cutoff
\* overtakes is the last one, also for a plan that survived the night and for a
\* position carried over it (SessionGuard.can_enter; Leg 2 does not ask it).
EntryWindow ==
  [][\A i \in Id : Opened(i) =>
        IF rows'[i].kind = "roll" THEN TickSlot < Closing
                                  ELSE Morning <= slot /\ TickSlot <= Noon]_vars

\* The result of a closed row is booked once (log_exit does not look at the
\* status of the row it updates).
BookedOnce ==
  [][\A i \in Id : rows[i].st = "closed" => rows'[i] = rows[i]]_vars

-----------------------------------------------------------------------------
(* Why OneLegPerSide and PlanMatchesBook hold.  Neither is inductive: the   *)
(* list the manager works on can hold rows already closed, and the roll     *)
(* works on a side it has just emptied.                                     *)

Legs == OpenLegs \cup LegRecords

\* A record in the list and any leg, open or in the list, on its side are one.
OneRecordPerSide ==
  \A i \in LegRecords, j \in Legs : rows[i].side = rows[j].side => i = j

\* PlanMatchesBook, for the legs in the list as well.
PlanMatchesLegs ==
  /\ plan.state = "DECIDED" => Legs = {}
  /\ plan.state = "LEG1_FILLED" => \A i \in Legs : rows[i].side = plan.leg1

\* What the stage of the tick says of the list and of the table.
StageInv ==
  /\ \A i \in records : rows[i].st # "none"
  /\ pc = "manage" => todo \cup kept \subseteq records
  /\ pc # "manage" => kept = {}
  /\ pc = "legOrder" => Leg2Pending
  /\ pc = "huntOrder" => HasActivePlan
  /\ pc \in {"entry", "hunt"} => records = {} /\ OpenRows = {}
  /\ pc = "rollOpen" =>
       /\ roll.from \in Id /\ ~HasActivePlan
       /\ \A i \in Legs : rows[i].side # rows[roll.from].side

\* One leg per side, in the table and in the list together, at every stage of
\* the tick and whatever the plan waits for (position_manager.py, main.py).
LegInv == OneLegPerSide /\ OneRecordPerSide /\ PlanMatchesLegs /\ StageInv

-----------------------------------------------------------------------------
(* Refinement: as long as no write to the table fails, the open legs are a *)
(* CondorStructure.  A structure is rolled when one of its rows is a roll. *)

OnSide(s) == {i \in OpenLegs : rows[i].side = s}

LegsOpen ==
  [s \in Sides |->
     IF OnSide(s) = {} THEN "flat"
     ELSE IF \E i \in OnSide(s) : rows[i].wing THEN "wing" ELSE "leg"]

Rolled ==
  \E i \in OpenLegs, j \in Id :
    rows[j].kind = "roll" /\ rows[j].condor = rows[i].condor

Condor == INSTANCE CondorStructure WITH legs <- LegsOpen, rolled <- Rolled

\* The loop, its restarts and its failing orders implement what a condor
\* promises (main.py, iron_condor_strategy.py and condor_roll.py together).
ImplementsCondor == Condor!Spec

-----------------------------------------------------------------------------
(* What the repository's documents say and the loop does not do.           *)

\* README.md:57, "Each vertical is a fully tracked position": between ticks
\* every open row is in the list the manager works on.
LegsTracked ==
  up /\ pc = "idle" /\ records # {} => OpenRows \subseteq records

-----------------------------------------------------------------------------
(* Liveness.                                                               *)

\* From 15:45 on the loop closes every open row, those missing from the
\* active list included, as long as the clock leaves it the time
\* (handle_hard_close on every tick, flatten_all reloading an empty list).
HardCloseFlattens ==
  slot = Closing ~> OpenRows = {} \/ slot # Closing

=============================================================================
