------------------------- MODULE TradingLoopProofs --------------------------
(***************************************************************************)
(* Proofs about TradingLoop for every value of its constants: the types,   *)
(* and the discipline of the condor's legs.                                *)
(***************************************************************************)
EXTENDS TradingLoop, TLAPS

USE BookAssumption, HaltAssumption, LoopAssumption

-----------------------------------------------------------------------------
(* The operations of the table and of the halt keep their types.           *)

LEMMA LogEntryType ==
  ASSUME rows \in [Id -> Row], NEW i \in Id, NEW r \in Row, LogEntry(i, r)
  PROVE  rows' \in [Id -> Row]
BY DEF LogEntry

LEMMA LogExitType ==
  ASSUME rows \in [Id -> Row], NEW i \in Id, NEW p \in Int, LogExit(i, p)
  PROVE  rows' \in [Id -> Row]
<1> DEFINE closed == [rows[i] EXCEPT !.st = "closed", !.pnl = p]
<1>1. rows[i] \in Row
  OBVIOUS
<1>2. closed \in Row
  BY <1>1 DEF Row
<1>3. rows' = [rows EXCEPT ![i] = closed]
  BY DEF LogExit
<1> QED
  BY <1>2, <1>3

LEMMA OpenRowType ==
  ASSUME NEW k \in Kinds \cup {"none"}, NEW s \in {"call", "put", "none"},
         NEW w \in BOOLEAN, NEW c \in Id \cup {0}, NEW d \in Nat, NEW e \in Nat
  PROVE  OpenRow(k, s, w, c, d, e) \in Row
BY DEF OpenRow, Row

LEMMA ReadsType ==
  ASSUME mirror \in BOOLEAN
  PROVE  \A rs, d : Reads(rs, d) \subseteq BOOLEAN
<1>1. \A rs, d : Breached(rs, d) \in BOOLEAN
  BY DEF Breached
<1> QED
  BY <1>1 DEF Reads

LEMMA IsHaltedType ==
  ASSUME halted \in BOOLEAN, mirror \in BOOLEAN, NEW rs,
         NEW d \in Nat, IsHalted(rs, d)
  PROVE  halted' \in BOOLEAN /\ mirror' \in BOOLEAN
BY ReadsType DEF IsHalted, SetLatch

LEMMA RecordResultType ==
  ASSUME halted \in BOOLEAN, mirror \in BOOLEAN, NEW p \in Int,
         NEW d \in Nat, RecordResult(p, d)
  PROVE  halted' \in BOOLEAN /\ mirror' \in BOOLEAN
BY IsHaltedType DEF RecordResult, haltVars

-----------------------------------------------------------------------------
(* Types.  Only the roll needs more than TypeOK: what it is rolling is a row. *)

LEMMA ResetType ==
  ASSUME Reset
  PROVE  /\ pc' \in Stages /\ late' \in BOOLEAN
         /\ tick' \in Tick /\ todo' \subseteq Id /\ kept' \subseteq Id
         /\ signal' \in {"none", "dir", "fly"}
         /\ roll' \in [from : Id \cup {0}, tested : Id \cup {0}]
BY DEF Reset, Stages, Tick, NoTick, NoRoll, AllRegimes

LEMMA InitType == Init => TypeOK
<1> SUFFICES ASSUME Init PROVE TypeOK
  OBVIOUS
<1>1. NoRow \in Row /\ NoPlan \in PlanType(Id)
  BY DEF NoRow, Row, NoPlan, PlanType, PlanStates, Sides
<1>2. rows \in [Id -> Row] /\ plan \in PlanType(Id) /\ planDate \in Nat /\ records \subseteq Id
  BY <1>1 DEF Init, BookInit, PlanInit
<1>3. NoTick \in Tick /\ NoRoll \in [from : Id \cup {0}, tested : Id \cup {0}]
  BY DEF NoTick, NoRoll, Tick, AllRegimes
<1>4. day \in 1..MaxDay /\ slot \in Slots /\ crashes \in 0..MaxCrashes
  BY DEF Init, Slots, PreOpen, AfterHours
<1>5. pc \in Stages /\ late \in BOOLEAN /\ tick \in Tick /\ roll \in [from : Id \cup {0}, tested : Id \cup {0}]
      /\ todo \subseteq Id /\ kept \subseteq Id /\ signal \in {"none", "dir", "fly"}
  BY <1>3 DEF Init, IdleTick, Stages
<1> QED
  BY <1>2, <1>4, <1>5 DEF Init, HaltInit, TypeOK

LEMMA OpenTickType ==
  ASSUME TypeOK, OpenTick
  PROVE  /\ rows' \in [Id -> Row] /\ records' \subseteq Id /\ todo' \subseteq Id
         /\ planDate' \in Nat /\ halted' \in BOOLEAN /\ mirror' \in BOOLEAN
         /\ up' \in BOOLEAN /\ sessionReset' \in BOOLEAN /\ flyDay' \in Nat
         /\ crashes' \in 0..MaxCrashes /\ kept' \subseteq Id
         /\ signal' \in {"none", "dir", "fly"}
         /\ roll' \in [from : Id \cup {0}, tested : Id \cup {0}]
<1>1. halted' \in BOOLEAN /\ mirror' \in BOOLEAN
  <2>1. CASE sessionReset
    BY <2>1 DEF OpenTick, TypeOK, haltVars
  <2>2. CASE ~sessionReset
    BY <2>2, ReadsType DEF OpenTick, TypeOK, ResetSession, SetLatch
  <2> QED
    BY <2>1, <2>2
<1>2. Reloaded \subseteq Id
  BY DEF Reloaded, OpenRows, TypeOK
<1> QED
  BY <1>1, <1>2 DEF OpenTick, TypeOK

LEMMA TypeHead ==
  ASSUME TypeOK, TickHead
  PROVE  TypeOK'
<1>1. CASE ClosedTick
  BY <1>1, ResetType DEF ClosedTick, EndTick, TypeOK, planVars, bookVars, haltVars
<1>2. CASE BeginHardClose
  BY <1>2, OpenTickType DEF BeginHardClose, GoTo, clockVars, TypeOK, Stages
<1>3. CASE BeginTick
  <2>1. tick' \in Tick
    <3>1. PICK regime \in Regimes, trig \in SUBSET Sides, chain \in BOOLEAN :
            tick' = [regime |-> regime, chain |-> chain, trig |-> trig]
      BY <1>3 DEF BeginTick
    <3> QED
      BY <3>1 DEF Tick
  <2>2. plan' \in PlanType(Id)
    BY <1>3 DEF BeginTick, TypeOK, PlanType
  <2> QED
    BY <1>3, <2>1, <2>2, OpenTickType DEF BeginTick, GoTo, clockVars, TypeOK, Stages
<1> QED
  BY <1>1, <1>2, <1>3 DEF TickHead

LEMMA TypeFlatten ==
  ASSUME TypeOK, FlattenStep \/ \E r \in todo : FlattenFailed(r)
  PROVE  TypeOK'
<1>1. ASSUME NEW r \in todo, NEW p \in Pnls, FlattenOne(r, p)
      PROVE  TypeOK'
  <2>1. r \in Id /\ p \in Int
    BY <1>1 DEF TypeOK
  <2>2. rows' \in [Id -> Row]
    BY <1>1, <2>1, LogExitType DEF FlattenOne, TypeOK
  <2>3. halted' \in BOOLEAN /\ mirror' \in BOOLEAN
    BY <1>1, <2>1, RecordResultType DEF FlattenOne, TypeOK
  <2> QED
    BY <1>1, <2>2, <2>3 DEF FlattenOne, RemoveRecord, GoTo, clockVars, planVars,
       procVars, TypeOK, Stages
<1>2. ASSUME NEW r \in todo, FlattenFailed(r)
      PROVE  TypeOK'
  BY <1>2 DEF FlattenFailed, GoTo, clockVars, planVars, bookVars, haltVars, procVars,
     TypeOK, Stages
<1>3. CASE FlattenDone
  BY <1>3, ResetType DEF FlattenDone, EndTick, planVars, bookVars, haltVars, procVars, TypeOK
<1> QED
  BY <1>1, <1>2, <1>3 DEF FlattenStep

LEMMA TypeManage ==
  ASSUME TypeOK, ManageStep
  PROVE  TypeOK'
<1>1. ASSUME NEW r \in todo, ManageKeep(r)
      PROVE  TypeOK'
  BY <1>1 DEF ManageKeep, GoTo, clockVars, planVars, bookVars, haltVars, procVars,
     TypeOK, Stages
<1>2. ASSUME NEW r \in todo, NEW p \in Pnls, ManageExit(r, p)
      PROVE  TypeOK'
  <2>1. r \in Id /\ p \in Int
    BY <1>2 DEF TypeOK
  <2>2. rows' \in [Id -> Row]
    BY <1>2, <2>1, LogExitType DEF ManageExit, TypeOK
  <2>3. halted' \in BOOLEAN /\ mirror' \in BOOLEAN
    BY <1>2, <2>1, RecordResultType DEF ManageExit, TypeOK
  <2> QED
    BY <1>2, <2>2, <2>3 DEF ManageExit, GoTo, clockVars, planVars, procVars, TypeOK, Stages
<1>3. CASE ManageDone
  BY <1>3 DEF ManageDone, GoTo, clockVars, planVars, haltVars, procVars, TypeOK, Stages
<1> QED
  BY <1>1, <1>2, <1>3 DEF ManageStep

LEMMA DropPendingLegType ==
  ASSUME plan \in PlanType(Id), DropPendingLeg
  PROVE  plan' \in PlanType(Id)
BY DEF DropPendingLeg, PlanType, NoPlan, PlanStates, Sides

LEMMA ExecuteLegType ==
  ASSUME TypeOK, NEW i \in Id, ExecuteLeg(i)
  PROVE  /\ rows' \in [Id -> Row] /\ records' \subseteq Id
         /\ plan' \in PlanType(Id) /\ planDate' \in Nat
<1>1. PendingSide \in Sides
  BY DEF PendingSide, Other, TypeOK, PlanType, Sides
<1>2. PICK e \in Tenors : LogEntry(i, LegRow(i, e))
  BY DEF ExecuteLeg
<1>3. LegRow(i, e) \in Row
  <2>1. plan.condor \in Id \cup {0} /\ day \in Nat /\ day + e \in Nat
    BY DEF TypeOK, PlanType
  <2>2. PendingSide \in {"call", "put", "none"}
    BY <1>1 DEF Sides
  <2>3. {"leg1", "leg2"} \subseteq Kinds \cup {"none"}
    BY DEF Kinds, LegKinds
  <2> QED
    BY <2>1, <2>2, <2>3, OpenRowType DEF LegRow
<1>4. rows' \in [Id -> Row]
  BY <1>2, <1>3, LogEntryType DEF TypeOK
<1> QED
  BY <1>4 DEF ExecuteLeg, AddCondorLeg, NotifyLegFilled, TypeOK, PlanType, PlanStates

LEMMA TypeLeg ==
  ASSUME TypeOK, LegStep
  PROVE  TypeOK'
<1>1. CASE LegDropped
  BY <1>1, DropPendingLegType DEF LegDropped, DropPendingLeg, GoTo, clockVars, bookVars,
     haltVars, procVars, TypeOK, Stages
<1>2. CASE LegDue \/ LegWaits \/ LegRejected
  BY <1>2 DEF LegDue, LegWaits, LegRejected, GoTo, clockVars, planVars, bookVars, haltVars,
     procVars, TypeOK, Stages
<1>3. ASSUME NEW i \in Id, LegFires(i)
      PROVE  TypeOK'
  BY <1>3, ExecuteLegType DEF LegFires, GoTo, clockVars, haltVars, procVars, TypeOK, Stages
<1> QED
  BY <1>1, <1>2, <1>3 DEF LegStep

LEMMA HaltTypes ==
  ASSUME TypeOK, IsHalted(rows, day) \/ Heartbeat(day)
  PROVE  halted' \in BOOLEAN /\ mirror' \in BOOLEAN
<1>1. halted \in BOOLEAN /\ mirror \in BOOLEAN /\ day \in Nat
  BY DEF TypeOK
<1> QED
  BY <1>1, IsHaltedType DEF Heartbeat, haltVars

LEMMA TypeRoll ==
  ASSUME TypeOK, StageInv, RollStep
  PROVE  TypeOK'
<1>1. ASSUME NEW tested \in records, NEW from \in records, NEW p \in Pnls,
             RollClose(tested, from, p)
      PROVE  TypeOK'
  <2>1. tested \in Id /\ from \in Id /\ p \in Int
    BY DEF TypeOK
  <2>2. rows' \in [Id -> Row]
    BY <1>1, <2>1, LogExitType DEF RollClose, TypeOK
  <2> QED
    BY <1>1, <2>1, <2>2 DEF RollClose, RemoveRecord, GoTo, clockVars, planVars, haltVars,
       procVars, TypeOK, Stages
<1>2. ASSUME NEW i \in Id, RollOpen(i)
      PROVE  TypeOK'
  <2>1. rows[roll.from] \in Row /\ day \in Nat
    BY <1>2 DEF RollOpen, StageInv, TypeOK
  <2>2. /\ rows[roll.from].side \in {"call", "put", "none"}
        /\ rows[roll.from].condor \in Id \cup {0}
    BY <2>1 DEF Row
  <2>3. OpenRow("roll", rows[roll.from].side, TRUE, rows[roll.from].condor, day, 0) \in Row
    <3>1. "roll" \in Kinds \cup {"none"}
      BY DEF Kinds, LegKinds
    <3> QED
      BY <2>1, <2>2, <3>1, OpenRowType
  <2>4. rows' \in [Id -> Row]
    BY <1>2, <2>3, LogEntryType DEF RollOpen, TypeOK
  <2> QED
    BY <1>2, <2>4 DEF RollOpen, AddCondorLeg, GoTo, clockVars, planVars, haltVars,
       procVars, TypeOK, Stages
<1>3. CASE RollFlag
  <2>1. rows' \in [Id -> Row]
    <3> DEFINE final == [rows[roll.tested] EXCEPT !.wing = TRUE]
    <3>1. CASE roll.tested \in Id
      <4>1. rows[roll.tested] \in Row
        BY <3>1 DEF TypeOK
      <4>2. final \in Row
        BY <4>1 DEF Row
      <4>3. rows' = [rows EXCEPT ![roll.tested] = final]
        BY <1>3 DEF RollFlag, FlagBrokenWing
      <4> QED
        BY <4>2, <4>3 DEF TypeOK
    <3>2. CASE roll.tested \notin Id
      BY <1>3, <3>2 DEF RollFlag, FlagBrokenWing, TypeOK
    <3> QED
      BY <3>1, <3>2
  <2> QED
    BY <1>3, <2>1, ResetType, HaltTypes DEF RollFlag, EndTick, planVars, procVars, TypeOK
<1>4. CASE RollEnds
  BY <1>4, ResetType, HaltTypes DEF RollEnds, EndTick, planVars, bookVars, procVars, TypeOK
<1> QED
  BY <1>1, <1>2, <1>3, <1>4 DEF RollStep

LEMMA DecideType ==
  ASSUME TypeOK, NEW side, Decide(tick.regime, slot, day, side)
  PROVE  plan' \in PlanType(Id) /\ planDate' \in Nat
<1>1. NoPlan \in PlanType(Id)
  BY DEF NoPlan, PlanType, PlanStates, Sides
<1>2. PlanAfterReset(day) \in PlanType(Id)
  BY <1>1 DEF PlanAfterReset, TypeOK
<1>3. side \in Sides =>
        [NoPlan EXCEPT !.state = "DECIDED", !.leg1 = side] \in PlanType(Id)
  BY <1>1 DEF PlanType, PlanStates
<1> QED
  BY <1>2, <1>3 DEF Decide, TypeOK

LEMMA ProceedType ==
  ASSUME TypeOK, NEW s \in Signals, Proceed(s)
  PROVE  /\ day' = day /\ slot' = slot /\ ticked' \in BOOLEAN /\ late' \in BOOLEAN
         /\ pc' \in Stages /\ tick' \in Tick /\ todo' \subseteq Id /\ kept' \subseteq Id
         /\ signal' \in {"none", "dir", "fly"}
         /\ roll' \in [from : Id \cup {0}, tested : Id \cup {0}]
<1>1. CASE s = "none"
  BY <1>1, ResetType DEF Proceed, EndTick, TypeOK
<1>2. CASE s # "none"
  BY <1>2 DEF Proceed, GoTo, clockVars, TypeOK, Stages, Signals
<1> QED
  BY <1>1, <1>2

LEMMA TakeSignalType ==
  ASSUME TypeOK, NEW s \in Signals, TakeSignal(s)
  PROVE  /\ flyDay' \in Nat /\ UNCHANGED <<rows, records, halted, mirror>>
         /\ up' = up /\ sessionReset' = sessionReset /\ crashes' = crashes
BY DEF TakeSignal, TypeOK, bookVars, haltVars

LEMMA TypeEntry ==
  ASSUME TypeOK, EntryStep
  PROVE  TypeOK'
<1>1. CASE EntryRefused
  BY <1>1, ResetType, HaltTypes
     DEF EntryRefused, EndTick, planVars, bookVars, procVars, TypeOK
<1>2. CASE EntryAllowed
  BY <1>2, HaltTypes
     DEF EntryAllowed, GoTo, clockVars, planVars, bookVars, procVars, TypeOK, Stages
<1>3. ASSUME NEW s \in Signals, NEW side \in Sides \cup {"none"}, EntryDecides(s, side)
      PROVE  TypeOK'
  <2>1. plan' \in PlanType(Id) /\ planDate' \in Nat
    BY <1>3, DecideType DEF EntryDecides, planVars, TypeOK
  <2> QED
    BY <1>3, <2>1, TakeSignalType, ProceedType DEF EntryDecides, TypeOK
<1>4. ASSUME NEW s \in Signals, EntryDropsLeg(s) \/ EntryLegWaits(s)
      PROVE  TypeOK'
  <2>1. plan' \in PlanType(Id) /\ planDate' \in Nat
    BY <1>4, DropPendingLegType
       DEF EntryDropsLeg, EntryLegWaits, DropPendingLeg, planVars, TypeOK
  <2> QED
    BY <1>4, <2>1, TakeSignalType, ProceedType DEF EntryDropsLeg, EntryLegWaits, TypeOK
<1>5. ASSUME NEW s \in Signals, EntryLegDue(s)
      PROVE  TypeOK'
  BY <1>5, TakeSignalType
     DEF EntryLegDue, GoTo, clockVars, planVars, TypeOK, Stages, Signals
<1>6. signal \in Signals
  BY DEF TypeOK, Signals
<1>7. ASSUME NEW i \in Id, EntryFiresLeg(i)
      PROVE  TypeOK'
  BY <1>6, <1>7, ProceedType, ExecuteLegType DEF EntryFiresLeg, haltVars, procVars, TypeOK
<1>8. CASE EntryLegRejected
  BY <1>6, <1>8, ProceedType
     DEF EntryLegRejected, planVars, bookVars, haltVars, procVars, TypeOK
<1>9. ASSUME NEW i \in Id, EntryFilled(i)
      PROVE  TypeOK'
  <2>1. PICK e \in Tenors :
          LogEntry(i, OpenRow(signal, "none", FALSE, 0, day, day + e))
    BY <1>9 DEF EntryFilled
  <2>2. OpenRow(signal, "none", FALSE, 0, day, day + e) \in Row
    <3>1. signal \in Kinds \cup {"none"}
      BY DEF TypeOK, Kinds, LegKinds
    <3>2. day \in Nat /\ day + e \in Nat
      BY DEF TypeOK
    <3> QED
      BY <3>1, <3>2, OpenRowType
  <2>3. rows' \in [Id -> Row]
    BY <2>1, <2>2, LogEntryType DEF TypeOK
  <2> QED
    BY <1>9, <2>3, ResetType
       DEF EntryFilled, SetOpenPosition, EndTick, planVars, haltVars, procVars, TypeOK
<1>10. CASE EntryRejected
  BY <1>10, ResetType DEF EntryRejected, EndTick, planVars, bookVars, haltVars, procVars, TypeOK
<1> QED
  BY <1>1, <1>2, <1>3, <1>4, <1>5, <1>9, <1>10, <1>7, <1>8 DEF EntryStep

LEMMA TypeOther ==
  ASSUME TypeOK, TickAborted \/ Crash \/ Start \/ Advance
  PROVE  TypeOK'
<1>1. CASE TickAborted
  BY <1>1, ResetType
     DEF TickAborted, planVars, bookVars, haltVars, procVars, clockVars, TypeOK
<1>2. CASE Crash
  <2>1. plan' \in PlanType(Id)
    BY <1>2 DEF Crash, NoPlan, PlanType, PlanStates, Sides
  <2>2. crashes' \in 0..MaxCrashes
    BY <1>2 DEF Crash, TypeOK
  <2> QED
    BY <1>2, <2>1, <2>2, ResetType DEF Crash, clockVars, TypeOK
<1>3. CASE Start
  <2>1. rows' \in [Id -> Row]
    <3>1. \A i \in Id : [rows[i] EXCEPT !.st = "closed"] \in Row
      BY DEF TypeOK, Row
    <3> QED
      BY <1>3, <3>1 DEF Start, RecoverOpenPosition, TypeOK
  <2> QED
    BY <1>3, <2>1, ResetType DEF Start, RecoverOpenPosition, OpenRows, planVars, haltVars,
       clockVars, TypeOK
<1>4. CASE Advance
  <2>1. slot' \in Slots /\ day' \in 1..MaxDay
    BY <1>4 DEF Advance, TypeOK, Slots, PreOpen, AfterHours
  <2> QED
    BY <1>4, <2>1 DEF Advance, planVars, bookVars, haltVars, procVars, TypeOK
<1> QED
  BY <1>1, <1>2, <1>3, <1>4

LEMMA TypeStep ==
  ASSUME TypeOK, StageInv, [Next]_vars
  PROVE  TypeOK'
<1>1. CASE UNCHANGED vars
  BY <1>1 DEF vars, planVars, bookVars, haltVars, clockVars, procVars, tickVars, TypeOK
<1>2. CASE Next
  BY <1>2, TypeHead, TypeFlatten, TypeManage, TypeLeg, TypeRoll, TypeEntry, TypeOther
     DEF Next, LoopStep, FaultStep
<1> QED
  BY <1>1, <1>2

-----------------------------------------------------------------------------
(* The legs.  A step either only takes legs away, or adds one on a side that *)
(* is empty in the table and in the list.                                    *)

LegBook == OneLegPerSide /\ OneRecordPerSide /\ PlanMatchesLegs

LEMMA LogExitRows ==
  ASSUME rows \in [Id -> Row], NEW i \in Id, NEW p, LogExit(i, p)
  PROVE  /\ OpenLegs' \subseteq OpenLegs /\ OpenRows' \subseteq OpenRows
         /\ \A j \in Id : /\ rows'[j].side = rows[j].side
                          /\ rows'[j].kind = rows[j].kind
                          /\ rows[j].st # "none" => rows'[j].st # "none"
<1> DEFINE closed == [rows[i] EXCEPT !.st = "closed", !.pnl = p]
<1>1. rows' = [rows EXCEPT ![i] = closed]
  BY DEF LogExit
<1>2. /\ closed.st = "closed" /\ closed.side = rows[i].side
      /\ closed.kind = rows[i].kind
  <2>1. rows[i] \in Row
    OBVIOUS
  <2> QED
    BY <2>1 DEF Row
<1>3. \A j \in Id : rows'[j] = IF j = i THEN closed ELSE rows[j]
  BY <1>1
<1> HIDE DEF closed
<1> QED
  BY <1>2, <1>3 DEF OpenLegs, OpenRows

LEMMA LogEntryRows ==
  ASSUME rows \in [Id -> Row], NEW i \in Id, NEW r, LogEntry(i, r)
  PROVE  /\ rows[i].st = "none" /\ rows'[i] = r
         /\ \A j \in Id \ {i} : rows'[j] = rows[j]
BY DEF LogEntry, NextFree

\* The step leaves the pending side as it is, or leaves no leg pending.
PlanKept == \/ plan'.state = plan.state /\ plan'.leg1 = plan.leg1
            \/ plan'.state \notin {"DECIDED", "LEG1_FILLED"}

LEMMA LegsShrink ==
  ASSUME LegBook, PlanKept,
         OpenLegs' \subseteq OpenLegs,
         LegRecords' \subseteq LegRecords \/ LegRecords' \subseteq OpenLegs,
         \A i \in Legs : rows'[i].side = rows[i].side
  PROVE  LegBook'
<1>1. Legs' \subseteq Legs
  BY DEF Legs
<1>2. OneLegPerSide'
  BY DEF LegBook, OneLegPerSide, Legs
<1>3. OneRecordPerSide'
  <2>1. CASE LegRecords' \subseteq LegRecords
    BY <2>1, <1>1 DEF LegBook, OneRecordPerSide, Legs
  <2>2. CASE LegRecords' \subseteq OpenLegs
    BY <2>2 DEF LegBook, OneLegPerSide, OneRecordPerSide, Legs
  <2> QED
    BY <2>1, <2>2
<1>4. PlanMatchesLegs'
  BY <1>1 DEF LegBook, PlanMatchesLegs, PlanKept
<1> QED
  BY <1>2, <1>3, <1>4 DEF LegBook

LEMMA LegsGrow ==
  ASSUME LegBook, NEW i,
         OpenLegs' \subseteq OpenLegs \cup {i}, LegRecords' \subseteq LegRecords \cup {i},
         \A j \in Legs : rows'[j].side = rows[j].side /\ rows[j].side # rows'[i].side
  PROVE  OneLegPerSide' /\ OneRecordPerSide'
<1>1. OneLegPerSide'
  BY DEF LegBook, OneLegPerSide, Legs
<1>2. OneRecordPerSide'
  BY DEF LegBook, OneRecordPerSide, Legs
<1> QED
  BY <1>1, <1>2

LEMMA SameBook ==
  ASSUME LegBook, PlanKept, UNCHANGED <<rows, records>>
  PROVE  LegBook' /\ OpenRows' = OpenRows /\ Legs' = Legs
<1>1. OpenRows' = OpenRows /\ OpenLegs' = OpenLegs /\ LegRecords' = LegRecords
  BY DEF OpenRows, OpenLegs, LegRecords
<1> QED
  BY <1>1, LegsShrink DEF Legs

LEMMA ExecuteLegLegs ==
  ASSUME TypeOK, LegBook, StageInv, NEW i \in Id, ExecuteLeg(i), HasActivePlan
  PROVE  LegBook' /\ \A j \in records' : rows'[j].st # "none"
<1>1. PICK e \in Tenors : LogEntry(i, LegRow(i, e))
  BY DEF ExecuteLeg
<1>2. /\ rows[i].st = "none" /\ rows'[i] = LegRow(i, e)
      /\ \A j \in Id \ {i} : rows'[j] = rows[j]
  BY <1>1, LogEntryRows DEF TypeOK
<1>3. rows'[i].st = "open" /\ rows'[i].side = PendingSide
  BY <1>2 DEF LegRow, OpenRow
<1>4. i \notin records /\ i \notin Legs
  BY <1>2 DEF StageInv, Legs, OpenLegs, OpenRows, LegRecords
<1>5. records' = records \cup {i} /\ records \subseteq Id
  BY DEF ExecuteLeg, AddCondorLeg, TypeOK
<1>6. OpenLegs' \subseteq OpenLegs \cup {i} /\ LegRecords' \subseteq LegRecords \cup {i}
  BY <1>2, <1>5 DEF OpenLegs, OpenRows, LegRecords
<1>7. Legs \subseteq Id
  BY DEF Legs, OpenLegs, OpenRows, LegRecords, TypeOK
<1>8. \A j \in Legs : rows'[j].side = rows[j].side
  BY <1>2, <1>4, <1>7
<1>9. \A j \in Legs : rows[j].side # PendingSide
  <2>1. CASE plan.state = "DECIDED"
    BY <2>1 DEF LegBook, PlanMatchesLegs
  <2>2. CASE plan.state = "LEG1_FILLED"
    BY <2>2 DEF LegBook, PlanMatchesLegs, PendingSide, Other, TypeOK, PlanType, Sides
  <2> QED
    BY <2>1, <2>2 DEF HasActivePlan
<1>10. OneLegPerSide' /\ OneRecordPerSide'
  BY <1>3, <1>6, <1>8, <1>9, LegsGrow
<1>11. PlanMatchesLegs'
  <2>1. CASE plan.state = "DECIDED"
    <3>1. Legs = {} /\ PendingSide = plan.leg1
      BY <2>1 DEF LegBook, PlanMatchesLegs, PendingSide
    <3>2. plan'.state = "LEG1_FILLED" /\ plan'.leg1 = plan.leg1
      BY <2>1 DEF ExecuteLeg, NotifyLegFilled, TypeOK, PlanType
    <3>3. Legs' \subseteq {i}
      BY <1>6, <3>1 DEF Legs
    <3> QED
      BY <1>3, <3>1, <3>2, <3>3 DEF PlanMatchesLegs
  <2>2. CASE plan.state # "DECIDED"
    <3>1. plan'.state = "COMPLETE"
      BY <2>2 DEF ExecuteLeg, NotifyLegFilled, TypeOK, PlanType
    <3> QED
      BY <3>1 DEF PlanMatchesLegs
  <2> QED
    BY <2>1, <2>2
<1>12. \A j \in records' : rows'[j].st # "none"
  BY <1>2, <1>3, <1>4, <1>5 DEF StageInv
<1> QED
  BY <1>10, <1>11, <1>12 DEF LegBook

LEMMA SameBookStage ==
  ASSUME StageInv, LegBook, PlanKept, UNCHANGED <<rows, records>>, kept' = {},
         pc' \in {"idle", "flatten", "leg", "roll", "rollFlag", "enter"}
  PROVE  LegInv'
BY SameBook DEF LegInv, LegBook, StageInv

LEMMA LegsHead ==
  ASSUME TypeOK, LegInv, TickHead
  PROVE  LegInv'
<1>1. CASE ClosedTick
  BY <1>1, SameBookStage
     DEF ClosedTick, EndTick, Reset, planVars, bookVars, PlanKept, LegInv, LegBook
<1>2. ASSUME OpenTick, PlanKept, \/ pc' \in {"flatten", "manage"}
                                 \/ (pc' = "entry" /\ Reloaded = {})
      PROVE  LegInv'
  <2>1. rows' = rows /\ records' = Reloaded /\ todo' = Reloaded /\ kept' = {}
    BY <1>2 DEF OpenTick, LegInv, StageInv
  <2>2. OpenLegs' = OpenLegs /\ OpenRows' = OpenRows
    BY <2>1 DEF OpenLegs, OpenRows
  <2>3. LegRecords' \subseteq LegRecords \/ LegRecords' \subseteq OpenLegs
    BY <2>1 DEF Reloaded, LegRecords, OpenLegs
  <2>4. LegBook'
    BY <1>2, <2>1, <2>2, <2>3, LegsShrink DEF LegInv, LegBook
  <2>5. \A i \in records' : rows'[i].st # "none"
    BY <2>1 DEF Reloaded, OpenRows, LegInv, StageInv
  <2>6. Reloaded = {} => records' = {} /\ OpenRows' = {}
    BY <2>1, <2>2 DEF Reloaded
  <2> QED
    BY <1>2, <2>1, <2>4, <2>5, <2>6 DEF LegInv, LegBook, StageInv
<1>3. CASE BeginHardClose
  <2>1. OpenTick /\ pc' = "flatten" /\ plan' = plan
    BY <1>3 DEF BeginHardClose, GoTo
  <2>2. PlanKept
    BY <2>1 DEF PlanKept
  <2> QED
    BY <1>2, <2>1, <2>2
<1>4. CASE BeginTick
  <2>1. PlanKept
    BY <1>4 DEF BeginTick, PlanKept, TypeOK, PlanType
  <2>2. OpenTick /\ (pc' = "manage" \/ (pc' = "entry" /\ Reloaded = {}))
    BY <1>4 DEF BeginTick, GoTo
  <2> QED
    BY <1>2, <2>1, <2>2
<1> QED
  BY <1>1, <1>3, <1>4 DEF TickHead

LEMMA LegsExit ==
  ASSUME TypeOK, LegBook, StageInv, NEW r \in Id, NEW p, LogExit(r, p),
         records' \subseteq records, plan' = plan
  PROVE  /\ LegBook' /\ OpenRows' \subseteq OpenRows /\ Legs' \subseteq Legs
         /\ \A i \in records' : rows'[i].st # "none"
         /\ \A i \in Id : rows'[i].side = rows[i].side
<1>1. /\ OpenLegs' \subseteq OpenLegs /\ OpenRows' \subseteq OpenRows
      /\ \A i \in Id : /\ rows'[i].side = rows[i].side
                       /\ rows'[i].kind = rows[i].kind
                       /\ rows[i].st # "none" => rows'[i].st # "none"
  BY LogExitRows DEF TypeOK
<1>2. records \subseteq Id
  BY DEF TypeOK
<1>3. LegRecords' \subseteq LegRecords
  BY <1>1, <1>2 DEF LegRecords
<1>4. Legs \subseteq Id
  BY <1>2 DEF Legs, OpenLegs, OpenRows, LegRecords
<1>5. LegBook'
  BY <1>1, <1>3, <1>4, LegsShrink DEF PlanKept
<1> QED
  BY <1>1, <1>2, <1>3, <1>5 DEF Legs, StageInv

LEMMA LegsFlatten ==
  ASSUME TypeOK, LegInv, FlattenStep \/ \E r \in todo : FlattenFailed(r)
  PROVE  LegInv'
<1>1. ASSUME NEW r \in todo, NEW p \in Pnls, FlattenOne(r, p)
      PROVE  LegInv'
  <2>1. r \in Id /\ records' \subseteq records
    BY <1>1 DEF FlattenOne, RemoveRecord, TypeOK
  <2>2. LegBook' /\ \A i \in records' : rows'[i].st # "none"
    BY <1>1, <2>1, LegsExit DEF FlattenOne, planVars, LegInv, LegBook
  <2> QED
    BY <1>1, <2>2 DEF FlattenOne, GoTo, LegInv, LegBook, StageInv
<1>2. ASSUME NEW r \in todo, FlattenFailed(r)
      PROVE  LegInv'
  BY <1>2, SameBookStage
     DEF FlattenFailed, GoTo, planVars, bookVars, PlanKept, LegInv, LegBook, StageInv
<1>3. CASE FlattenDone
  BY <1>3, SameBookStage
     DEF FlattenDone, EndTick, Reset, planVars, bookVars, PlanKept, LegInv, LegBook
<1> QED
  BY <1>1, <1>2, <1>3 DEF FlattenStep

LEMMA LegsManage ==
  ASSUME TypeOK, LegInv, ManageStep
  PROVE  LegInv'
<1>1. ASSUME NEW r \in todo, ManageKeep(r)
      PROVE  LegInv'
  <2>1. LegBook'
    BY <1>1, SameBook DEF ManageKeep, planVars, bookVars, PlanKept, LegInv, LegBook
  <2> QED
    BY <1>1, <2>1 DEF ManageKeep, GoTo, planVars, bookVars, LegInv, LegBook, StageInv
<1>2. ASSUME NEW r \in todo, NEW p \in Pnls, ManageExit(r, p)
      PROVE  LegInv'
  <2>1. r \in Id
    BY <1>2 DEF TypeOK
  <2>2. LegBook' /\ \A i \in records' : rows'[i].st # "none"
    BY <1>2, <2>1, LegsExit DEF ManageExit, planVars, LegInv, LegBook
  <2> QED
    BY <1>2, <2>2 DEF ManageExit, GoTo, LegInv, LegBook, StageInv
<1>3. CASE ManageDone
  <2>1. rows' = rows /\ records' \subseteq records /\ PlanKept
    BY <1>3 DEF ManageDone, planVars, PlanKept, LegInv, StageInv
  <2>2. OpenLegs' = OpenLegs /\ LegRecords' \subseteq LegRecords
    BY <2>1 DEF OpenLegs, OpenRows, LegRecords
  <2>3. LegBook'
    BY <2>1, <2>2, LegsShrink DEF LegInv, LegBook
  <2> QED
    BY <1>3, <2>1, <2>3 DEF ManageDone, GoTo, LegInv, LegBook, StageInv
<1> QED
  BY <1>1, <1>2, <1>3 DEF ManageStep

LEMMA DropPendingLegKeeps ==
  ASSUME TypeOK, DropPendingLeg
  PROVE  PlanKept
BY DEF DropPendingLeg, PlanKept, TypeOK, PlanType, NoPlan

LEMMA LegsLeg ==
  ASSUME TypeOK, LegInv, LegStep
  PROVE  LegInv'
<1>1. kept' = {} /\ pc' \in {"legOrder", "roll"} /\ (pc' = "legOrder" => LegDue)
  BY DEF LegStep, LegDropped, LegDue, LegFires, LegWaits, LegRejected, GoTo, LegInv, StageInv
<1>2. CASE LegDropped
  BY <1>2, SameBookStage, DropPendingLegKeeps
     DEF LegDropped, GoTo, bookVars, LegInv, LegBook, StageInv
<1>3. CASE LegWaits \/ LegRejected
  BY <1>3, SameBookStage
     DEF LegWaits, LegRejected, GoTo, planVars, bookVars, PlanKept, LegInv, LegBook, StageInv
<1>4. CASE LegDue
  <2>1. /\ UNCHANGED <<rows, records, plan>> /\ kept' = {} /\ pc' = "legOrder"
        /\ Leg2Pending
    BY <1>4 DEF LegDue, GoTo, planVars, bookVars, LegInv, StageInv
  <2>2. LegBook'
    BY <2>1, SameBook DEF PlanKept, LegInv, LegBook
  <2> QED
    BY <2>1, <2>2 DEF LegInv, LegBook, StageInv, Leg2Pending
<1>5. ASSUME NEW i \in Id, LegFires(i)
      PROVE  LegInv'
  <2>1. ExecuteLeg(i) /\ HasActivePlan /\ pc' = "roll"
    BY <1>5 DEF LegFires, GoTo, LegInv, StageInv, Leg2Pending, HasActivePlan
  <2>2. LegBook' /\ \A j \in records' : rows'[j].st # "none"
    BY <2>1, ExecuteLegLegs DEF LegInv, LegBook
  <2> QED
    BY <1>1, <2>1, <2>2 DEF LegInv, LegBook, StageInv
<1> QED
  BY <1>2, <1>3, <1>4, <1>5 DEF LegStep

LEMMA LegsRollClose ==
  ASSUME TypeOK, LegInv, NEW tested \in records, NEW from \in records, NEW p \in Pnls,
         RollClose(tested, from, p)
  PROVE  LegInv'
<1>1. /\ tested \in Id /\ from \in Id
      /\ LegRecords = {tested, from} /\ rows[tested].side = Other(rows[from].side)
      /\ LogExit(from, p) /\ records' = records \ {from}
      /\ plan' = plan /\ kept' = {} /\ pc' = "rollOpen" /\ roll'.from = from
  BY DEF RollClose, CanRoll, RemoveRecord, GoTo, planVars, LegInv, StageInv, TypeOK
<1>2. /\ LegBook' /\ OpenRows' \subseteq OpenRows /\ Legs' \subseteq Legs
      /\ \A i \in records' : rows'[i].st # "none"
      /\ \A i \in Id : rows'[i].side = rows[i].side
  BY <1>1, LegsExit DEF LegInv, LegBook
<1>3. rows[tested].side # rows[from].side
  BY <1>1 DEF Other
<1>4. ~HasActivePlan
  <2>1. {tested, from} \subseteq Legs
    BY <1>1 DEF Legs
  <2> QED
    BY <1>3, <2>1 DEF HasActivePlan, LegInv, PlanMatchesLegs
<1>5. from \notin Legs'
  BY <1>1 DEF Legs, OpenLegs, OpenRows, LegRecords, LogExit, TypeOK, Row
<1>6. \A i \in Legs' : rows'[i].side # rows'[from].side
  <2>1. \A i \in Legs : rows[i].side = rows[from].side => i = from
    BY <1>1 DEF LegInv, OneRecordPerSide
  <2>2. Legs' \subseteq Id
    BY <1>1 DEF Legs, OpenLegs, OpenRows, LegRecords, TypeOK
  <2> QED
    BY <1>1, <1>2, <1>5, <2>1, <2>2
<1> QED
  BY <1>1, <1>2, <1>4, <1>6 DEF LegInv, LegBook, StageInv, HasActivePlan

LEMMA LegsRollOpen ==
  ASSUME TypeOK, LegInv, NEW i \in Id, RollOpen(i)
  PROVE  LegInv'
<1> DEFINE wing == OpenRow("roll", rows[roll.from].side, TRUE,
                           rows[roll.from].condor, day, 0)
<1>1. /\ LogEntry(i, wing) /\ records' = records \cup {i} /\ records \subseteq Id
      /\ plan' = plan /\ kept' = {} /\ pc' = "rollFlag"
      /\ ~HasActivePlan /\ \A j \in Legs : rows[j].side # rows[roll.from].side
  BY DEF RollOpen, AddCondorLeg, GoTo, planVars, LegInv, StageInv, TypeOK
<1>2. rows[i].st = "none" /\ rows'[i] = wing /\ \A j \in Id \ {i} : rows'[j] = rows[j]
  BY <1>1, LogEntryRows DEF TypeOK
<1>3. wing.st = "open" /\ wing.side = rows[roll.from].side
  BY DEF OpenRow
<1>4. i \notin records /\ i \notin Legs
  BY <1>2 DEF LegInv, StageInv, Legs, OpenLegs, OpenRows, LegRecords
<1>5. OpenLegs' \subseteq OpenLegs \cup {i} /\ LegRecords' \subseteq LegRecords \cup {i}
  BY <1>1, <1>2 DEF OpenLegs, OpenRows, LegRecords
<1>6. Legs \subseteq Id
  BY <1>1 DEF Legs, OpenLegs, OpenRows, LegRecords
<1>7. \A j \in Legs : rows'[j].side = rows[j].side /\ rows[j].side # rows'[i].side
  BY <1>1, <1>2, <1>3, <1>4, <1>6
<1>8. OneLegPerSide' /\ OneRecordPerSide'
  BY <1>5, <1>7, LegsGrow DEF LegInv, LegBook
<1>9. PlanMatchesLegs'
  BY <1>1 DEF PlanMatchesLegs, HasActivePlan
<1>10. \A j \in records' : rows'[j].st # "none"
  BY <1>1, <1>2, <1>3, <1>4 DEF LegInv, StageInv
<1> QED
  BY <1>1, <1>8, <1>9, <1>10 DEF LegInv, StageInv

LEMMA LegsRollFlag ==
  ASSUME TypeOK, LegInv, RollFlag
  PROVE  LegInv'
<1>1. \A i \in Id : /\ rows'[i].st = rows[i].st /\ rows'[i].side = rows[i].side
                    /\ rows'[i].kind = rows[i].kind
  <2> DEFINE final == [rows[roll.tested] EXCEPT !.wing = TRUE]
  <2>1. rows' = [rows EXCEPT ![roll.tested] = final]
    BY DEF RollFlag, FlagBrokenWing
  <2>2. CASE roll.tested \in Id
    <3>1. rows[roll.tested] \in Row
      BY <2>2 DEF TypeOK
    <3>2. /\ final.st = rows[roll.tested].st /\ final.side = rows[roll.tested].side
          /\ final.kind = rows[roll.tested].kind
      BY <3>1 DEF Row
    <3>3. \A i \in Id : rows'[i] = IF i = roll.tested THEN final ELSE rows[i]
      BY <2>1 DEF TypeOK
    <3> HIDE DEF final
    <3> QED
      BY <3>2, <3>3
  <2>3. CASE roll.tested \notin Id
    BY <2>1, <2>3 DEF TypeOK
  <2> QED
    BY <2>2, <2>3
<1>2. records' = records /\ records \subseteq Id /\ plan' = plan
  BY DEF RollFlag, planVars, TypeOK
<1>3. /\ OpenLegs' = OpenLegs /\ LegRecords' = LegRecords
      /\ \A i \in records' : rows'[i].st # "none"
  BY <1>1, <1>2 DEF OpenLegs, OpenRows, LegRecords, LegInv, StageInv
<1>4. Legs \subseteq Id
  BY <1>2 DEF Legs, OpenLegs, OpenRows, LegRecords
<1>5. LegBook'
  BY <1>1, <1>2, <1>3, <1>4, LegsShrink DEF PlanKept, LegInv, LegBook
<1> QED
  BY <1>3, <1>5 DEF RollFlag, EndTick, Reset, LegInv, LegBook, StageInv

LEMMA LegsRoll ==
  ASSUME TypeOK, LegInv, RollStep
  PROVE  LegInv'
<1>1. CASE RollEnds
  BY <1>1, SameBookStage
     DEF RollEnds, EndTick, Reset, planVars, bookVars, PlanKept, LegInv, LegBook
<1> QED
  BY <1>1, LegsRollClose, LegsRollOpen, LegsRollFlag DEF RollStep

LEMMA ProceedStage ==
  ASSUME StageInv, NEW s, Proceed(s), pc # "manage"
  PROVE  kept' = {} /\ pc' \in {"idle", "enter"}
BY DEF Proceed, EndTick, Reset, GoTo, StageInv

LEMMA LegsEntry ==
  ASSUME TypeOK, LegInv, EntryStep
  PROVE  LegInv'
<1>1. CASE EntryRefused
  BY <1>1, SameBookStage
     DEF EntryRefused, EndTick, Reset, planVars, bookVars, PlanKept, LegInv, LegBook
<1>2. CASE EntryAllowed
  <2>1. /\ UNCHANGED <<rows, records, plan>> /\ kept' = {} /\ pc' = "hunt"
        /\ records = {} /\ OpenRows = {}
    BY <1>2 DEF EntryAllowed, GoTo, planVars, bookVars, LegInv, StageInv
  <2>2. LegBook' /\ OpenRows' = OpenRows
    BY <2>1, SameBook DEF PlanKept, LegInv, LegBook
  <2> QED
    BY <2>1, <2>2 DEF LegInv, LegBook, StageInv
<1>3. ASSUME NEW s \in Signals, NEW side \in Sides \cup {"none"}, EntryDecides(s, side)
      PROVE  LegInv'
  <2>1. /\ Legs = {} /\ rows' = rows /\ records' = records
        /\ kept' = {} /\ pc' \in {"idle", "enter"}
    BY <1>3, ProceedStage
       DEF EntryDecides, TakeSignal, bookVars, LegInv, StageInv, Legs, OpenLegs, LegRecords
  <2>2. Legs' = {} /\ OpenLegs' = {} /\ LegRecords' = {}
    BY <2>1 DEF Legs, OpenLegs, OpenRows, LegRecords
  <2>3. \A i \in records' : rows'[i].st # "none"
    BY <2>1 DEF LegInv, StageInv
  <2> QED
    BY <2>1, <2>2, <2>3
       DEF LegInv, OneLegPerSide, OneRecordPerSide, PlanMatchesLegs, StageInv
<1>4. ASSUME NEW s \in Signals, EntryDropsLeg(s) \/ EntryLegWaits(s)
      PROVE  LegInv'
  <2>1. /\ UNCHANGED <<rows, records>> /\ pc = "hunt" /\ kept' = {}
        /\ pc' \in {"idle", "enter"}
    BY <1>4, ProceedStage
       DEF EntryDropsLeg, EntryLegWaits, TakeSignal, bookVars, LegInv
  <2>2. PlanKept
    BY <1>4, DropPendingLegKeeps DEF EntryDropsLeg, EntryLegWaits, planVars, PlanKept
  <2> QED
    BY <2>1, <2>2, SameBookStage DEF LegInv, LegBook
<1>5. ASSUME NEW s \in Signals, EntryLegDue(s)
      PROVE  LegInv'
  <2>1. /\ UNCHANGED <<rows, records, plan>> /\ kept' = {} /\ pc' = "huntOrder"
        /\ HasActivePlan
    BY <1>5 DEF EntryLegDue, TakeSignal, GoTo, planVars, bookVars, LegInv, StageInv
  <2>2. LegBook'
    BY <2>1, SameBook DEF PlanKept, LegInv, LegBook
  <2> QED
    BY <2>1, <2>2 DEF LegInv, LegBook, StageInv, HasActivePlan
<1>6. ASSUME NEW i \in Id, EntryFiresLeg(i)
      PROVE  LegInv'
  <2>1. ExecuteLeg(i) /\ HasActivePlan /\ kept' = {} /\ pc' \in {"idle", "enter"}
    BY <1>6, ProceedStage DEF EntryFiresLeg, LegInv, StageInv
  <2>2. LegBook' /\ \A j \in records' : rows'[j].st # "none"
    BY <2>1, ExecuteLegLegs DEF LegInv, LegBook
  <2> QED
    BY <2>1, <2>2 DEF LegInv, LegBook, StageInv
<1>7. CASE EntryLegRejected
  <2>1. UNCHANGED <<rows, records, plan>> /\ kept' = {} /\ pc' \in {"idle", "enter"}
    BY <1>7, ProceedStage DEF EntryLegRejected, planVars, bookVars, LegInv
  <2> QED
    BY <2>1, SameBookStage DEF PlanKept, LegInv, LegBook
<1>8. ASSUME NEW i \in Id, EntryFilled(i)
      PROVE  LegInv'
  <2>1. PICK e \in Tenors :
          LogEntry(i, OpenRow(signal, "none", FALSE, 0, day, day + e))
    BY <1>8 DEF EntryFilled
  <2>2. /\ rows[i].st = "none"
        /\ rows'[i] = OpenRow(signal, "none", FALSE, 0, day, day + e)
        /\ \A j \in Id \ {i} : rows'[j] = rows[j]
    BY <2>1, LogEntryRows DEF TypeOK
  <2>3. rows'[i].kind \notin LegKinds /\ rows'[i].st = "open"
    BY <2>2 DEF OpenRow, TypeOK, LegKinds
  <2>4. records' = {i} /\ plan' = plan /\ pc' = "idle" /\ kept' = {}
    BY <1>8 DEF EntryFilled, SetOpenPosition, EndTick, Reset, planVars
  <2>5. OpenLegs' \subseteq OpenLegs /\ LegRecords' = {}
    BY <2>2, <2>3, <2>4 DEF OpenLegs, OpenRows, LegRecords
  <2>6. \A j \in Legs : rows'[j].side = rows[j].side
    <3>1. i \notin Legs /\ Legs \subseteq Id
      BY <2>2 DEF LegInv, StageInv, Legs, OpenLegs, OpenRows, LegRecords, TypeOK
    <3> QED
      BY <2>2, <3>1
  <2>7. LegBook'
    BY <2>4, <2>5, <2>6, LegsShrink DEF PlanKept, LegInv, LegBook
  <2> QED
    BY <2>3, <2>4, <2>7 DEF LegInv, LegBook, StageInv
<1>9. CASE EntryRejected
  BY <1>9, SameBookStage
     DEF EntryRejected, EndTick, Reset, planVars, bookVars, PlanKept, LegInv, LegBook
<1> QED
  BY <1>1, <1>3, <1>4, <1>5, <1>6, <1>8, <1>9, <1>2, <1>7 DEF EntryStep

LEMMA LegsOther ==
  ASSUME TypeOK, LegInv, TickAborted \/ Crash \/ Start \/ Advance
  PROVE  LegInv'
<1>1. CASE TickAborted
  BY <1>1, SameBookStage
     DEF TickAborted, Reset, planVars, bookVars, PlanKept, LegInv, LegBook
<1>2. CASE Crash
  <2>1. /\ rows' = rows /\ records' = {} /\ PlanKept /\ kept' = {} /\ pc' = "idle"
    BY <1>2 DEF Crash, Reset, PlanKept, NoPlan
  <2>2. OpenLegs' = OpenLegs /\ LegRecords' = {}
    BY <2>1 DEF OpenLegs, OpenRows, LegRecords
  <2>3. LegBook'
    BY <2>1, <2>2, LegsShrink DEF LegInv, LegBook
  <2> QED
    BY <2>1, <2>3 DEF LegInv, LegBook, StageInv
<1>3. CASE Start
  <2>1. /\ rows' = [i \in Id |-> IF i \in Expired(day)
                                 THEN [rows[i] EXCEPT !.st = "closed"] ELSE rows[i]]
        /\ records' = OpenRows \ Expired(day)
        /\ plan' = plan /\ kept' = {} /\ pc' = "idle"
    BY <1>3 DEF Start, RecoverOpenPosition, Reset, planVars
  <2>2. \A i \in Id : [rows[i] EXCEPT !.st = "closed"].st = "closed"
                      /\ [rows[i] EXCEPT !.st = "closed"].side = rows[i].side
                      /\ [rows[i] EXCEPT !.st = "closed"].kind = rows[i].kind
    <3>1. \A i \in Id : rows[i] \in Row
      BY DEF TypeOK
    <3> QED
      BY <3>1 DEF Row
  <2>3. /\ \A i \in Id : rows'[i].side = rows[i].side /\ rows'[i].kind = rows[i].kind
        /\ \A i \in Id : rows'[i].st = "open" => rows[i].st = "open"
        /\ \A i \in records' : rows'[i].st # "none"
    BY <2>1, <2>2 DEF OpenRows
  <2>4. OpenLegs' \subseteq OpenLegs /\ LegRecords' \subseteq OpenLegs
    BY <2>1, <2>3 DEF OpenLegs, OpenRows, LegRecords
  <2>5. LegBook'
    <3>1. Legs \subseteq Id
      BY DEF Legs, OpenLegs, OpenRows, LegRecords, TypeOK
    <3> QED
      BY <2>1, <2>3, <2>4, <3>1, LegsShrink DEF PlanKept, LegInv, LegBook
  <2> QED
    BY <2>1, <2>3, <2>5 DEF LegInv, LegBook, StageInv
<1>4. CASE Advance
  <2>1. UNCHANGED <<plan, rows, records, pc, todo, kept, roll>>
    BY <1>4 DEF Advance, planVars, bookVars
  <2> QED
    BY <2>1 DEF LegInv, OneLegPerSide, OneRecordPerSide, PlanMatchesLegs, StageInv,
       Leg2Pending, HasActivePlan, Legs, OpenLegs, OpenRows, LegRecords
<1> QED
  BY <1>1, <1>2, <1>3, <1>4

-----------------------------------------------------------------------------
IInv == TypeOK /\ LegInv

LEMMA InitLegs == Init => LegInv
BY DEF Init, PlanInit, NoPlan, BookInit, NoRow, IdleTick, LegInv, OneLegPerSide,
       OneRecordPerSide, PlanMatchesLegs, StageInv, Legs, OpenLegs, OpenRows, LegRecords

LEMMA LegsStep == IInv /\ [Next]_vars => LegInv'
<1> SUFFICES ASSUME TypeOK, LegInv, [Next]_vars PROVE LegInv'
  BY DEF IInv
<1>1. CASE UNCHANGED vars
  BY <1>1 DEF vars, planVars, bookVars, haltVars, clockVars, procVars, tickVars, LegInv,
     OneLegPerSide, OneRecordPerSide, PlanMatchesLegs, StageInv, Leg2Pending, HasActivePlan, Legs,
     OpenLegs, OpenRows, LegRecords
<1>2. CASE Next
  BY <1>2, LegsHead, LegsFlatten, LegsManage, LegsLeg, LegsRoll, LegsEntry, LegsOther
     DEF Next, LoopStep, FaultStep
<1> QED
  BY <1>1, <1>2

LEMMA Inductive == Spec => []IInv
<1>1. Init => IInv
  BY InitType, InitLegs DEF IInv
<1>2. IInv /\ [Next]_vars => IInv'
  BY TypeStep, LegsStep DEF IInv, LegInv
<1> QED
  BY <1>1, <1>2, PTL DEF Spec

\* Every variable of the loop keeps its type, through crashes, restarts, failed
\* writes and rolls (main.py's loop over the trades table).
THEOREM TypeCorrect == Spec => []TypeOK
<1>1. IInv => TypeOK
  BY DEF IInv
<1> QED
  BY <1>1, Inductive, PTL

\* The strengthened invariant the runs check: legs in the table and in the
\* manager's list, the plan and the stage of the tick agree on which sides are
\* taken (main.py, position_manager.py, iron_condor_strategy.py).
THEOREM LegsAgree == Spec => []LegInv
<1>1. IInv => LegInv
  BY DEF IInv
<1> QED
  BY <1>1, Inductive, PTL

\* A condor never has two open verticals on one side, whatever the number of
\* rows, days, restarts and failures (README.md:57, the tracked-legs rule).
THEOREM NoDoubledSide == Spec => []OneLegPerSide
<1>1. IInv => OneLegPerSide
  BY DEF IInv, LegInv
<1> QED
  BY <1>1, Inductive, PTL

\* A plan that waits for a leg never contradicts the table: a decided plan
\* has no leg open, a plan with Leg 1 has nothing on the side it waits for
\* (notify_leg_filled and check_leg_triggers of iron_condor_strategy.py).
THEOREM PlanAndBookAgree == Spec => []PlanMatchesBook
<1>1. IInv => PlanMatchesBook
  BY DEF IInv, LegInv, PlanMatchesLegs, PlanMatchesBook, Legs
<1> QED
  BY <1>1, Inductive, PTL

=============================================================================
