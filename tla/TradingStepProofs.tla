-------------------------- MODULE TradingStepProofs --------------------------
(***************************************************************************)
(* Proofs about the steps of TradingLoop: when a row is opened, that it is *)
(* booked once, what is opened against the halt, and that the loop         *)
(* implements CondorStructure.                                             *)
(***************************************************************************)
EXTENDS TradingBookProofs

-----------------------------------------------------------------------------
(* The hours.  A Leg 2 may fire before 9:35 only for a plan that survived the *)
(* night next to a position: every tick after 14:00 with a position drops it. *)
(* A boundary may pass under a tick, but no second one before the tick ends.  *)

\* The last tick at which a pending Leg 2 can be dropped is over, and no new
\* entry has become possible since.
Over == slot \notin Morning..Afternoon \/ (slot = Afternoon /\ ticked)

BookHours == plan.state = "LEG1_FILLED" /\ Over => records = {} /\ OpenRows = {}

RollStages == {"roll", "rollOpen", "rollFlag"}

StageHours ==
  /\ late => pc # "idle" /\ ~ticked
  /\ pc # "idle" => up /\ IsRth(TickSlot)
  /\ pc = "flatten" => TickSlot >= Closing
  /\ pc \notin {"idle", "flatten"} => TickSlot < Closing
  /\ pc \in {"hunt", "huntOrder", "enter"} => slot >= Morning /\ TickSlot <= Noon
  /\ ~up => plan.state # "LEG1_FILLED"
  /\ pc \in {"manage", "leg", "legOrder"} \cup RollStages /\ plan.state = "LEG1_FILLED"
       => TickSlot \in Morning..Afternoon
  /\ pc = "legOrder" => TickSlot <= Noon
  /\ pc \in RollStages /\ plan.state = "LEG1_FILLED" => TickSlot # Afternoon

HoursInv == BookHours /\ StageHours

\* A step that enters no row.
Quiet == RowsKept /\ records' \subseteq records \cup OpenRows

LEMMA QuietHours ==
  ASSUME TypeOK, BookHours, Quiet, PlanStays, slot' = slot,
         \/ ticked' => ticked
         \/ slot # Afternoon
         \/ plan'.state # "LEG1_FILLED"
         \/ records = {} /\ OpenRows = {}
  PROVE  BookHours'
<1>1. OpenRows' \subseteq OpenRows
  BY DEF Quiet, RowsKept, OpenRows
<1>2. records = {} /\ OpenRows = {} => records' = {} /\ OpenRows' = {}
  BY <1>1 DEF Quiet
<1>3. ASSUME plan'.state = "LEG1_FILLED", Over'
      PROVE  plan.state = "LEG1_FILLED" /\ (Over \/ (records = {} /\ OpenRows = {}))
  BY <1>3 DEF PlanStays, Over
<1> QED
  BY <1>2, <1>3 DEF BookHours

\* What EndTick and GoTo do to the clock.
LEMMA TickEnds ==
  ASSUME TypeOK, HoursInv, EndTick
  PROVE  /\ slot' = slot /\ pc' = "idle" /\ late' = FALSE
         /\ ticked' => slot = TickSlot
BY DEF EndTick, Reset, TickSlot, TypeOK

LEMMA TickGoes ==
  ASSUME NEW stage, GoTo(stage)
  PROVE  /\ slot' = slot /\ pc' = stage /\ late' = late /\ ticked' = ticked
         /\ TickSlot' = TickSlot /\ day' = day
BY DEF GoTo, clockVars, TickSlot

LEMMA IdleHours ==
  ASSUME HoursInv, pc' = "idle", late' = FALSE,
         ~up' => plan'.state # "LEG1_FILLED"
  PROVE  StageHours'
BY DEF StageHours, RollStages

LEMMA HoursHead ==
  ASSUME TypeOK, HoursInv, TickHead
  PROVE  HoursInv' /\ Quiet
<1>1. Quiet /\ PlanStays
  <2>1. rows' = rows /\ records' \subseteq records \cup OpenRows
    BY DEF TickHead, ClosedTick, BeginHardClose, BeginTick, OpenTick, Reloaded, bookVars
  <2> QED
    BY <2>1, SameKeepsRows
       DEF TickHead, ClosedTick, BeginHardClose, BeginTick, planVars, PlanStays, Quiet
<1>2. late = FALSE /\ TickSlot = slot
  BY DEF TickHead, ClosedTick, BeginHardClose, BeginTick, OpenTick, HoursInv, StageHours,
     TickSlot, TypeOK
<1>3. CASE ClosedTick
  <2>1. slot' = slot /\ slot # Afternoon /\ pc' = "idle" /\ late' = FALSE /\ up'
    BY <1>3, TickEnds DEF ClosedTick, IsRth, Forming, Closing, Afternoon
  <2> QED
    BY <1>1, <2>1, QuietHours, IdleHours DEF HoursInv
<1>4. CASE BeginHardClose
  <2>1. /\ slot' = slot /\ ticked' = ticked /\ late' = late /\ TickSlot' = TickSlot
        /\ pc' = "flatten" /\ up' /\ IsRth(slot) /\ slot >= Closing
    BY <1>4, TickGoes DEF BeginHardClose, OpenTick, IsHardCloseTime
  <2> QED
    BY <1>1, <1>2, <2>1, QuietHours DEF HoursInv, StageHours, RollStages
<1>5. CASE BeginTick
  <2>1. /\ slot' = slot /\ ticked' = ticked /\ late' = late /\ TickSlot' = TickSlot
        /\ up /\ up' /\ plan' = plan /\ IsRth(slot) /\ ~(slot >= Closing)
        /\ pc' = IF Reloaded = {} THEN "entry" ELSE "manage"
    BY <1>5, TickGoes DEF BeginTick, OpenTick, IsHardCloseTime
  <2>2. slot < Closing
    BY <2>1 DEF TypeOK, Slots, PreOpen, AfterHours, Closing
  <2>3. pc' = "manage" /\ plan.state = "LEG1_FILLED" => slot \in Morning..Afternoon
    BY <2>1 DEF HoursInv, BookHours, Over, Reloaded
  <2> QED
    BY <1>1, <1>2, <2>1, <2>2, <2>3, QuietHours DEF HoursInv, StageHours, RollStages
<1> QED
  BY <1>1, <1>3, <1>4, <1>5 DEF TickHead

LEMMA HoursPass ==
  ASSUME TypeOK, StageInv, HoursInv,
         FlattenStep \/ ManageStep \/ \E r \in todo : FlattenFailed(r)
  PROVE  HoursInv' /\ Quiet
<1>1. ASSUME NEW r \in todo, NEW p \in Pnls, FlattenOne(r, p) \/ ManageExit(r, p)
      PROVE  Quiet
  BY <1>1, ExitKeepsRows DEF FlattenOne, ManageExit, RemoveRecord, Quiet, TypeOK
<1>2. ASSUME \/ \E r \in todo : FlattenFailed(r) \/ ManageKeep(r)
             \/ FlattenDone \/ ManageDone
      PROVE  Quiet
  BY <1>2, SameKeepsRows
     DEF FlattenFailed, ManageKeep, FlattenDone, ManageDone, bookVars, StageInv, Quiet
<1>3. Quiet
  BY <1>1, <1>2 DEF FlattenStep, ManageStep
<1>4. plan' = plan /\ slot' = slot /\ up' = up
  BY DEF FlattenStep, ManageStep, FlattenOne, FlattenFailed, FlattenDone, ManageKeep,
     ManageExit, ManageDone, EndTick, GoTo, clockVars, planVars, procVars
<1>5. \/ /\ \/ pc = "flatten" /\ pc' = "flatten"
            \/ pc = "manage" /\ pc' \in {"manage", "leg"}
         /\ late' = late /\ ticked' = ticked /\ TickSlot' = TickSlot
      \/ /\ pc = "flatten" /\ pc' = "idle" /\ late' = FALSE
         /\ ticked' => slot = TickSlot
  <2>1. CASE FlattenDone
    BY <2>1, TickEnds DEF FlattenDone
  <2>2. ~FlattenDone /\ (FlattenStep \/ \E r \in todo : FlattenFailed(r))
          => pc = "flatten" /\ GoTo("flatten")
    BY DEF FlattenStep, FlattenOne, FlattenFailed
  <2>3. ManageStep => pc = "manage" /\ (GoTo("manage") \/ GoTo("leg"))
    BY DEF ManageStep, ManageKeep, ManageExit, ManageDone
  <2>4. \A stage : GoTo(stage) => /\ pc' = stage /\ late' = late /\ ticked' = ticked
                                  /\ TickSlot' = TickSlot
    BY TickGoes
  <2>5. CASE ~FlattenDone /\ (FlattenStep \/ \E r \in todo : FlattenFailed(r))
    BY <2>2, <2>4, <2>5
  <2>6. CASE ManageStep
    BY <2>3, <2>4, <2>6
  <2> QED
    BY <2>1, <2>5, <2>6
<1>6. (ticked' => ticked) \/ slot # Afternoon
  BY <1>5 DEF HoursInv, StageHours, Closing, Afternoon
<1>7. BookHours'
  BY <1>3, <1>4, <1>6, QuietHours DEF PlanStays, HoursInv
<1>8. pc' = "idle" => StageHours'
  BY <1>4, <1>5, IdleHours DEF HoursInv, StageHours
<1> QED
  BY <1>3, <1>4, <1>5, <1>7, <1>8 DEF HoursInv, StageHours, RollStages

LEMMA DropEnds ==
  ASSUME TypeOK, DropPendingLeg, plan.state = "LEG1_FILLED"
  PROVE  plan'.state = "COMPLETE"
BY DEF DropPendingLeg, TypeOK, PlanType

LEMMA HoursLeg ==
  ASSUME TypeOK, StageInv, HoursInv, LegStep
  PROVE  /\ HoursInv'
         /\ \/ Quiet
            \/ \E i \in Id : LegFires(i) /\ Morning <= slot /\ TickSlot <= Noon
<1>1. /\ slot' = slot /\ ticked' = ticked /\ late' = late /\ TickSlot' = TickSlot /\ up' = up
      /\ \/ pc = "leg" /\ pc' = "roll" /\ (LegDropped \/ LegWaits)
         \/ pc = "leg" /\ pc' = "legOrder" /\ LegDue
         \/ pc = "legOrder" /\ pc' = "roll" /\ (LegRejected \/ \E i \in Id : LegFires(i))
  BY TickGoes
     DEF LegStep, LegDropped, LegDue, LegFires, LegWaits, LegRejected, procVars
<1>2. TickSlot \in Int /\ slot \in Int /\ TickSlot <= slot
  BY DEF TickSlot, TypeOK, Slots
<1>3. CASE LegDropped \/ LegDue \/ LegWaits \/ LegRejected
  <2>1. Quiet /\ PlanStays
    BY <1>3, SameKeepsRows, DropStays
       DEF LegDropped, LegDue, LegWaits, LegRejected, bookVars, planVars, Quiet, PlanStays
  <2>2. BookHours'
    BY <1>1, <2>1, QuietHours DEF HoursInv
  <2>3. plan'.state = "LEG1_FILLED" => plan' = plan /\ TickSlot <= Noon
    <3>1. CASE LegDropped
      BY <3>1, DropEnds DEF LegDropped, Leg2Pending
    <3>2. CASE LegWaits \/ LegDue
      BY <1>2, <3>2 DEF LegWaits, LegDue, LegTriggered, Leg2Pending, PendingLegDropped,
         IsPastEntryCutoff, planVars, Noon, Afternoon, HoursInv, StageHours, TickSlot, TypeOK
    <3>3. CASE LegRejected
      BY <3>3 DEF LegRejected, planVars, HoursInv, StageHours
    <3> QED
      BY <1>3, <3>1, <3>2, <3>3
  <2>4. LegDue => plan'.state = "LEG1_FILLED"
    BY DEF LegDue, Leg2Pending, planVars
  <2>5. \/ pc = "leg" /\ pc' = "legOrder" /\ plan'.state = "LEG1_FILLED"
        \/ pc \in {"leg", "legOrder"} /\ pc' = "roll"
    BY <1>1, <2>4
  <2> QED
    BY <1>1, <2>1, <2>2, <2>3, <2>5
       DEF HoursInv, StageHours, RollStages, Noon, Afternoon
<1>4. ASSUME NEW i \in Id, LegFires(i)
      PROVE  HoursInv' /\ Morning <= slot /\ TickSlot <= Noon
  <2>1. plan'.state = "COMPLETE" /\ plan.state = "LEG1_FILLED"
        /\ pc = "legOrder" /\ pc' = "roll"
    BY <1>4, TickGoes DEF LegFires, StageInv, Leg2Pending, ExecuteLeg, NotifyLegFilled,
       TypeOK, PlanType
  <2>2. Morning <= TickSlot /\ TickSlot <= Noon
    BY <2>1 DEF HoursInv, StageHours
  <2>3. Morning <= slot
    BY <1>2, <2>2 DEF Morning
  <2> QED
    BY <1>1, <2>1, <2>2, <2>3 DEF HoursInv, StageHours, BookHours, RollStages
<1> QED
  BY <1>3, <1>4 DEF LegStep

LEMMA HoursRoll ==
  ASSUME TypeOK, StageInv, HoursInv, RollStep
  PROVE  HoursInv' /\ (Quiet \/ \E i \in Id : RollOpen(i))
<1>1. /\ pc \in RollStages /\ slot' = slot /\ up' = up /\ plan' = plan
      /\ \/ /\ pc' \in RollStages /\ late' = late /\ ticked' = ticked /\ TickSlot' = TickSlot
         \/ /\ pc' = "idle" /\ late' = FALSE /\ (ticked' => slot = TickSlot)
  BY TickEnds, TickGoes
     DEF RollStep, RollClose, RollOpen, RollFlag, RollEnds, procVars, planVars, RollStages
<1>2. StageHours'
  <2>1. pc' = "idle" => StageHours'
    BY <1>1, IdleHours DEF HoursInv, StageHours, RollStages
  <2> QED
    BY <1>1, <2>1 DEF HoursInv, StageHours, RollStages
<1>3. ASSUME NEW tested \in records, NEW from \in records, NEW p \in Pnls,
             RollClose(tested, from, p)
      PROVE  Quiet
  BY <1>3, ExitKeepsRows DEF RollClose, RemoveRecord, Quiet, TypeOK
<1>4. RollFlag => Quiet
  BY RollFlagRows DEF RollFlag, Quiet, RowsKept
<1>5. RollEnds => Quiet
  BY SameKeepsRows DEF RollEnds, bookVars, Quiet
<1>6. Quiet => BookHours'
  <2>1. (ticked' => ticked) \/ slot # Afternoon \/ plan'.state # "LEG1_FILLED"
    BY <1>1 DEF HoursInv, StageHours
  <2> QED
    BY <1>1, <2>1, QuietHours DEF PlanStays, HoursInv
<1>7. (\E i \in Id : RollOpen(i)) => BookHours'
  BY <1>1 DEF RollOpen, StageInv, HasActivePlan, BookHours
<1> QED
  BY <1>2, <1>3, <1>4, <1>5, <1>6, <1>7 DEF RollStep, HoursInv

LEMMA ProceedHours ==
  ASSUME TypeOK, HoursInv, NEW s, Proceed(s)
  PROVE  /\ slot' = slot
         /\ \/ /\ pc' = "idle" /\ late' = FALSE /\ (ticked' => slot = TickSlot)
            \/ /\ pc' = "enter" /\ late' = late /\ ticked' = ticked /\ TickSlot' = TickSlot
BY TickEnds, TickGoes DEF Proceed

LEMMA HoursEntry ==
  ASSUME TypeOK, StageInv, HoursInv, EntryStep
  PROVE  /\ HoursInv'
         /\ \/ Quiet
            \/ /\ Morning <= slot /\ TickSlot <= Noon
               /\ \E i \in Id : EntryFilled(i) \/ EntryFiresLeg(i)
<1>1. CASE EntryRefused
  <2>1. Quiet /\ plan' = plan
    BY <1>1, SameKeepsRows DEF EntryRefused, bookVars, planVars, Quiet
  <2>2. slot' = slot /\ up' /\ pc' = "idle" /\ late' = FALSE /\ records = {} /\ OpenRows = {}
    BY <1>1, TickEnds DEF EntryRefused, procVars, StageInv, HoursInv, StageHours
  <2> QED
    BY <2>1, <2>2, QuietHours, IdleHours DEF PlanStays, HoursInv
\* Everything else happens in a tick that the gate has let pass.
<1>2. slot \in Slots /\ TickSlot = IF late THEN slot - 1 ELSE slot
  BY DEF TickSlot, TypeOK
<1>3. ASSUME Morning <= slot, TickSlot <= Noon, slot' = slot, up, up' = up,
             \/ /\ pc' = "idle" /\ late' = FALSE /\ (ticked' => slot = TickSlot)
             \/ /\ pc' \in {"hunt", "huntOrder", "enter"} /\ IsRth(TickSlot)
                /\ late' = late /\ ticked' = ticked /\ TickSlot' = TickSlot
      PROVE  HoursInv'
  <2>1. TickSlot < Closing
    BY <1>2, <1>3 DEF Noon, Closing, Slots, PreOpen, AfterHours
  <2>2. StageHours'
    <3>1. pc' = "idle" => StageHours'
      BY <1>3, IdleHours
    <3> QED
      BY <1>3, <2>1, <3>1 DEF HoursInv, StageHours, RollStages
  <2>3. ~(ticked' /\ slot = Afternoon)
    BY <1>2, <1>3 DEF HoursInv, StageHours, Slots, PreOpen, AfterHours, Noon, Afternoon, TypeOK
  <2>4. ~Over'
    BY <1>2, <1>3, <2>3 DEF Over, Slots, PreOpen, AfterHours, Morning, Noon, Afternoon
  <2> QED
    BY <2>2, <2>4 DEF HoursInv, BookHours
<1>4. CASE EntryAllowed
  <2>1. Quiet
    BY <1>4, SameKeepsRows DEF EntryAllowed, bookVars, Quiet
  <2>2. Morning <= slot /\ slot <= Noon
    BY <1>4 DEF EntryAllowed, CanEnter, IsPastEntryCutoff, TypeOK, Slots, PreOpen, Morning,
       Noon, Afternoon, AfterHours
  <2>3. TickSlot <= Noon
    BY <1>2, <2>2 DEF Noon, Slots, PreOpen, AfterHours
  <2> QED
    BY <1>3, <1>4, <2>1, <2>2, <2>3, TickGoes
       DEF EntryAllowed, procVars, HoursInv, StageHours
<1>5. ASSUME pc \in {"hunt", "huntOrder", "enter"}
      PROVE  Morning <= slot /\ TickSlot <= Noon /\ up /\ IsRth(TickSlot)
  BY <1>5 DEF HoursInv, StageHours
<1>6. ASSUME NEW s \in Signals, NEW side \in Sides \cup {"none"}, EntryDecides(s, side)
      PROVE  HoursInv' /\ Quiet
  BY <1>3, <1>5, <1>6, ProceedHours, SameKeepsRows DEF EntryDecides, TakeSignal, bookVars, Quiet
<1>7. ASSUME NEW s \in Signals, EntryDropsLeg(s) \/ EntryLegWaits(s)
      PROVE  HoursInv' /\ Quiet
  BY <1>3, <1>5, <1>7, ProceedHours, SameKeepsRows
     DEF EntryDropsLeg, EntryLegWaits, TakeSignal, bookVars, Quiet
<1>8. ASSUME NEW s \in Signals, EntryLegDue(s)
      PROVE  HoursInv' /\ Quiet
  BY <1>3, <1>5, <1>8, TickGoes, SameKeepsRows DEF EntryLegDue, TakeSignal, bookVars, Quiet
<1>9. ASSUME EntryLegRejected \/ \E i \in Id : EntryFiresLeg(i)
      PROVE  /\ HoursInv' /\ Morning <= slot /\ TickSlot <= Noon
             /\ EntryLegRejected => Quiet
  <2>1. pc = "huntOrder" /\ Proceed(signal) /\ up' = up
    BY <1>9 DEF EntryLegRejected, EntryFiresLeg, procVars
  <2>2. EntryLegRejected => Quiet
    BY SameKeepsRows DEF EntryLegRejected, bookVars, Quiet
  <2> QED
    BY <1>3, <1>5, <2>1, <2>2, ProceedHours
<1>10. ASSUME EntryRejected \/ \E i \in Id : EntryFilled(i)
       PROVE  /\ HoursInv' /\ Morning <= slot /\ TickSlot <= Noon
              /\ EntryRejected => Quiet
  <2>1. pc = "enter" /\ EndTick /\ up' = up
    BY <1>10 DEF EntryRejected, EntryFilled, procVars
  <2>2. EntryRejected => Quiet
    BY SameKeepsRows DEF EntryRejected, bookVars, Quiet
  <2> QED
    BY <1>3, <1>5, <2>1, <2>2, TickEnds
<1> QED
  BY <1>1, <1>4, <1>6, <1>7, <1>8, <1>9, <1>10 DEF EntryStep

LEMMA HoursOther ==
  ASSUME TypeOK, StageInv, HoursInv, TickAborted \/ Crash \/ Start \/ Advance
  PROVE  HoursInv' /\ Quiet
<1>1. CASE TickAborted
  <2>1. Quiet /\ plan' = plan
    BY <1>1, SameKeepsRows DEF TickAborted, bookVars, planVars, Quiet
  <2>2. slot' = slot /\ ticked' = ticked /\ up' = up /\ pc' = "idle" /\ late' = FALSE
    BY <1>1 DEF TickAborted, Reset, clockVars, procVars
  <2> QED
    BY <2>1, <2>2, QuietHours, IdleHours DEF PlanStays, HoursInv, StageHours
<1>2. CASE Crash
  <2>1. Quiet
    BY <1>2, SameKeepsRows DEF Crash, Quiet
  <2>2. pc' = "idle" /\ late' = FALSE /\ plan'.state # "LEG1_FILLED"
    BY <1>2 DEF Crash, Reset, NoPlan
  <2> QED
    BY <2>1, <2>2, IdleHours DEF HoursInv, BookHours
<1>3. CASE Start
  <2>1. Quiet
    BY <1>3, StartRows DEF Start, RecoverOpenPosition, Quiet, RowsKept
  <2>2. pc' = "idle" /\ late' = FALSE /\ up' /\ plan' = plan /\ plan.state # "LEG1_FILLED"
    BY <1>3 DEF Start, Reset, planVars, HoursInv, StageHours
  <2> QED
    BY <2>1, <2>2, IdleHours DEF HoursInv, BookHours
<1>4. CASE Advance
  <2>1. UNCHANGED <<rows, records, plan, up, pc>> /\ ticked' = FALSE /\ late' = (pc # "idle")
    BY <1>4 DEF Advance, planVars, bookVars, procVars
  <2>2. Quiet
    BY <2>1, SameKeepsRows DEF Quiet
  <2>3. ASSUME plan.state = "LEG1_FILLED", Over'
        PROVE  Over
    <3>1. ticked
      BY <1>4, <2>3 DEF Advance, HoursInv, StageHours
    <3>2. slot \in Slots /\ ticked' = FALSE /\ (slot' = slot + 1 \/ slot = AfterHours)
      BY <1>4 DEF Advance, TypeOK
    <3> QED
      BY <2>3, <3>1, <3>2 DEF Over, Slots, PreOpen, Morning, Afternoon, AfterHours
  <2>4. BookHours'
    BY <2>1, <2>3 DEF HoursInv, BookHours, OpenRows
  \* The tick that a boundary overtakes had not been overtaken before.
  <2>5. pc # "idle" => TickSlot = slot /\ slot' = slot + 1 /\ TickSlot' = slot
    <3>1. ASSUME pc # "idle"
          PROVE  ticked /\ late = FALSE /\ IsRth(slot)
      BY <1>4, <3>1 DEF Advance, HoursInv, StageHours, TickSlot, TypeOK
    <3>2. ASSUME pc # "idle"
          PROVE  slot' = slot + 1
      BY <1>4, <3>1, <3>2 DEF Advance, IsRth, Forming, Closing, AfterHours
    <3>3. ASSUME pc # "idle"
          PROVE  TickSlot = slot /\ TickSlot' = slot' - 1 /\ slot \in Int
      <4>1. late' /\ ~late
        BY <2>1, <3>1, <3>3
      <4> QED
        BY <4>1 DEF TickSlot, TypeOK, Slots
    <3> QED
      BY <3>2, <3>3
  <2>6. pc \in {"hunt", "huntOrder", "enter"} => slot' >= Morning
    BY <2>5 DEF HoursInv, StageHours, TypeOK, Slots, PreOpen, AfterHours, Morning
  <2> QED
    BY <2>1, <2>2, <2>4, <2>5, <2>6 DEF HoursInv, StageHours, RollStages
<1> QED
  BY <1>1, <1>2, <1>3, <1>4

\* The steps that open a row, and when.
LEMMA HoursStep ==
  ASSUME IInv, HoursInv, Next
  PROVE  /\ HoursInv'
         /\ \/ Quiet
            \/ \E i \in Id : RollOpen(i)
            \/ Morning <= slot /\ TickSlot <= Noon
<1> TypeOK /\ StageInv
  BY DEF IInv, LegInv
<1> QED
  BY HoursHead, HoursPass, HoursLeg, HoursRoll, HoursEntry, HoursOther
     DEF Next, LoopStep, FaultStep

LEMMA HoursStutter ==
  ASSUME HoursInv, UNCHANGED vars
  PROVE  HoursInv'
<1>1. UNCHANGED <<rows, records, plan, up, pc, slot, ticked, late>>
  BY DEF vars, planVars, bookVars, clockVars, procVars, tickVars
<1> QED
  BY <1>1 DEF HoursInv, BookHours, StageHours, Over, RollStages, OpenRows, TickSlot

LEMMA HoursInductive == Spec => []HoursInv
<1>1. Init => HoursInv
  BY DEF Init, PlanInit, NoPlan, IdleTick, HoursInv, BookHours, StageHours, RollStages
<1>2. IInv /\ HoursInv /\ [Next]_vars => HoursInv'
  BY HoursStep, HoursStutter
<1> QED
  BY <1>1, <1>2, Inductive, PTL DEF Spec

LEMMA OpenedInHours ==
  ASSUME IInv, HoursInv, Next, NEW i \in Id, Opened(i)
  PROVE  IF rows'[i].kind = "roll" THEN TickSlot < Closing
                                   ELSE Morning <= slot /\ TickSlot <= Noon
<1>1. ~Quiet
  BY DEF Opened, Quiet, RowsKept
<1>2. ASSUME NEW k \in Id, RollOpen(k)
      PROVE  rows'[i].kind = "roll" /\ TickSlot < Closing
  <2>1. rows'[k].kind = "roll" /\ \A j \in Id \ {k} : rows'[j] = rows[j]
    BY <1>2, LogEntryRows DEF RollOpen, OpenRow, IInv, TypeOK
  <2>2. TickSlot < Closing
    BY <1>2 DEF RollOpen, HoursInv, StageHours
  <2> QED
    BY <2>1, <2>2 DEF Opened
<1>3. TickSlot <= Noon => TickSlot < Closing
  BY DEF TickSlot, IInv, TypeOK, Slots, PreOpen, AfterHours, Noon, Closing
<1> QED
  BY <1>1, <1>2, <1>3, HoursStep

\* No row is opened before 9:35, none by a tick that began at or after 14:00,
\* and no rolled vertical by one that began at or after 15:45, also by a plan or
\* with a position that survived the night; only the order of the very tick a
\* cutoff overtakes may follow it (SessionGuard.can_enter; the Leg 2 path and
\* the roll of main.py do not ask it).
THEOREM EntriesInHours == Spec => EntryWindow
<1> DEFINE Window ==
      \A i \in Id : Opened(i) =>
        IF rows'[i].kind = "roll" THEN TickSlot < Closing
                                  ELSE Morning <= slot /\ TickSlot <= Noon
<1>1. IInv /\ HoursInv /\ [Next]_vars => [Window]_vars
  BY OpenedInHours
<1> QED
  BY <1>1, Inductive, HoursInductive, PTL DEF Spec, EntryWindow

-----------------------------------------------------------------------------
(* The results.  A row is closed once because the list holds nothing closed   *)
(* when a pass over it starts: only a failed write leaves a pass early.       *)

BookedInv ==
  /\ pc # "manage" => records \subseteq OpenRows
  /\ pc = "manage" => todo \cup kept \subseteq OpenRows /\ todo \cap kept = {}
  /\ pc = "flatten" => todo \subseteq records
  /\ pc \in {"rollOpen", "rollFlag"} => roll.tested \in OpenRows

ClosedKept == \A i \in Id : rows[i].st = "closed" => rows'[i] = rows[i]

LEMMA SameKeepsClosed == UNCHANGED rows => ClosedKept /\ OpenRows' = OpenRows
BY DEF ClosedKept, OpenRows

LEMMA ExitOpen ==
  ASSUME rows \in [Id -> Row], NEW r \in OpenRows, NEW p, LogExit(r, p)
  PROVE  ClosedKept /\ OpenRows' = OpenRows \ {r}
<1>1. r \in Id /\ rows[r] \in Row /\ rows[r].st = "open"
  BY DEF OpenRows
<1>2. rows'[r].st = "closed" /\ \A j \in Id \ {r} : rows'[j] = rows[j]
  BY <1>1 DEF LogExit, Row
<1> QED
  BY <1>1, <1>2 DEF ClosedKept, OpenRows

LEMMA EntryOpens ==
  ASSUME rows \in [Id -> Row], NEW i \in Id, NEW r, LogEntry(i, r), r.st = "open"
  PROVE  ClosedKept /\ OpenRows' = OpenRows \cup {i}
<1>1. rows[i].st = "none" /\ rows'[i] = r /\ \A j \in Id \ {i} : rows'[j] = rows[j]
  BY LogEntryRows
<1> QED
  BY <1>1 DEF ClosedKept, OpenRows

LEMMA ExecuteLegOpens ==
  ASSUME TypeOK, NEW i \in Id, ExecuteLeg(i)
  PROVE  ClosedKept /\ OpenRows' = OpenRows \cup {i} /\ records' = records \cup {i}
<1>1. PICK e \in Tenors : LogEntry(i, LegRow(i, e))
  BY DEF ExecuteLeg
<1>2. LegRow(i, e).st = "open"
  BY DEF LegRow, OpenRow
<1> QED
  BY <1>1, <1>2, EntryOpens DEF ExecuteLeg, AddCondorLeg, TypeOK

LEMMA BookedHead ==
  ASSUME TypeOK, StageInv, BookedInv, TickHead
  PROVE  BookedInv' /\ ClosedKept
<1>1. rows' = rows /\ kept' = {} /\ pc' \in {"idle", "flatten", "manage", "entry"}
  BY DEF TickHead, ClosedTick, BeginHardClose, BeginTick, OpenTick, EndTick, Reset, GoTo,
     bookVars, StageInv
<1>2. \/ records' = records /\ pc' = "idle"
      \/ records' = Reloaded /\ todo' = Reloaded
  BY DEF TickHead, ClosedTick, BeginHardClose, BeginTick, OpenTick, EndTick, Reset, bookVars
<1>3. records \subseteq OpenRows
  BY DEF TickHead, ClosedTick, BeginHardClose, BeginTick, OpenTick, BookedInv
<1> QED
  BY <1>1, <1>2, <1>3, SameKeepsClosed DEF BookedInv, Reloaded

LEMMA BookedPass ==
  ASSUME TypeOK, StageInv, BookedInv,
         FlattenStep \/ ManageStep \/ \E r \in todo : FlattenFailed(r)
  PROVE  BookedInv' /\ ClosedKept
<1>1. ASSUME NEW r \in todo, NEW p \in Pnls, FlattenOne(r, p)
      PROVE  BookedInv' /\ ClosedKept
  <2>1. /\ pc = "flatten" /\ pc' = "flatten" /\ r \in OpenRows
        /\ records' = records \ {r} /\ todo' = todo \ {r} /\ LogExit(r, p)
    BY <1>1 DEF FlattenOne, RemoveRecord, GoTo, BookedInv
  <2>2. ClosedKept /\ OpenRows' = OpenRows \ {r}
    BY <2>1, ExitOpen DEF TypeOK
  <2> QED
    BY <2>1, <2>2 DEF BookedInv
<1>2. ASSUME NEW r \in todo, NEW p \in Pnls, ManageExit(r, p)
      PROVE  BookedInv' /\ ClosedKept
  <2>1. /\ pc = "manage" /\ pc' = "manage" /\ r \in OpenRows
        /\ kept' = kept /\ todo' = todo \ {r} /\ LogExit(r, p)
    BY <1>2 DEF ManageExit, GoTo, BookedInv
  <2>2. ClosedKept /\ OpenRows' = OpenRows \ {r}
    BY <2>1, ExitOpen DEF TypeOK
  <2> QED
    BY <1>2, <2>1, <2>2 DEF BookedInv
<1>3. ASSUME NEW r \in todo, ManageKeep(r) \/ FlattenFailed(r)
      PROVE  BookedInv' /\ ClosedKept
  <2>1. rows' = rows /\ records' = records /\ pc' = pc /\ pc \in {"manage", "flatten"}
    BY <1>3 DEF ManageKeep, FlattenFailed, GoTo, bookVars
  <2>2. todo' = todo \ {r} /\ (pc = "manage" => kept' = kept \cup {r})
    BY <1>3 DEF ManageKeep, FlattenFailed
  <2> QED
    BY <1>3, <2>1, <2>2, SameKeepsClosed DEF BookedInv
<1>4. CASE FlattenDone \/ ManageDone
  <2>1. /\ rows' = rows /\ pc' \in {"idle", "leg"}
        /\ \/ records' = records /\ pc = "flatten"
           \/ records' = kept /\ pc = "manage"
    BY <1>4 DEF FlattenDone, ManageDone, EndTick, Reset, GoTo, bookVars
  <2> QED
    BY <2>1, SameKeepsClosed DEF BookedInv
<1> QED
  BY <1>1, <1>2, <1>3, <1>4 DEF FlattenStep, ManageStep

LEMMA BookedLeg ==
  ASSUME TypeOK, BookedInv, LegStep
  PROVE  BookedInv' /\ ClosedKept
<1>1. pc \in {"leg", "legOrder"} /\ pc' \in {"legOrder", "roll"}
  BY DEF LegStep, LegDropped, LegDue, LegFires, LegWaits, LegRejected, GoTo
<1>2. CASE LegDropped \/ LegDue \/ LegWaits \/ LegRejected
  <2>1. rows' = rows /\ records' = records
    BY <1>2 DEF LegDropped, LegDue, LegWaits, LegRejected, bookVars
  <2> QED
    BY <1>1, <2>1, SameKeepsClosed DEF BookedInv
<1>3. ASSUME NEW i \in Id, LegFires(i)
      PROVE  BookedInv' /\ ClosedKept
  BY <1>1, <1>3, ExecuteLegOpens DEF LegFires, BookedInv
<1> QED
  BY <1>2, <1>3 DEF LegStep

LEMMA BookedRoll ==
  ASSUME TypeOK, BookedInv, RollStep
  PROVE  BookedInv' /\ ClosedKept
<1>1. ASSUME NEW tested \in records, NEW from \in records, NEW p \in Pnls,
             RollClose(tested, from, p)
      PROVE  BookedInv' /\ ClosedKept
  <2>1. /\ tested \in OpenRows /\ from \in OpenRows /\ tested # from
        /\ records \subseteq OpenRows /\ records' = records \ {from} /\ pc' = "rollOpen"
        /\ LogExit(from, p) /\ roll'.tested = tested
    BY <1>1 DEF RollClose, CanRoll, Other, RemoveRecord, GoTo, BookedInv
  <2>2. ClosedKept /\ OpenRows' = OpenRows \ {from}
    BY <2>1, ExitOpen DEF TypeOK
  <2> QED
    BY <2>1, <2>2 DEF BookedInv
<1>2. ASSUME NEW i \in Id, RollOpen(i)
      PROVE  BookedInv' /\ ClosedKept
  <2> DEFINE wing == OpenRow("roll", rows[roll.from].side, TRUE,
                             rows[roll.from].condor, day, 0)
  <2>1. LogEntry(i, wing) /\ wing.st = "open"
    BY <1>2 DEF RollOpen, OpenRow
  <2> HIDE DEF wing
  <2>2. ClosedKept /\ OpenRows' = OpenRows \cup {i}
    BY <2>1, EntryOpens DEF TypeOK
  <2>3. pc = "rollOpen" /\ pc' = "rollFlag" /\ records' = records \cup {i} /\ roll' = roll
    BY <1>2 DEF RollOpen, AddCondorLeg, GoTo
  <2> QED
    BY <2>2, <2>3 DEF BookedInv
<1>3. CASE RollFlag
  <2>1. /\ roll.tested \in OpenRows /\ records \subseteq OpenRows
        /\ records' = records /\ pc' = "idle"
    BY <1>3 DEF RollFlag, EndTick, Reset, BookedInv
  <2>2. \A i \in Id : rows'[i].st = rows[i].st /\ (i # roll.tested => rows'[i] = rows[i])
    <3>1. \A i \in Id : rows'[i].st = rows[i].st
      BY <1>3, RollFlagRows
    <3>2. \A i \in Id : i # roll.tested => rows'[i] = rows[i]
      BY <1>3 DEF RollFlag, FlagBrokenWing, TypeOK
    <3> QED
      BY <3>1, <3>2
  <2> QED
    BY <2>1, <2>2 DEF BookedInv, ClosedKept, OpenRows
<1>4. CASE RollEnds
  <2>1. rows' = rows /\ records' = records /\ pc' = "idle" /\ pc # "manage"
    BY <1>4 DEF RollEnds, EndTick, Reset, bookVars
  <2> QED
    BY <2>1, SameKeepsClosed DEF BookedInv
<1> QED
  BY <1>1, <1>2, <1>3, <1>4 DEF RollStep

LEMMA BookedEntry ==
  ASSUME TypeOK, BookedInv, EntryStep
  PROVE  BookedInv' /\ ClosedKept
<1> DEFINE stages == {"entry", "hunt", "huntOrder", "enter"}
<1>1. pc \in stages /\ pc' \in stages \cup {"idle"}
  BY ProceedGoes
     DEF EntryStep, EntryRefused, EntryAllowed, EntryDecides, EntryDropsLeg, EntryLegDue,
     EntryLegWaits, EntryFiresLeg, EntryLegRejected, EntryFilled, EntryRejected, TakeSignal,
     EndTick, Reset, GoTo
<1>2. ASSUME rows' = rows, records' = records
      PROVE  BookedInv' /\ ClosedKept
  BY <1>1, <1>2, SameKeepsClosed DEF BookedInv
<1>3. CASE EntryRefused \/ EntryAllowed \/ EntryLegRejected \/ EntryRejected
  BY <1>2, <1>3 DEF EntryRefused, EntryAllowed, EntryLegRejected, EntryRejected, bookVars
<1>4. ASSUME NEW s \in Signals, TakeSignal(s)
      PROVE  BookedInv' /\ ClosedKept
  BY <1>2, <1>4 DEF TakeSignal, bookVars
<1>5. ASSUME NEW i \in Id, EntryFiresLeg(i)
      PROVE  BookedInv' /\ ClosedKept
  BY <1>1, <1>5, ExecuteLegOpens DEF EntryFiresLeg, BookedInv
<1>6. ASSUME NEW i \in Id, EntryFilled(i)
      PROVE  BookedInv' /\ ClosedKept
  <2>1. PICK e \in Tenors : LogEntry(i, OpenRow(signal, "none", FALSE, 0, day, day + e))
    BY <1>6 DEF EntryFilled
  <2>2. OpenRow(signal, "none", FALSE, 0, day, day + e).st = "open"
    BY DEF OpenRow
  <2>3. ClosedKept /\ OpenRows' = OpenRows \cup {i}
    BY <2>1, <2>2, EntryOpens DEF TypeOK
  <2>4. records' = {i} /\ pc' = "idle"
    BY <1>6 DEF EntryFilled, SetOpenPosition, EndTick, Reset
  <2> QED
    BY <2>3, <2>4 DEF BookedInv
<1> QED
  BY <1>3, <1>4, <1>5, <1>6
     DEF EntryStep, EntryDecides, EntryDropsLeg, EntryLegDue, EntryLegWaits

LEMMA BookedOther ==
  ASSUME TypeOK, BookedInv, "db" \notin Faults, TickAborted \/ Crash \/ Start \/ Advance
  PROVE  BookedInv' /\ ClosedKept
<1>1. CASE TickAborted
  <2>1. rows' = rows /\ records' = records /\ pc' = "idle" /\ pc # "manage"
    BY <1>1 DEF TickAborted, Reset, bookVars
  <2> QED
    BY <2>1, SameKeepsClosed DEF BookedInv
<1>2. CASE Advance
  <2>1. UNCHANGED <<rows, records, pc, todo, kept, roll>>
    BY <1>2 DEF Advance, bookVars
  <2> QED
    BY <2>1, SameKeepsClosed DEF BookedInv
<1>3. CASE Crash
  <2>1. rows' = rows /\ records' = {} /\ pc' = "idle"
    BY <1>3 DEF Crash, Reset
  <2> QED
    BY <2>1, SameKeepsClosed DEF BookedInv
<1>4. CASE Start
  <2>1. \A i \in Id \ Expired(day) : rows'[i] = rows[i]
    BY <1>4 DEF Start, RecoverOpenPosition
  <2>2. records' = OpenRows \ Expired(day) /\ pc' = "idle" /\ Expired(day) \subseteq OpenRows
    BY <1>4 DEF Start, RecoverOpenPosition, Reset, Expired
  <2> QED
    BY <2>1, <2>2 DEF BookedInv, ClosedKept, OpenRows
<1> QED
  BY <1>1, <1>2, <1>3, <1>4

LEMMA BookedStep ==
  ASSUME IInv, BookedInv, "db" \notin Faults, Next
  PROVE  BookedInv' /\ ClosedKept
<1> TypeOK /\ StageInv
  BY DEF IInv, LegInv
<1> QED
  BY BookedHead, BookedPass, BookedLeg, BookedRoll, BookedEntry, BookedOther
     DEF Next, LoopStep, FaultStep

LEMMA BookedStutter ==
  ASSUME BookedInv, UNCHANGED vars
  PROVE  BookedInv'
<1>1. UNCHANGED <<rows, records, pc, todo, kept, roll>>
  BY DEF vars, bookVars, tickVars
<1> QED
  BY <1>1 DEF BookedInv, OpenRows

\* As long as writes to the table succeed the result of a trade is booked once:
\* the row is never rewritten, whatever stage an exception or a kill ends
\* (log_exit updates by id; position_manager.py replaces its list after a pass).
THEOREM BookedOnlyOnce ==
  ASSUME "db" \notin Faults
  PROVE  Spec => BookedOnce
<1> DEFINE Booked == \A i \in Id : rows[i].st = "closed" => rows'[i] = rows[i]
<1>1. Init => BookedInv
  BY DEF Init, BookInit, IdleTick, BookedInv
<1>2. IInv /\ BookedInv /\ [Next]_vars => BookedInv'
  BY BookedStep, BookedStutter
<1>3. IInv /\ BookedInv /\ [Next]_vars => [Booked]_vars
  BY BookedStep DEF ClosedKept
<1> QED
  BY <1>1, <1>2, <1>3, Inductive, PTL DEF Spec, BookedOnce

-----------------------------------------------------------------------------
(* The halt.  It is asked once a tick, before the signals: a leg fired on the *)
(* way to the entry engine books nothing, so the answer still holds there.    *)

Admitted == {"hunt", "huntOrder", "enter"}

HaltInv == pc \in Admitted => ~Breached(rows, day)

LEMMA BreachSame ==
  ASSUME \A i \in Id : /\ rows'[i].st = "closed" <=> rows[i].st = "closed"
                       /\ rows[i].st = "closed" => rows'[i] = rows[i],
         day' = day
  PROVE  Breached(rows, day)' <=> Breached(rows, day)
<1>1. ClosedToday(rows', day') = ClosedToday(rows, day)
  BY DEF ClosedToday
<1>2. \A i \in ClosedToday(rows, day) : rows'[i].pnl = rows[i].pnl
  BY DEF ClosedToday
<1>3. [i \in ClosedToday(rows', day') |-> rows'[i].pnl]
        = [i \in ClosedToday(rows, day) |-> rows[i].pnl]
  BY <1>1, <1>2
<1>4. RealizedPnl(rows', day') = RealizedPnl(rows, day)
  BY <1>3 DEF RealizedPnl
<1> QED
  BY <1>4 DEF Breached

LEMMA GateAsked ==
  ASSUME "db" \notin Faults, EntryAllowed
  PROVE  ~Breached(rows, day)
<1>1. Breached(rows, day) \in BOOLEAN
  BY DEF Breached
<1> QED
  BY <1>1 DEF EntryAllowed, IsHalted, Reads, SetLatch

LEMMA HaltStep ==
  ASSUME IInv, HaltInv, HoursInv, "db" \notin Faults, Next
  PROVE  /\ HaltInv'
         /\ \/ Quiet
            \/ ~Breached(rows, day)
            \/ \E i \in Id : RollOpen(i) \/ LegFires(i)
<1> TypeOK /\ StageInv
  BY DEF IInv, LegInv
<1>1. ASSUME ~Breached(rows, day), rows' = rows, day' = day
      PROVE  HaltInv'
  BY <1>1, BreachSame DEF HaltInv
<1>2. CASE EntryAllowed
  <2>1. rows' = rows /\ day' = day
    BY <1>2, TickGoes DEF EntryAllowed, bookVars
  <2> QED
    BY <1>1, <1>2, <2>1, GateAsked
<1>3. ASSUME NEW s \in Signals, \/ \E side \in Sides \cup {"none"} : EntryDecides(s, side)
                                \/ EntryDropsLeg(s) \/ EntryLegWaits(s) \/ EntryLegDue(s)
      PROVE  HaltInv' /\ ~Breached(rows, day)
  <2>1. pc = "hunt" /\ rows' = rows
    BY <1>3 DEF EntryDecides, EntryDropsLeg, EntryLegWaits, EntryLegDue, TakeSignal, bookVars
  <2>2. day' = day
    BY <1>3, TickGoes
       DEF EntryDecides, EntryDropsLeg, EntryLegWaits, EntryLegDue, Proceed, EndTick
  <2> QED
    BY <1>1, <2>1, <2>2 DEF HaltInv, Admitted
<1>4. ASSUME NEW i \in Id, EntryFiresLeg(i)
      PROVE  HaltInv' /\ ~Breached(rows, day)
  <2>1. ~Breached(rows, day) /\ day' = day
    BY <1>4, TickGoes DEF EntryFiresLeg, Proceed, EndTick, HaltInv, Admitted
  <2>2. PICK e \in Tenors : LogEntry(i, LegRow(i, e))
    BY <1>4 DEF EntryFiresLeg, ExecuteLeg
  <2>3. /\ rows[i].st = "none" /\ rows'[i].st = "open"
        /\ \A j \in Id \ {i} : rows'[j] = rows[j]
    BY <2>2, LogEntryRows DEF LegRow, OpenRow, TypeOK
  <2> QED
    BY <2>1, <2>3, BreachSame DEF HaltInv
<1>5. CASE EntryLegRejected
  <2>1. pc = "huntOrder" /\ rows' = rows /\ day' = day
    BY <1>5, TickGoes DEF EntryLegRejected, Proceed, EndTick, bookVars
  <2> QED
    BY <1>1, <2>1 DEF HaltInv, Admitted
<1>6. ASSUME NEW i \in Id, EntryFilled(i)
      PROVE  HaltInv' /\ ~Breached(rows, day)
  BY <1>6 DEF EntryFilled, EndTick, Reset, HaltInv, Admitted
<1>7. CASE EntryRefused \/ EntryRejected
  BY <1>7, SameKeepsRows
     DEF EntryRefused, EntryRejected, EndTick, Reset, HaltInv, Admitted, bookVars, Quiet
\* The day does not turn under a tick.
<1>8. ASSUME Advance
      PROVE  HaltInv'
  <2>1. UNCHANGED <<rows, pc>>
    BY <1>8 DEF Advance, bookVars
  <2>2. pc \in Admitted => day' = day
    <3>1. ASSUME pc \in Admitted
          PROVE  slot # AfterHours
      BY <1>8, <3>1 DEF Advance, Admitted, HoursInv, StageHours, TickSlot, IsRth, Closing,
         AfterHours
    <3> QED
      BY <1>8, <3>1 DEF Advance
  <2>3. pc \in Admitted => HaltInv'
    BY <1>1, <2>1, <2>2 DEF HaltInv
  <2>4. pc \notin Admitted => HaltInv'
    BY <2>1 DEF HaltInv, Admitted
  <2> QED
    BY <2>3, <2>4
<1>9. ASSUME TickHead \/ FlattenStep \/ ManageStep \/ LegStep \/ RollStep \/ FaultStep
             \/ Start
      PROVE  HaltInv'
  BY <1>9 DEF TickHead, ClosedTick, BeginHardClose, BeginTick, FlattenStep, FlattenOne,
     FlattenDone, ManageStep, ManageKeep, ManageExit, ManageDone, LegStep, LegDropped, LegDue,
     LegFires, LegWaits, LegRejected, RollStep, RollClose, RollOpen, RollFlag, RollEnds,
     FaultStep, FlattenFailed, TickAborted, Crash, Start, EndTick, Reset, GoTo, HaltInv,
     Admitted
<1>10. ASSUME TickHead \/ FlattenStep \/ ManageStep \/ LegStep \/ RollStep \/ FaultStep
              \/ Start \/ Advance
       PROVE  Quiet \/ \E i \in Id : RollOpen(i) \/ LegFires(i)
  BY <1>10, HoursHead, HoursPass, HoursLeg, HoursRoll, HoursOther DEF FaultStep
<1>11. EntryAllowed => Quiet
  BY SameKeepsRows DEF EntryAllowed, bookVars, Quiet
<1>12. EntryLegRejected => Quiet
  BY SameKeepsRows DEF EntryLegRejected, bookVars, Quiet
<1> QED
  BY <1>2, <1>3, <1>4, <1>5, <1>6, <1>7, <1>8, <1>9, <1>10, <1>11, <1>12
     DEF Next, LoopStep, EntryStep

LEMMA HaltStutter ==
  ASSUME HaltInv, UNCHANGED vars
  PROVE  HaltInv'
<1>1. UNCHANGED <<rows, day, pc>>
  BY DEF vars, bookVars, clockVars, tickVars
<1> QED
  BY <1>1 DEF HaltInv, Admitted, Breached

LEMMA OpenedUnhalted ==
  ASSUME IInv, HaltInv, HoursInv, "db" \notin Faults, Next,
         NEW i \in Id, Opened(i), RealizedPnl(rows, day) <= -Limit
  PROVE  rows'[i].kind \in {"leg2", "roll"}
<1>1. ~Quiet /\ Breached(rows, day)
  BY DEF Opened, Quiet, RowsKept, Breached
<1>2. PICK k \in Id : RollOpen(k) \/ LegFires(k)
  BY <1>1, HaltStep
<1>3. PICK r : LogEntry(k, r) /\ r.kind \in {"leg2", "roll"}
  <2>1. CASE RollOpen(k)
    BY <2>1 DEF RollOpen, OpenRow
  <2>2. CASE LegFires(k)
    BY <2>2 DEF LegFires, IInv, LegInv, StageInv, Leg2Pending, ExecuteLeg, LegRow, OpenRow
  <2> QED
    BY <1>2, <2>1, <2>2
<1>4. rows'[k] = r /\ \A j \in Id \ {k} : rows'[j] = rows[j]
  BY <1>3, LogEntryRows DEF IInv, TypeOK
<1> QED
  BY <1>3, <1>4 DEF Opened

\* While the table can be read and the day's booked result is at the limit,
\* nothing is opened but a queued Leg 2 and a roll, through restarts and with a
\* leg fired on the way to an entry (attempt_new_entry, risk_manager.py).
THEOREM HaltIsKept ==
  ASSUME "db" \notin Faults
  PROVE  Spec => HaltHolds
<1> DEFINE Unhalted == \A i \in Id : Opened(i) /\ RealizedPnl(rows, day) <= -Limit
                                      => rows'[i].kind \in {"leg2", "roll"}
<1>1. Init => HaltInv
  BY DEF Init, IdleTick, HaltInv, Admitted
<1>2. IInv /\ HaltInv /\ HoursInv /\ [Next]_vars => HaltInv'
  BY HaltStep, HaltStutter
<1>3. IInv /\ HaltInv /\ HoursInv /\ [Next]_vars => [Unhalted]_vars
  BY OpenedUnhalted
<1> QED
  BY <1>1, <1>2, <1>3, Inductive, HoursInductive, PTL DEF Spec, HaltHolds

-----------------------------------------------------------------------------
(* The refinement.  Every write of the loop to the legs is one step of        *)
(* CondorStructure: a leg entered, one or several closed, the rolled vertical, *)
(* and the flag that makes the tested one final.  Everything else stutters.    *)

\* What a roll is working on between its steps: the tested vertical is open and
\* not final yet, opposite the one bought back, and then of a rolled condor.
RollStage ==
  /\ pc = "rollOpen" => /\ roll.tested \in OpenLegs /\ ~rows[roll.tested].wing
                        /\ rows[roll.tested].side = Other(rows[roll.from].side)
  /\ pc = "rollFlag" => /\ roll.tested \in OpenLegs /\ ~rows[roll.tested].wing
                        /\ rows[roll.tested].condor \in RolledCondors

RefineInv == IInv /\ RollInv /\ BookedInv /\ RollStage

\* No row changes but in its status, and none is opened.
RowsShrink ==
  \A i \in Id : /\ rows'[i].kind = rows[i].kind /\ rows'[i].condor = rows[i].condor
                /\ rows'[i].side = rows[i].side /\ rows'[i].wing = rows[i].wing
                /\ rows'[i].st = "open" => rows[i].st = "open"

LEMMA SidesAreCondor == Condor!Side = Sides
BY DEF Condor!Side, Sides

LEMMA OppositeIsOther ==
  ASSUME NEW s \in Sides
  PROVE  Condor!Opposite(s) = Other(s)
<1>1. \E o \in Condor!Side : o # s
  BY DEF Sides, Condor!Side
<1>2. Condor!Opposite(s) \in Condor!Side /\ Condor!Opposite(s) # s
  BY <1>1 DEF Condor!Opposite
<1> QED
  BY <1>2 DEF Condor!Side, Sides, Other

LEMMA LegsHaveSides ==
  ASSUME TypeOK, RowsInv
  PROVE  OpenLegs \subseteq Id /\ \A i \in OpenLegs : rows[i].side \in Sides
BY DEF OpenLegs, OpenRows, RowsInv

LEMMA RolledMeans ==
  Rolled <=> \E i \in OpenLegs : rows[i].condor \in RolledCondors
BY DEF Rolled, RolledCondors

\* With one leg per side the form of a side is the form of its leg.
LEMMA FormOfSide ==
  ASSUME OneLegPerSide, NEW i \in OpenLegs, NEW s \in Sides, rows[i].side = s
  PROVE  LegsOpen[s] = IF rows[i].wing THEN "wing" ELSE "leg"
<1>1. OnSide(s) = {i}
  BY DEF OnSide, OneLegPerSide
<1> QED
  BY <1>1 DEF LegsOpen

LEMMA FlatSide ==
  ASSUME NEW s \in Sides
  PROVE  LegsOpen[s] = "flat" <=> \A i \in OpenLegs : rows[i].side # s
BY DEF LegsOpen, OnSide

\* A step that opens nothing closes a set of verticals, perhaps none.
LEMMA ShrinkRefines ==
  ASSUME TypeOK, OneLegPerSide, RollInv, RowsShrink
  PROVE  [Condor!Next]_<<LegsOpen, Rolled>>
<1>1. /\ OpenLegs \subseteq Id /\ OpenLegs' \subseteq OpenLegs
      /\ \A i \in OpenLegs : rows[i].side \in Sides /\ rows'[i].side = rows[i].side
                             /\ rows'[i].wing = rows[i].wing
                             /\ rows'[i].condor = rows[i].condor
  BY LegsHaveSides DEF RollInv, RowsShrink, OpenLegs, OpenRows
<1>2. RolledCondors' = RolledCondors
  BY DEF RowsShrink, RolledCondors
<1>3. CASE OpenLegs' = OpenLegs
  <2>1. \A s \in Sides : OnSide(s)' = OnSide(s)
    BY <1>1, <1>3 DEF OnSide
  <2>2. LegsOpen' = LegsOpen
    BY <1>1, <1>3, <2>1 DEF LegsOpen, OnSide
  <2>3. Rolled' = Rolled
    BY <1>1, <1>2, <1>3 DEF Rolled, RolledCondors
  <2> QED
    BY <2>2, <2>3
<1>4. CASE OpenLegs' # OpenLegs
  <2> DEFINE S == {s \in Sides : \E i \in OpenLegs \ OpenLegs' : rows[i].side = s}
  <2>1. S # {} /\ S \subseteq Sides /\ \A s \in S : LegsOpen[s] # "flat"
    BY <1>1, <1>4, FlatSide
  <2>2. \A s \in S : OnSide(s)' = {}
    BY <1>1 DEF OnSide, OneLegPerSide
  <2>3. \A s \in Sides \ S : OnSide(s)' = OnSide(s)
    BY <1>1 DEF OnSide
  <2>4. LegsOpen' = [s \in Sides |-> IF s \in S THEN "flat" ELSE LegsOpen[s]]
    <3>1. \A s \in Sides \ S : (\E i \in OnSide(s)' : rows'[i].wing)
                                 <=> (\E i \in OnSide(s) : rows[i].wing)
      BY <1>1, <2>3 DEF OnSide
    <3> QED
      BY <2>2, <2>3, <3>1 DEF LegsOpen
  <2>5. LegsOpen' = Condor!Flat <=> OpenLegs' = {}
    <3>1. OpenLegs' = {} => LegsOpen' = Condor!Flat
      BY SidesAreCondor DEF LegsOpen, OnSide, Condor!Flat
    <3>2. ASSUME NEW i \in OpenLegs'
          PROVE  LegsOpen' # Condor!Flat
      <4>1. PICK s \in Sides : i \in OnSide(s)'
        BY <1>1 DEF OnSide
      <4>2. LegsOpen'[s] # "flat"
        BY <4>1 DEF LegsOpen
      <4> QED
        BY <4>1, <4>2, SidesAreCondor DEF Condor!Flat
    <3> QED
      BY <3>1, <3>2
  <2>6. Rolled' <=> Rolled /\ OpenLegs' # {}
    <3>1. \A i, j \in OpenLegs : rows[i].condor = rows[j].condor
      BY DEF RollInv, CondorInv, Legs
    <3>2. Rolled' <=> \E i \in OpenLegs' : rows'[i].condor \in RolledCondors'
      BY DEF Rolled, RolledCondors
    <3> QED
      BY <1>1, <1>2, <3>1, <3>2, RolledMeans
  <2>7. Rolled' = (Rolled /\ LegsOpen' # Condor!Flat)
    BY <2>5, <2>6 DEF Rolled
  <2>8. Condor!CloseLegs(S)
    BY <2>1, <2>4, <2>7, SidesAreCondor DEF Condor!CloseLegs
  <2> HIDE DEF S
  <2>9. S \in (SUBSET Condor!Side) \ {{}}
    BY <2>1, SidesAreCondor
  <2> QED
    BY <2>8, <2>9 DEF Condor!Next
<1> QED
  BY <1>3, <1>4

LEMMA SameRefines ==
  ASSUME TypeOK, OneLegPerSide, RollInv, UNCHANGED rows
  PROVE  [Condor!Next]_<<LegsOpen, Rolled>>
BY ShrinkRefines DEF RowsShrink

LEMMA ExitShrinks ==
  ASSUME rows \in [Id -> Row], NEW r \in Id, NEW p, LogExit(r, p)
  PROVE  RowsShrink
<1> DEFINE closed == [rows[r] EXCEPT !.st = "closed", !.pnl = p]
<1>1. \A i \in Id : rows'[i] = IF i = r THEN closed ELSE rows[i]
  BY DEF LogExit
<1>2. /\ closed.st = "closed" /\ closed.side = rows[r].side /\ closed.kind = rows[r].kind
      /\ closed.condor = rows[r].condor /\ closed.wing = rows[r].wing
  <2>1. rows[r] \in Row
    OBVIOUS
  <2> QED
    BY <2>1 DEF Row
<1> HIDE DEF closed
<1> QED
  BY <1>1, <1>2 DEF RowsShrink

\* A row of any other strategy is no step of the condor.
LEMMA SingleRefines ==
  ASSUME TypeOK, StageInv, RollInv, NEW i \in Id, NEW r \in Row, LogEntry(i, r),
         r.kind \notin LegKinds
  PROVE  UNCHANGED <<LegsOpen, Rolled>>
<1>1. /\ rows'[i] = r /\ rows[i].st = "none" /\ \A j \in Id \ {i} : rows'[j] = rows[j]
      /\ RolledCondors' = RolledCondors
  BY EntryIsNew DEF RollInv, LegKinds
<1>2. OpenLegs' = OpenLegs /\ \A j \in OpenLegs : rows'[j] = rows[j]
  BY <1>1 DEF OpenLegs, OpenRows
<1>3. \A s \in Sides : OnSide(s)' = OnSide(s)
  BY <1>2 DEF OnSide
<1>4. LegsOpen' = LegsOpen
  BY <1>2, <1>3 DEF LegsOpen, OnSide
<1>5. Rolled' <=> \E j \in OpenLegs' : rows'[j].condor \in RolledCondors'
  BY DEF Rolled, RolledCondors
<1>6. Rolled' = Rolled
  <2>1. Rolled' <=> Rolled
    BY <1>1, <1>2, <1>5, RolledMeans
  <2> QED
    BY <2>1 DEF Rolled
<1> QED
  BY <1>4, <1>6

\* A vertical entered on a flat side changes that side and no other.
LEMMA EntryForms ==
  ASSUME TypeOK, StageInv, RollInv, OneLegPerSide',
         NEW i \in Id, NEW r \in Row, LogEntry(i, r),
         r.st = "open", r.kind \in LegKinds, r.side \in Sides
  PROVE  LegsOpen' = [LegsOpen EXCEPT ![r.side] = IF r.wing THEN "wing" ELSE "leg"]
<1>1. /\ rows'[i] = r /\ rows[i].st = "none" /\ \A j \in Id \ {i} : rows'[j] = rows[j]
  BY EntryIsNew DEF RollInv
<1>2. OpenLegs' = OpenLegs \cup {i} /\ i \notin OpenLegs /\ OpenLegs \subseteq Id
  BY <1>1 DEF OpenLegs, OpenRows
<1>3. OnSide(r.side)' = {i}
  BY <1>1, <1>2 DEF OnSide, OneLegPerSide
<1>4. \A s \in Sides \ {r.side} : OnSide(s)' = OnSide(s)
  BY <1>1, <1>2 DEF OnSide
<1>5. \A s \in Sides \ {r.side} :
        (\E j \in OnSide(s)' : rows'[j].wing) <=> (\E j \in OnSide(s) : rows[j].wing)
  BY <1>1, <1>2, <1>4 DEF OnSide
<1>6. \A s \in Sides : LegsOpen'[s] = IF s = r.side THEN IF r.wing THEN "wing" ELSE "leg"
                                                    ELSE LegsOpen[s]
  BY <1>1, <1>3, <1>4, <1>5 DEF LegsOpen
<1> QED
  BY <1>6 DEF LegsOpen


LEMMA LegRefines ==
  ASSUME IInv, RollInv, IInv', NEW i \in Id, ExecuteLeg(i), HasActivePlan
  PROVE  Condor!OpenLeg(PendingSide) /\ PendingSide \in Sides
<1> TypeOK /\ LegInv /\ StageInv /\ RowsInv /\ OneLegPerSide'
  BY DEF IInv, LegInv, RollInv
<1>1. PICK e \in Tenors : LogEntry(i, LegRow(i, e))
  BY DEF ExecuteLeg
<1>2. PendingSide \in Sides
  BY DEF PendingSide, Other, TypeOK, PlanType, Sides
<1> DEFINE leg == LegRow(i, e)
<1>3. /\ leg.st = "open" /\ leg.side = PendingSide /\ leg.kind \in {"leg1", "leg2"} /\ ~leg.wing
      /\ leg.condor = IF plan.state = "DECIDED" THEN i ELSE plan.condor
  BY DEF LegRow, OpenRow
<1>4. leg \in Row
  <2>1. plan.condor \in Id \cup {0} /\ day \in Nat /\ day + e \in Nat
    BY LoopAssumption DEF TypeOK, PlanType
  <2>2. PendingSide \in {"call", "put", "none"}
    BY <1>2 DEF Sides
  <2>3. {"leg1", "leg2"} \subseteq Kinds \cup {"none"}
    BY DEF Kinds, LegKinds
  <2> QED
    BY <2>1, <2>2, <2>3, OpenRowType DEF LegRow
<1>5. LogEntry(i, leg)
  BY <1>1
<1> HIDE DEF leg
<1>6. leg.kind # "roll" /\ leg.kind \in LegKinds
  BY <1>3 DEF LegKinds
<1>7. LegsOpen' = [LegsOpen EXCEPT ![PendingSide] = "leg"]
  BY <1>2, <1>3, <1>4, <1>5, <1>6, EntryForms
<1>8. /\ rows'[i] = leg /\ \A j \in Id \ {i} : rows'[j] = rows[j]
      /\ i \notin RolledCondors /\ RolledCondors' = RolledCondors
      /\ OpenLegs \subseteq Id
  BY <1>4, <1>5, <1>6, EntryIsNew, LegsHaveSides
<1>9. LegsOpen[PendingSide] = "flat"
  <2>1. \A j \in OpenLegs : rows[j].side # PendingSide
    BY DEF LegInv, PlanMatchesLegs, HasActivePlan, PendingSide, Other, Legs
  <2> QED
    BY <1>2, <2>1, FlatSide
\* The legs are of one condor, which no roll belongs to.
<1>10. \A j \in OpenLegs : rows[j].condor = leg.condor
  <2>1. plan.state = "DECIDED" => OpenLegs = {}
    BY DEF LegInv, PlanMatchesLegs, Legs
  <2>2. plan.state = "LEG1_FILLED" => \A j \in OpenLegs : rows[j].condor = plan.condor
    BY DEF RollInv, CondorInv, Legs
  <2> QED
    BY <1>3, <2>1, <2>2 DEF HasActivePlan
<1>11. leg.condor \notin RolledCondors
  BY <1>3, <1>8 DEF HasActivePlan, RollInv, CondorInv
<1>12. ~Rolled
  BY <1>10, <1>11, RolledMeans
<1>13. ~Rolled'
  <2>1. Rolled' <=> \E j \in OpenLegs' : rows'[j].condor \in RolledCondors'
    BY DEF Rolled, RolledCondors
  <2>2. OpenLegs' \subseteq OpenLegs \cup {i}
    BY <1>8 DEF OpenLegs, OpenRows
  <2> QED
    BY <1>8, <1>10, <1>11, <2>1, <2>2
<1>14. Rolled' = Rolled
  BY <1>12, <1>13 DEF Rolled
<1> QED
  BY <1>2, <1>7, <1>9, <1>12, <1>14 DEF Condor!OpenLeg

LEMMA RollRefines ==
  ASSUME IInv, RollInv, RollStage, IInv', NEW i \in Id, RollOpen(i)
  PROVE  \E s \in Sides : Condor!Roll(s)
<1> TypeOK /\ LegInv /\ StageInv /\ RowsInv /\ OneLegPerSide /\ OneLegPerSide'
  BY DEF IInv, LegInv, RollInv
<1> DEFINE from == roll.from
           tested == roll.tested
           wing == OpenRow("roll", rows[from].side, TRUE, rows[from].condor, day, 0)
<1>1. /\ from \in Id /\ rows[from].kind \in LegKinds /\ rows[from].side \in Sides
      /\ rows[from].condor \notin RolledCondors
      /\ \A j \in OpenLegs : /\ rows[j].condor = rows[from].condor
                             /\ rows[j].side # rows[from].side
      /\ tested \in OpenLegs /\ ~rows[tested].wing
      /\ rows[tested].side = Other(rows[from].side)
  BY DEF RollOpen, StageInv, RollInv, CondorInv, RowsInv, RollStage, Legs
<1>2. /\ wing.st = "open" /\ wing.kind = "roll" /\ wing.side = rows[from].side
      /\ wing.wing = TRUE /\ wing.condor = rows[from].condor
  BY DEF OpenRow
<1>3. LogEntry(i, wing)
  BY DEF RollOpen
<1>4. wing \in Row
  <2>1. rows[from] \in Row /\ day \in Nat
    BY <1>1 DEF TypeOK
  <2>2. "roll" \in Kinds \cup {"none"}
    BY DEF Kinds, LegKinds
  <2>3. rows[from].side \in {"call", "put", "none"} /\ rows[from].condor \in Id \cup {0}
    BY <2>1 DEF Row
  <2> QED
    BY <2>1, <2>2, <2>3, OpenRowType
<1> DEFINE s == rows[from].side
<1> HIDE DEF wing, from, tested
<1>5. LegsOpen' = [LegsOpen EXCEPT ![s] = "wing"]
  <2>1. wing.kind \in LegKinds
    BY <1>2 DEF LegKinds
  <2> QED
    BY <1>1, <1>2, <1>3, <1>4, <2>1, EntryForms
<1>6. LegsOpen[s] = "flat"
  BY <1>1, FlatSide
<1>7. LegsOpen[Condor!Opposite(s)] = "leg"
  <2>1. Other(s) \in Sides
    BY DEF Other, Sides
  <2> QED
    BY <1>1, <2>1, FormOfSide, OppositeIsOther
<1>8. ~Rolled
  BY <1>1, RolledMeans
<1>9. Rolled'
  <2>1. rows'[i] = wing /\ \A j \in Id \ {i} : rows'[j] = rows[j]
    BY <1>3, <1>4, EntryIsNew
  <2>2. rows[i].st = "none" /\ tested \in Id /\ rows[tested].st = "open"
    BY <1>1, <1>3, <1>4, EntryIsNew DEF OpenLegs, OpenRows
  <2>3. tested \in OpenLegs' /\ rows'[tested].condor = wing.condor
    BY <1>1, <1>2, <2>1, <2>2 DEF OpenLegs, OpenRows
  <2> QED
    BY <1>2, <2>1, <2>3 DEF Rolled
<1>10. Rolled' = TRUE
  BY <1>9 DEF Rolled
<1> QED
  BY <1>1, <1>5, <1>6, <1>7, <1>8, <1>10 DEF Condor!Roll

LEMMA FlagRefines ==
  ASSUME IInv, RollInv, RollStage, RollFlag
  PROVE  \E s \in Sides : Condor!MakeFinal(s)
<1> TypeOK /\ RowsInv /\ OneLegPerSide
  BY DEF IInv, LegInv, RollInv
<1> DEFINE tested == roll.tested
           s == rows[tested].side
<1>1. /\ tested \in OpenLegs /\ ~rows[tested].wing
      /\ rows[tested].condor \in RolledCondors
  BY DEF RollFlag, RollStage
<1>2. OpenLegs \subseteq Id /\ s \in Sides
  BY <1>1, LegsHaveSides
<1>3. \A i \in Id : /\ rows'[i].st = rows[i].st /\ rows'[i].kind = rows[i].kind
                    /\ rows'[i].side = rows[i].side /\ rows'[i].condor = rows[i].condor
  BY RollFlagRows
<1>4. rows'[tested].wing /\ \A i \in Id \ {tested} : rows'[i] = rows[i]
  <2>1. rows[tested] \in Row /\ tested \in Id
    BY <1>1, <1>2 DEF TypeOK
  <2> QED
    BY <2>1 DEF RollFlag, FlagBrokenWing, TypeOK, Row
<1> HIDE DEF tested
<1>5. OpenLegs' = OpenLegs /\ RolledCondors' = RolledCondors
  BY <1>3 DEF OpenLegs, OpenRows, RolledCondors
<1>6. \A t \in Sides : OnSide(t)' = OnSide(t)
  BY <1>2, <1>3, <1>5 DEF OnSide
<1>7. OnSide(s) = {tested}
  BY <1>1 DEF OnSide, OneLegPerSide
<1>8. LegsOpen' = [LegsOpen EXCEPT ![s] = "wing"]
  <2>1. \A t \in Sides \ {s} : (\E j \in OnSide(t)' : rows'[j].wing)
                                 <=> (\E j \in OnSide(t) : rows[j].wing)
    BY <1>2, <1>4, <1>6, <1>7 DEF OnSide
  <2>2. \A t \in Sides : LegsOpen'[t] = IF t = s THEN "wing" ELSE LegsOpen[t]
    BY <1>2, <1>4, <1>6, <1>7, <2>1 DEF LegsOpen
  <2> QED
    BY <2>2 DEF LegsOpen
<1>9. LegsOpen[s] = "leg"
  BY <1>1, <1>2, FormOfSide
<1>10. Rolled /\ Rolled' = Rolled
  <2>1. Rolled
    BY <1>1, RolledMeans
  <2>2. Rolled' <=> \E j \in OpenLegs' : rows'[j].condor \in RolledCondors'
    BY DEF Rolled, RolledCondors
  <2>3. Rolled'
    BY <1>1, <1>2, <1>3, <1>5, <2>2
  <2> QED
    BY <2>1, <2>3 DEF Rolled
<1> QED
  BY <1>2, <1>8, <1>9, <1>10 DEF Condor!MakeFinal

LEMMA RollStageStep ==
  ASSUME IInv, RollInv, BookedInv, RollStage, Next
  PROVE  RollStage'
<1> TypeOK /\ LegInv /\ StageInv /\ RowsInv
  BY DEF IInv, LegInv, RollInv
<1>1. ASSUME NEW tested \in records, NEW from \in records, NEW p \in Pnls,
             RollClose(tested, from, p)
      PROVE  RollStage'
  <2>1. /\ LegRecords = {tested, from} /\ rows[tested].side = Other(rows[from].side)
        /\ tested # from /\ ~rows[tested].wing /\ LogExit(from, p) /\ pc' = "rollOpen"
        /\ roll' = [from |-> from, tested |-> tested]
        /\ tested \in OpenRows /\ from \in Id
    BY <1>1 DEF RollClose, CanRoll, Other, GoTo, BookedInv, TypeOK
  <2>2. rows'[tested] = rows[tested] /\ rows'[from].side = rows[from].side
    BY <2>1, ExitKeepsRows DEF LogExit, TypeOK, OpenRows, RowsKept
  <2>3. tested \in OpenLegs'
    BY <2>1, <2>2 DEF OpenLegs, OpenRows, LegRecords
  <2> QED
    BY <2>1, <2>2, <2>3 DEF RollStage
<1>2. ASSUME NEW i \in Id, RollOpen(i)
      PROVE  RollStage'
  <2> DEFINE wing == OpenRow("roll", rows[roll.from].side, TRUE,
                             rows[roll.from].condor, day, 0)
  <2>1. /\ roll.tested \in OpenLegs /\ ~rows[roll.tested].wing
        /\ rows[roll.tested].condor = rows[roll.from].condor
        /\ pc' = "rollFlag" /\ roll' = roll
    BY <1>2 DEF RollOpen, GoTo, RollStage, RollInv, CondorInv, Legs
  <2>2. wing.kind = "roll" /\ wing.condor = rows[roll.from].condor /\ LogEntry(i, wing)
    BY <1>2 DEF OpenRow, RollOpen
  <2> HIDE DEF wing
  <2>3. rows'[i] = wing /\ rows[i].st = "none" /\ \A j \in Id \ {i} : rows'[j] = rows[j]
    BY <2>2, LogEntryRows DEF TypeOK
  <2>4. roll.tested \in Id /\ rows'[roll.tested] = rows[roll.tested]
    BY <2>1, <2>3 DEF OpenLegs, OpenRows
  <2>5. roll.tested \in OpenLegs'
    BY <2>1, <2>4 DEF OpenLegs, OpenRows
  <2>6. rows'[roll.tested].condor \in RolledCondors'
    BY <2>1, <2>2, <2>3, <2>4 DEF RolledCondors
  <2> QED
    BY <2>1, <2>4, <2>5, <2>6 DEF RollStage
<1>3. ASSUME pc' \notin {"rollOpen", "rollFlag"}
      PROVE  RollStage'
  BY <1>3 DEF RollStage
<1>4. TickHead \/ FlattenStep \/ ManageStep \/ LegStep \/ RollFlag \/ RollEnds
      \/ FaultStep \/ Start => pc' \notin {"rollOpen", "rollFlag"}
  BY DEF TickHead, ClosedTick, BeginHardClose, BeginTick, FlattenStep, FlattenOne,
     FlattenDone, ManageStep, ManageKeep, ManageExit, ManageDone, LegStep, LegDropped, LegDue,
     LegFires, LegWaits, LegRejected, RollFlag, RollEnds, FaultStep, FlattenFailed,
     TickAborted, Crash, Start, EndTick, Reset, GoTo
<1>5. EntryStep => pc' \notin {"rollOpen", "rollFlag"}
  BY ProceedGoes DEF EntryStep, EntryRefused, EntryAllowed, EntryDecides, EntryDropsLeg,
     EntryLegDue, EntryLegWaits, EntryFiresLeg, EntryLegRejected, EntryFilled, EntryRejected,
     EndTick, Reset, GoTo
<1>6. Advance => RollStage'
  <2>1. Advance => UNCHANGED <<rows, pc, roll>>
    BY DEF Advance, bookVars
  <2> QED
    BY <2>1 DEF RollStage, RolledCondors, OpenLegs, OpenRows
<1> QED
  BY <1>1, <1>2, <1>3, <1>4, <1>5, <1>6 DEF Next, LoopStep, RollStep


LEMMA EntryRefines ==
  ASSUME IInv, RollInv, IInv', EntryStep
  PROVE  [Condor!Next]_<<LegsOpen, Rolled>>
<1> TypeOK /\ OneLegPerSide /\ StageInv
  BY DEF IInv, LegInv
<1>1. CASE EntryRefused \/ EntryAllowed \/ EntryLegRejected \/ EntryRejected
  BY <1>1, SameRefines
     DEF EntryRefused, EntryAllowed, EntryLegRejected, EntryRejected, bookVars
<1>2. ASSUME NEW s \in Signals, TakeSignal(s)
      PROVE  [Condor!Next]_<<LegsOpen, Rolled>>
  BY <1>2, SameRefines DEF TakeSignal, bookVars
<1>3. ASSUME NEW i \in Id, EntryFiresLeg(i)
      PROVE  [Condor!Next]_<<LegsOpen, Rolled>>
  BY <1>3, LegRefines, SidesAreCondor DEF EntryFiresLeg, StageInv, Condor!Next
<1>4. ASSUME NEW i \in Id, EntryFilled(i)
      PROVE  [Condor!Next]_<<LegsOpen, Rolled>>
  <2>1. PICK e \in Tenors : LogEntry(i, OpenRow(signal, "none", FALSE, 0, day, day + e))
    BY <1>4 DEF EntryFilled
  <2>2. OpenRow(signal, "none", FALSE, 0, day, day + e) \in Row
    <3>1. signal \in Kinds \cup {"none"} /\ day \in Nat /\ day + e \in Nat
      BY LoopAssumption DEF TypeOK, Kinds, LegKinds
    <3> QED
      BY <3>1, OpenRowType
  <2>3. OpenRow(signal, "none", FALSE, 0, day, day + e).kind \notin LegKinds
    BY DEF OpenRow, TypeOK, LegKinds
  <2> QED
    BY <2>1, <2>2, <2>3, SingleRefines
<1> QED
  BY <1>1, <1>2, <1>3, <1>4
     DEF EntryStep, EntryDecides, EntryDropsLeg, EntryLegDue, EntryLegWaits

LEMMA StepRefines ==
  ASSUME RefineInv, RefineInv', Next
  PROVE  [Condor!Next]_<<LegsOpen, Rolled>>
<1> /\ IInv /\ IInv' /\ RollInv /\ BookedInv /\ RollStage
    /\ TypeOK /\ OneLegPerSide /\ StageInv
  BY DEF RefineInv, IInv, LegInv
<1>1. ASSUME NEW r \in Id, NEW p, LogExit(r, p)
      PROVE  [Condor!Next]_<<LegsOpen, Rolled>>
  BY <1>1, ExitShrinks, ShrinkRefines DEF TypeOK
<1>2. CASE TickHead
  BY <1>2, SameRefines
     DEF TickHead, ClosedTick, BeginHardClose, BeginTick, OpenTick, bookVars
<1>3. CASE FlattenStep \/ ManageStep
  <2>1. UNCHANGED rows \/ \E r \in todo, p \in Pnls : LogExit(r, p)
    BY <1>3 DEF FlattenStep, FlattenOne, FlattenDone, ManageStep, ManageKeep, ManageExit,
       ManageDone, bookVars
  <2> QED
    BY <1>1, <2>1, SameRefines DEF TypeOK
<1>4. CASE LegStep
  <2>1. ASSUME NEW i \in Id, LegFires(i)
        PROVE  [Condor!Next]_<<LegsOpen, Rolled>>
    BY <2>1, LegRefines, SidesAreCondor
       DEF LegFires, StageInv, Leg2Pending, HasActivePlan, Condor!Next
  <2> QED
    BY <1>4, <2>1, SameRefines
       DEF LegStep, LegDropped, LegDue, LegWaits, LegRejected, bookVars
<1>5. CASE RollStep
  <2>1. ASSUME NEW tested \in records, NEW from \in records, NEW p \in Pnls,
               RollClose(tested, from, p)
        PROVE  [Condor!Next]_<<LegsOpen, Rolled>>
    BY <1>1, <2>1 DEF RollClose, TypeOK
  <2>2. ASSUME NEW i \in Id, RollOpen(i)
        PROVE  [Condor!Next]_<<LegsOpen, Rolled>>
    BY <2>2, RollRefines, SidesAreCondor DEF Condor!Next
  <2>3. RollFlag => [Condor!Next]_<<LegsOpen, Rolled>>
    BY FlagRefines, SidesAreCondor DEF Condor!Next
  <2>4. RollEnds => [Condor!Next]_<<LegsOpen, Rolled>>
    BY SameRefines DEF RollEnds, bookVars
  <2> QED
    BY <1>5, <2>1, <2>2, <2>3, <2>4 DEF RollStep
<1>6. CASE EntryStep
  BY <1>6, EntryRefines
<1>7. CASE FaultStep \/ Advance
  BY <1>7, SameRefines DEF FaultStep, TickAborted, Crash, FlattenFailed, Advance, bookVars
<1>8. CASE Start
  <2>1. RowsShrink
    BY <1>8, StartRows DEF RowsShrink
  <2> QED
    BY <2>1, ShrinkRefines
<1> QED
  BY <1>2, <1>3, <1>4, <1>5, <1>6, <1>7, <1>8 DEF Next, LoopStep

LEMMA InitRefines == Init => RollStage /\ BookedInv /\ Condor!Init
<1> SUFFICES ASSUME Init PROVE RollStage /\ BookedInv /\ Condor!Init
  OBVIOUS
<1>1. OpenRows = {} /\ OpenLegs = {}
  BY DEF Init, BookInit, NoRow, OpenRows, OpenLegs
<1>2. LegsOpen = Condor!Flat
  BY <1>1, SidesAreCondor DEF LegsOpen, OnSide, Condor!Flat
<1>3. Rolled = FALSE
  BY <1>1 DEF Rolled
<1> QED
  BY <1>2, <1>3 DEF Init, BookInit, IdleTick, BookedInv, RollStage, Condor!Init

\* As long as writes to the table succeed, the loop with its kills, restarts,
\* missing chains and failing orders implements what a condor promises: every
\* step of main.py's loop is one step of the structure or none of it.
THEOREM LoopImplementsCondor ==
  ASSUME "db" \notin Faults
  PROVE  Spec => ImplementsCondor
<1>1. Init => BookedInv /\ RollStage /\ Condor!Init
  BY InitRefines
<1>2. IInv /\ BookedInv /\ [Next]_vars => BookedInv'
  BY BookedStep, BookedStutter
<1>3. IInv /\ RollInv /\ BookedInv /\ RollStage /\ [Next]_vars => RollStage'
  <2>1. ASSUME RollStage, UNCHANGED vars
        PROVE  RollStage'
    <3>1. UNCHANGED <<rows, pc, roll>>
      BY <2>1 DEF vars, bookVars, tickVars
    <3> QED
      BY <2>1, <3>1 DEF RollStage, RolledCondors, OpenLegs, OpenRows
  <2> QED
    BY <2>1, RollStageStep
<1>4. RefineInv /\ RefineInv' /\ [Next]_vars => [Condor!Next]_<<LegsOpen, Rolled>>
  <2>1. ASSUME UNCHANGED vars
        PROVE  UNCHANGED <<LegsOpen, Rolled>>
    <3>1. UNCHANGED rows
      BY <2>1 DEF vars, bookVars
    <3> QED
      BY <3>1 DEF LegsOpen, OnSide, Rolled, OpenLegs, OpenRows
  <2> QED
    BY <2>1, StepRefines
<1>5. RefineInv <=> IInv /\ RollInv /\ BookedInv /\ RollStage
  BY DEF RefineInv
<1> QED
  BY <1>1, <1>2, <1>3, <1>4, <1>5, Inductive, RollInductive, PTL
     DEF Spec, ImplementsCondor, Condor!Spec, Condor!structure

=============================================================================
