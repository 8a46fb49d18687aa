-------------------------- MODULE TradingBookProofs --------------------------
(***************************************************************************)
(* Proofs about TradingLoop, continued: the position that is not a condor  *)
(* leg and the single roll of a condor.  TradingLoopProofs has the types   *)
(* and the legs (IInv).                                                    *)
(***************************************************************************)
EXTENDS TradingLoopProofs

\* Flagging the tested vertical touches nothing but its wing.
LEMMA RollFlagRows ==
  ASSUME TypeOK, RollFlag
  PROVE  \A i \in Id : /\ rows'[i].st = rows[i].st /\ rows'[i].kind = rows[i].kind
                       /\ rows'[i].side = rows[i].side /\ rows'[i].condor = rows[i].condor
                       /\ rows[i].wing => rows'[i].wing
<1> DEFINE final == [rows[roll.tested] EXCEPT !.wing = TRUE]
<1>1. rows' = [rows EXCEPT ![roll.tested] = final]
  BY DEF RollFlag, FlagBrokenWing
<1>2. CASE roll.tested \in Id
  <2>1. rows[roll.tested] \in Row
    BY <1>2 DEF TypeOK
  <2>2. /\ final.st = rows[roll.tested].st /\ final.side = rows[roll.tested].side
        /\ final.kind = rows[roll.tested].kind /\ final.condor = rows[roll.tested].condor
        /\ final.wing
    BY <2>1 DEF Row
  <2>3. \A i \in Id : rows'[i] = IF i = roll.tested THEN final ELSE rows[i]
    BY <1>1 DEF TypeOK
  <2> HIDE DEF final
  <2> QED
    BY <2>2, <2>3
<1>3. CASE roll.tested \notin Id
  BY <1>1, <1>3 DEF TypeOK
<1> QED
  BY <1>2, <1>3

\* A start closes what has expired and rewrites nothing else.
LEMMA StartRows ==
  ASSUME TypeOK, Start
  PROVE  \A i \in Id : /\ rows'[i].kind = rows[i].kind /\ rows'[i].side = rows[i].side
                       /\ rows'[i].condor = rows[i].condor /\ rows'[i].wing = rows[i].wing
                       /\ rows'[i].st = "open" => rows[i].st = "open" /\ i \notin Expired(day)
                       /\ rows'[i].st = "none" <=> rows[i].st = "none"
<1>1. rows' = [i \in Id |-> IF i \in Expired(day)
                            THEN [rows[i] EXCEPT !.st = "closed"] ELSE rows[i]]
  BY DEF Start, RecoverOpenPosition
<1>2. \A i \in Id : /\ [rows[i] EXCEPT !.st = "closed"].st = "closed"
                    /\ [rows[i] EXCEPT !.st = "closed"].side = rows[i].side
                    /\ [rows[i] EXCEPT !.st = "closed"].kind = rows[i].kind
                    /\ [rows[i] EXCEPT !.st = "closed"].condor = rows[i].condor
                    /\ [rows[i] EXCEPT !.st = "closed"].wing = rows[i].wing
  <2>1. \A i \in Id : rows[i] \in Row
    BY DEF TypeOK
  <2> QED
    BY <2>1 DEF Row
<1>3. \A i \in Expired(day) : rows[i].st = "open"
  BY DEF Expired, OpenRows
<1>4. \A i \in Id : rows'[i] = IF i \in Expired(day)
                            THEN [rows[i] EXCEPT !.st = "closed"] ELSE rows[i]
  BY <1>1
<1> QED
  BY <1>2, <1>3, <1>4

-----------------------------------------------------------------------------
(* The single position.                                                     *)

Singles == OpenRows \ OpenLegs

\* Where the list stands in the middle of a tick: a pass over it still has the
\* position before it or has kept it, and the entry engine starts without one.
SingleInv ==
  /\ SinglePosition /\ SingleTracked
  /\ pc = "manage" => Singles \subseteq todo \cup kept
  /\ pc \in {"leg", "legOrder", "roll", "rollOpen", "rollFlag"} => Singles \subseteq records
  /\ pc \in {"huntOrder", "enter"} => Singles = {}

LEMMA SinglesExit ==
  ASSUME rows \in [Id -> Row], NEW i \in Id, NEW p, LogExit(i, p)
  PROVE  Singles' \subseteq Singles \ {i}
<1>1. /\ OpenRows' \subseteq OpenRows
      /\ \A j \in Id : rows'[j].kind = rows[j].kind
  BY LogExitRows
<1>2. rows'[i].st = "closed"
  <2>1. rows[i] \in Row
    OBVIOUS
  <2> QED
    BY <2>1 DEF LogExit, Row
<1> QED
  BY <1>1, <1>2 DEF Singles, OpenLegs, OpenRows

LEMMA SinglesLeg ==
  ASSUME rows \in [Id -> Row], NEW i \in Id, NEW r, LogEntry(i, r), r.kind \in LegKinds
  PROVE  Singles' \subseteq Singles
<1>1. rows'[i] = r /\ \A j \in Id \ {i} : rows'[j] = rows[j]
  BY LogEntryRows
<1> QED
  BY <1>1 DEF Singles, OpenLegs, OpenRows

LEMMA SingleShrinks ==
  ASSUME SinglePosition, Singles' \subseteq Singles
  PROVE  SinglePosition'
BY DEF SinglePosition, Singles, OpenLegs, OpenRows

\* A step that takes nothing off the list but what it closes.
LEMMA SingleKept ==
  ASSUME SingleInv, Singles' \subseteq Singles, Singles' \cap records \subseteq records',
         records = {} => records' = {},
         up' => up,
         pc' \notin {"manage", "leg", "legOrder", "roll", "rollOpen", "rollFlag", "huntOrder",
                    "enter"}
  PROVE  SingleInv'
<1>1. SinglePosition'
  BY SingleShrinks DEF SingleInv
<1>2. SingleTracked'
  BY DEF SingleInv, SingleTracked, Singles
<1> QED
  BY <1>1, <1>2 DEF SingleInv

\* A step after which every single position is on the list.
LEMMA SingleListed ==
  ASSUME SinglePosition, Singles' \subseteq Singles, Singles' \subseteq records',
         pc' = "manage" => Singles' \subseteq todo' \cup kept',
         pc' \notin {"huntOrder", "enter"}
  PROVE  SingleInv'
<1>1. SinglePosition'
  BY SingleShrinks
<1> QED
  BY <1>1 DEF SingleInv, SingleTracked, Singles

LEMMA SinglesSame ==
  ASSUME UNCHANGED rows
  PROVE  Singles' = Singles
BY DEF Singles, OpenLegs, OpenRows

LEMMA SingleHead ==
  ASSUME TypeOK, SingleInv, TickHead
  PROVE  SingleInv'
<1>1. CASE ClosedTick
  <2>1. Singles' = Singles /\ records' = records /\ up' = up /\ pc' = "idle"
    BY <1>1, SinglesSame DEF ClosedTick, EndTick, Reset, bookVars
  <2> QED
    BY <2>1, SingleKept
<1>2. CASE OpenTick /\ pc' \notin {"huntOrder", "enter"}
  <2>1. Singles' = Singles /\ records' = Reloaded /\ todo' = Reloaded /\ up
    BY <1>2, SinglesSame DEF OpenTick
  <2>2. Singles \subseteq Reloaded
    BY <2>1 DEF SingleInv, SingleTracked, Reloaded, Singles
  <2> QED
    BY <1>2, <2>1, <2>2, SingleListed DEF SingleInv
<1>3. TickHead => ClosedTick \/ (OpenTick /\ pc' \notin {"huntOrder", "enter"})
  BY DEF TickHead, BeginHardClose, BeginTick, GoTo
<1> QED
  BY <1>1, <1>2, <1>3

LEMMA SingleFlatten ==
  ASSUME TypeOK, SingleInv, FlattenStep \/ \E r \in todo : FlattenFailed(r)
  PROVE  SingleInv'
<1>1. ASSUME NEW r \in todo, NEW p \in Pnls, FlattenOne(r, p)
      PROVE  SingleInv'
  <2>1. Singles' \subseteq Singles \ {r}
    BY <1>1, SinglesExit DEF FlattenOne, TypeOK
  <2>2. records' = records \ {r} /\ up' = up /\ pc' = "flatten"
    BY <1>1 DEF FlattenOne, RemoveRecord, GoTo, procVars
  <2> QED
    BY <2>1, <2>2, SingleKept
<1>2. ASSUME NEW r \in todo, FlattenFailed(r)
      PROVE  SingleInv'
  <2>1. Singles' = Singles /\ records' = records /\ up' = up /\ pc' = "flatten"
    BY <1>2, SinglesSame DEF FlattenFailed, bookVars, procVars, GoTo
  <2> QED
    BY <2>1, SingleKept
<1>3. CASE FlattenDone
  <2>1. Singles' = Singles /\ records' = records /\ up' = up /\ pc' = "idle"
    BY <1>3, SinglesSame DEF FlattenDone, EndTick, Reset, bookVars, procVars
  <2> QED
    BY <2>1, SingleKept
<1> QED
  BY <1>1, <1>2, <1>3 DEF FlattenStep

LEMMA SingleManage ==
  ASSUME TypeOK, SingleInv, ManageStep
  PROVE  SingleInv'
<1>1. ASSUME NEW r \in todo, ManageKeep(r)
      PROVE  SingleInv'
  <2>1. /\ Singles' = Singles /\ records' = records /\ up' = up /\ pc' = "manage"
        /\ pc = "manage" /\ todo' \cup kept' = todo \cup kept
    BY <1>1, SinglesSame DEF ManageKeep, bookVars, procVars, GoTo
  <2> QED
    BY <2>1, SingleShrinks DEF SingleInv, SingleTracked, Singles
<1>2. ASSUME NEW r \in todo, NEW p \in Pnls, ManageExit(r, p)
      PROVE  SingleInv'
  <2>1. Singles' \subseteq Singles \ {r}
    BY <1>2, SinglesExit DEF ManageExit, TypeOK
  <2>2. /\ records' = records /\ up' = up /\ pc' = "manage" /\ pc = "manage"
        /\ todo' = todo \ {r} /\ kept' = kept
    BY <1>2 DEF ManageExit, procVars, GoTo
  <2>3. SinglePosition'
    BY <2>1, SingleShrinks DEF SingleInv
  <2> QED
    BY <2>1, <2>2, <2>3 DEF SingleInv, SingleTracked, Singles
<1>3. CASE ManageDone
  <2>1. /\ Singles' = Singles /\ records' = kept /\ todo = {} /\ pc' = "leg"
        /\ pc = "manage"
    BY <1>3, SinglesSame DEF ManageDone, GoTo
  <2> QED
    BY <2>1, SingleListed DEF SingleInv
<1> QED
  BY <1>1, <1>2, <1>3 DEF ManageStep

LEMMA ExecuteLegSingles ==
  ASSUME TypeOK, NEW i \in Id, ExecuteLeg(i)
  PROVE  Singles' \subseteq Singles /\ records' = records \cup {i}
<1>1. PICK e \in Tenors : LogEntry(i, LegRow(i, e))
  BY DEF ExecuteLeg
<1>2. LegRow(i, e).kind \in LegKinds
  BY DEF LegRow, OpenRow, LegKinds
<1> QED
  BY <1>1, <1>2, SinglesLeg DEF ExecuteLeg, AddCondorLeg, TypeOK

LEMMA SingleLeg ==
  ASSUME TypeOK, SingleInv, LegStep
  PROVE  SingleInv'
<1>1. pc \in {"leg", "legOrder"} /\ pc' \in {"legOrder", "roll"}
  BY DEF LegStep, LegDropped, LegDue, LegFires, LegWaits, LegRejected, GoTo
<1>2. CASE LegDropped \/ LegDue \/ LegWaits \/ LegRejected
  <2>1. Singles' = Singles /\ records' = records
    BY <1>2, SinglesSame DEF LegDropped, LegDue, LegWaits, LegRejected, bookVars
  <2> QED
    BY <1>1, <2>1, SingleListed DEF SingleInv
<1>3. ASSUME NEW i \in Id, LegFires(i)
      PROVE  SingleInv'
  BY <1>1, <1>3, ExecuteLegSingles, SingleListed DEF LegFires, SingleInv
<1> QED
  BY <1>2, <1>3 DEF LegStep

LEMMA SingleRoll ==
  ASSUME TypeOK, SingleInv, RollStep
  PROVE  SingleInv'
<1>1. ASSUME NEW tested \in records, NEW from \in records, NEW p \in Pnls,
             RollClose(tested, from, p)
      PROVE  SingleInv'
  <2>1. Singles' \subseteq Singles \ {from}
    BY <1>1, SinglesExit DEF RollClose, TypeOK
  <2>2. records' = records \ {from} /\ pc = "roll" /\ pc' = "rollOpen"
    BY <1>1 DEF RollClose, RemoveRecord, GoTo
  <2> QED
    BY <2>1, <2>2, SingleListed DEF SingleInv
<1>2. ASSUME NEW i \in Id, RollOpen(i)
      PROVE  SingleInv'
  <2>1. OpenRow("roll", rows[roll.from].side, TRUE, rows[roll.from].condor, day, 0).kind
          \in LegKinds
    BY DEF OpenRow, LegKinds
  <2>2. Singles' \subseteq Singles
    BY <1>2, <2>1, SinglesLeg DEF RollOpen, TypeOK
  <2>3. records' = records \cup {i} /\ pc = "rollOpen" /\ pc' = "rollFlag"
    BY <1>2 DEF RollOpen, AddCondorLeg, GoTo
  <2> QED
    BY <2>2, <2>3, SingleListed DEF SingleInv
<1>3. CASE RollFlag
  <2>1. \A i \in Id : rows'[i].st = rows[i].st /\ rows'[i].kind = rows[i].kind
    BY <1>3, RollFlagRows
  <2>2. Singles' = Singles
    BY <2>1 DEF Singles, OpenLegs, OpenRows
  <2>3. records' = records /\ up' = up /\ pc' = "idle"
    BY <1>3 DEF RollFlag, EndTick, Reset, procVars
  <2> QED
    BY <2>2, <2>3, SingleKept
<1>4. CASE RollEnds
  <2>1. Singles' = Singles /\ records' = records /\ up' = up /\ pc' = "idle"
    BY <1>4, SinglesSame DEF RollEnds, EndTick, Reset, bookVars, procVars
  <2> QED
    BY <2>1, SingleKept
<1> QED
  BY <1>1, <1>2, <1>3, <1>4 DEF RollStep

LEMMA ProceedGoes ==
  ASSUME NEW s, Proceed(s)
  PROVE  pc' \in {"idle", "enter"}
BY DEF Proceed, EndTick, Reset, GoTo

LEMMA SingleEntry ==
  ASSUME TypeOK, StageInv, SingleInv, EntryStep
  PROVE  SingleInv'
<1>1. CASE EntryRefused \/ EntryRejected
  <2>1. Singles' = Singles /\ records' = records /\ up' = up /\ pc' = "idle"
    BY <1>1, SinglesSame DEF EntryRefused, EntryRejected, EndTick, Reset, bookVars, procVars
  <2> QED
    BY <2>1, SingleKept
\* Whatever the gate and the signal, a tick that got here began without a row.
<1>2. ASSUME pc \in {"entry", "hunt", "huntOrder"},
             pc' \in {"idle", "hunt", "huntOrder", "enter"}, Singles' \subseteq Singles
      PROVE  SingleInv'
  <2>1. Singles = {}
    BY <1>2 DEF StageInv, SingleInv, Singles
  <2> QED
    BY <1>2, <2>1, SingleShrinks DEF SingleInv, SingleTracked, Singles
<1>3. CASE EntryAllowed \/ EntryLegRejected
  <2>1. pc \in {"entry", "huntOrder"} /\ pc' \in {"idle", "hunt", "enter"}
    BY <1>3, ProceedGoes DEF EntryAllowed, EntryLegRejected, GoTo
  <2> QED
    BY <1>2, <1>3, <2>1, SinglesSame DEF EntryAllowed, EntryLegRejected, bookVars
<1>4. ASSUME NEW s \in Signals, NEW side \in Sides \cup {"none"},
             EntryDecides(s, side) \/ EntryDropsLeg(s) \/ EntryLegDue(s) \/ EntryLegWaits(s)
      PROVE  SingleInv'
  <2>1. pc = "hunt" /\ pc' \in {"idle", "huntOrder", "enter"} /\ UNCHANGED rows
    BY <1>4, ProceedGoes DEF EntryDecides, EntryDropsLeg, EntryLegDue, EntryLegWaits,
       TakeSignal, GoTo, bookVars
  <2> QED
    BY <1>2, <2>1, SinglesSame
<1>5. ASSUME NEW i \in Id, EntryFiresLeg(i)
      PROVE  SingleInv'
  BY <1>2, <1>5, ExecuteLegSingles, ProceedGoes DEF EntryFiresLeg
<1>6. ASSUME NEW i \in Id, EntryFilled(i)
      PROVE  SingleInv'
  <2>1. PICK e \in Tenors :
          LogEntry(i, OpenRow(signal, "none", FALSE, 0, day, day + e))
    BY <1>6 DEF EntryFilled
  <2>2. \A j \in Id \ {i} : rows'[j] = rows[j]
    BY <2>1, LogEntryRows DEF TypeOK
  <2>3. Singles = {} /\ records' = {i} /\ pc' = "idle"
    BY <1>6 DEF EntryFilled, SetOpenPosition, EndTick, Reset, SingleInv
  <2>4. Singles' \subseteq {i}
    BY <2>2, <2>3 DEF Singles, OpenLegs, OpenRows
  <2>5. SinglePosition'
    BY <2>4 DEF SinglePosition, Singles, OpenLegs, OpenRows
  <2> QED
    BY <2>3, <2>4, <2>5 DEF SingleInv, SingleTracked, Singles
<1>7. "none" \in Sides \cup {"none"}
  OBVIOUS
<1> QED
  BY <1>1, <1>3, <1>4, <1>5, <1>6, <1>7 DEF EntryStep

LEMMA SingleOther ==
  ASSUME TypeOK, SingleInv, TickAborted \/ Crash \/ Start \/ Advance
  PROVE  SingleInv'
<1>1. CASE TickAborted
  <2>1. Singles' = Singles /\ records' = records /\ up' = up /\ pc' = "idle"
    BY <1>1, SinglesSame DEF TickAborted, Reset, bookVars, procVars
  <2> QED
    BY <2>1, SingleKept
<1>2. CASE Crash
  <2>1. Singles' = Singles /\ records' = {} /\ pc' = "idle"
    BY <1>2, SinglesSame DEF Crash, Reset
  <2> QED
    BY <2>1, SingleShrinks DEF SingleInv, SingleTracked
<1>3. CASE Start
  <2>1. \A i \in Id : /\ rows'[i].kind = rows[i].kind
                      /\ rows'[i].st = "open" => rows[i].st = "open" /\ i \notin Expired(day)
    BY <1>3, StartRows
  <2>2. Singles' \subseteq Singles /\ Singles' \subseteq OpenRows \ Expired(day)
    BY <2>1 DEF Singles, OpenLegs, OpenRows
  <2>3. records' = OpenRows \ Expired(day) /\ pc' = "idle"
    BY <1>3 DEF Start, RecoverOpenPosition, Reset
  <2> QED
    BY <2>2, <2>3, SingleListed DEF SingleInv
<1>4. CASE Advance
  <2>1. Singles' = Singles /\ UNCHANGED <<rows, records, up, pc, todo, kept>>
    BY <1>4, SinglesSame DEF Advance, bookVars, procVars
  <2> QED
    BY <2>1 DEF SingleInv, SinglePosition, SingleTracked, OpenLegs, OpenRows
<1> QED
  BY <1>1, <1>2, <1>3, <1>4

LEMMA SingleStep ==
  ASSUME IInv, SingleInv, [Next]_vars
  PROVE  SingleInv'
<1> TypeOK /\ StageInv
  BY DEF IInv, LegInv
<1>1. CASE UNCHANGED vars
  BY <1>1 DEF vars, planVars, bookVars, haltVars, clockVars, procVars, tickVars, SingleInv,
     SinglePosition, SingleTracked, Singles, OpenLegs, OpenRows
<1>2. CASE Next
  BY <1>2, SingleHead, SingleFlatten, SingleManage, SingleLeg, SingleRoll, SingleEntry,
     SingleOther DEF Next, LoopStep, FaultStep
<1> QED
  BY <1>1, <1>2

LEMMA SingleInductive == Spec => []SingleInv
<1>1. Init => SingleInv
  BY DEF Init, BookInit, NoRow, IdleTick, SingleInv, SinglePosition, SingleTracked,
     Singles, OpenLegs, OpenRows
<1>2. IInv /\ SingleInv /\ [Next]_vars => SingleInv'
  BY SingleStep
<1> QED
  BY <1>1, <1>2, Inductive, PTL DEF Spec

\* Every strategy but the condor holds one position at a time, for any number
\* of rows, days, restarts and failures (set_open_position and
\* attempt_new_entry, which the loop reaches only without a position).
THEOREM OnePosition == Spec => []SinglePosition
<1>1. SingleInv => SinglePosition
  BY DEF SingleInv
<1> QED
  BY <1>1, SingleInductive, PTL

\* A position that is not a leg stays on the list for as long as the list is
\* not reloaded (has_open_position, manage_open_position, add_condor_leg).
THEOREM PositionStaysListed == Spec => []SingleTracked
<1>1. SingleInv => SingleTracked
  BY DEF SingleInv
<1> QED
  BY <1>1, SingleInductive, PTL

-----------------------------------------------------------------------------
(* The single roll.  The legs that are open or listed at one time belong to  *)
(* one condor; once that condor has a rolled vertical at most one of them is *)
(* not in final form, and a roll needs two.                                  *)

RolledCondors == {rows[j].condor : j \in {k \in Id : rows[k].kind = "roll"}}

RowsInv ==
  \A i \in Id :
    /\ rows[i].st = "none" => rows[i].kind = "none"
    /\ rows[i].kind \in LegKinds => rows[i].side \in Sides
    /\ rows[i].condor # 0 => rows[rows[i].condor].st # "none"

CondorInv ==
  /\ \A i, j \in Legs : rows[i].condor = rows[j].condor
  /\ plan.state = "LEG1_FILLED" =>
       /\ plan.condor \in Id /\ rows[plan.condor].st # "none" /\ plan.condor \notin RolledCondors
       /\ \A i \in Legs : rows[i].condor = plan.condor
  /\ \A i, j \in Legs :
       rows[i].condor \in RolledCondors /\ ~rows[i].wing /\ ~rows[j].wing => i = j
  /\ pc = "rollOpen" =>
       /\ rows[roll.from].kind \in LegKinds /\ rows[roll.from].condor \notin RolledCondors
       /\ \A i \in Legs : rows[i].condor = rows[roll.from].condor

RollInv == RowsInv /\ CondorInv /\ RolledOnce

\* What no step but an entry does to a row.
RowsKept ==
  \A i \in Id : /\ rows'[i].kind = rows[i].kind /\ rows'[i].condor = rows[i].condor
                /\ rows'[i].side = rows[i].side
                /\ rows[i].wing => rows'[i].wing
                /\ rows'[i].st = "none" => rows[i].st = "none"
                /\ rows'[i].st = "open" => rows[i].st = "open"

\* The plan stays, or waits for no Leg 2.
PlanStays == plan' = plan \/ plan'.state # "LEG1_FILLED"

LEMMA LegsAreRows == TypeOK => Legs \subseteq Id
BY DEF Legs, OpenLegs, OpenRows, LegRecords, TypeOK

LEMMA RollKept ==
  ASSUME TypeOK, RollInv, RowsKept, records' \subseteq records \cup OpenRows, PlanStays
  PROVE  /\ RowsInv' /\ RolledOnce' /\ Legs' \subseteq Legs
         /\ RolledCondors' = RolledCondors
         /\ pc' # "rollOpen" => RollInv'
<1>1. \A i \in Id : rows[i].condor \in Id \cup {0}
  BY DEF TypeOK, Row
<1>2. RowsInv' /\ RolledOnce' /\ RolledCondors' = RolledCondors
  BY <1>1 DEF RowsKept, RollInv, RowsInv, RolledOnce, RolledCondors
<1>3. Legs' \subseteq Legs
  BY DEF RowsKept, Legs, OpenLegs, OpenRows, LegRecords, TypeOK
<1>4. Legs \subseteq Id
  BY LegsAreRows
<1>5. ASSUME pc' # "rollOpen"
      PROVE  CondorInv'
  <2>1. \A i, j \in Legs' : rows'[i].condor = rows'[j].condor
    BY <1>3, <1>4 DEF RowsKept, RollInv, CondorInv
  <2>2. (plan.state = "LEG1_FILLED")' =>
           /\ plan'.condor \in Id /\ rows'[plan'.condor].st # "none"
           /\ plan'.condor \notin RolledCondors' /\ \A i \in Legs' : rows'[i].condor = plan'.condor
    BY <1>2, <1>3, <1>4 DEF PlanStays, RowsKept, RollInv, CondorInv
  <2>3. \A i, j \in Legs' :
          rows'[i].condor \in RolledCondors' /\ ~rows'[i].wing /\ ~rows'[j].wing => i = j
    BY <1>2, <1>3, <1>4 DEF RowsKept, RollInv, CondorInv
  <2> QED
    BY <1>5, <2>1, <2>2, <2>3, <1>2 DEF CondorInv, RolledCondors
<1> QED
  BY <1>2, <1>3, <1>5 DEF RollInv

LEMMA ExitKeepsRows ==
  ASSUME rows \in [Id -> Row], NEW r \in Id, NEW p, LogExit(r, p)
  PROVE  RowsKept
<1> DEFINE closed == [rows[r] EXCEPT !.st = "closed", !.pnl = p]
<1>1. \A i \in Id : rows'[i] = IF i = r THEN closed ELSE rows[i]
  BY DEF LogExit
<1>2. /\ closed.st = "closed" /\ closed.side = rows[r].side /\ closed.kind = rows[r].kind
      /\ closed.condor = rows[r].condor /\ closed.wing = rows[r].wing
  <2>1. rows[r] \in Row
    OBVIOUS
  <2> QED
    BY <2>1 DEF Row
<1> HIDE DEF closed
<1> QED
  BY <1>1, <1>2 DEF RowsKept

LEMMA SameKeepsRows == UNCHANGED rows => RowsKept
BY DEF RowsKept

LEMMA RollHead ==
  ASSUME TypeOK, RollInv, TickHead
  PROVE  RollInv'
<1>1. rows' = rows /\ records' \subseteq records \cup OpenRows /\ pc' # "rollOpen"
  BY DEF TickHead, ClosedTick, BeginHardClose, BeginTick, OpenTick, EndTick, Reset, GoTo,
     Reloaded, bookVars
<1>2. PlanStays
  BY DEF TickHead, ClosedTick, BeginHardClose, BeginTick, planVars, PlanStays
<1> QED
  BY <1>1, <1>2, SameKeepsRows, RollKept

LEMMA RollFlattenManage ==
  ASSUME TypeOK, StageInv, RollInv,
         FlattenStep \/ ManageStep \/ \E r \in todo : FlattenFailed(r)
  PROVE  RollInv'
<1>1. ASSUME NEW r \in todo, NEW p \in Pnls, FlattenOne(r, p) \/ ManageExit(r, p)
      PROVE  RollInv'
  <2>1. RowsKept
    BY <1>1, ExitKeepsRows DEF FlattenOne, ManageExit, TypeOK
  <2>2. records' \subseteq records /\ plan' = plan /\ pc' # "rollOpen"
    BY <1>1 DEF FlattenOne, ManageExit, RemoveRecord, GoTo, planVars
  <2> QED
    BY <2>1, <2>2, RollKept DEF PlanStays
<1>2. ASSUME \/ \E r \in todo : FlattenFailed(r) \/ ManageKeep(r)
             \/ FlattenDone \/ ManageDone
      PROVE  RollInv'
  <2>1. rows' = rows /\ records' \subseteq records /\ plan' = plan /\ pc' # "rollOpen"
    BY <1>2 DEF FlattenFailed, ManageKeep, FlattenDone, ManageDone, EndTick, Reset, GoTo,
       planVars, bookVars, StageInv
  <2> QED
    BY <2>1, SameKeepsRows, RollKept DEF PlanStays
<1> QED
  BY <1>1, <1>2 DEF FlattenStep, ManageStep

\* A row that is entered is new, so no roll refers to it.
LEMMA EntryIsNew ==
  ASSUME TypeOK, StageInv, RowsInv, NEW i \in Id, NEW r \in Row, LogEntry(i, r)
  PROVE  /\ rows'[i] = r /\ \A j \in Id \ {i} : rows'[j] = rows[j]
         /\ rows[i].st = "none" /\ rows[i].kind = "none"
         /\ i \notin records /\ i \notin Legs
         /\ i \notin RolledCondors
         /\ r.kind # "roll" => RolledCondors' = RolledCondors
         /\ /\ r.st = "open" /\ (r.kind \in LegKinds => r.side \in Sides)
            /\ r.condor = i \/ (r.condor # 0 => rows[r.condor].st # "none")
            => RowsInv'
<1>1. /\ rows[i].st = "none" /\ rows'[i] = r /\ \A j \in Id \ {i} : rows'[j] = rows[j]
  BY LogEntryRows DEF TypeOK
<1>2. rows[i].kind = "none"
  BY <1>1 DEF RowsInv
<1>3. i \notin records /\ i \notin Legs
  BY <1>1 DEF StageInv, Legs, OpenLegs, OpenRows, LegRecords
<1>4. i \notin RolledCondors
  <2>1. i # 0
    BY BookAssumption DEF Id
  <2>2. ASSUME NEW j \in Id, rows[j].kind = "roll", rows[j].condor = i
        PROVE  FALSE
    BY <1>1, <2>1, <2>2 DEF RowsInv
  <2> QED
    BY <2>2 DEF RolledCondors
<1>5. ASSUME r.kind # "roll"
      PROVE  RolledCondors' = RolledCondors
  BY <1>1, <1>2, <1>5 DEF RolledCondors
<1>6. ASSUME r.st = "open", r.kind \in LegKinds => r.side \in Sides,
             r.condor = i \/ (r.condor # 0 => rows[r.condor].st # "none")
      PROVE  RowsInv'
  <2>1. \A j \in Id : rows[j].condor \in Id \cup {0}
    BY DEF TypeOK, Row
  <2>2. r.condor \in Id \cup {0}
    BY DEF Row
  <2>3. \A j \in Id : rows[j].st # "none" => rows'[j].st # "none"
    BY <1>1, <1>6
  <2> QED
    BY <1>1, <1>6, <2>1, <2>2, <2>3 DEF RowsInv
<1> QED
  BY <1>1, <1>2, <1>3, <1>4, <1>5, <1>6

LEMMA RollExecuteLeg ==
  ASSUME TypeOK, LegInv, RollInv, NEW i \in Id, ExecuteLeg(i), HasActivePlan,
         pc' # "rollOpen"
  PROVE  RollInv'
<1>1. PICK e \in Tenors : LogEntry(i, LegRow(i, e))
  BY DEF ExecuteLeg
<1>2. PendingSide \in Sides
  BY DEF PendingSide, Other, TypeOK, PlanType, Sides
<1> DEFINE leg == LegRow(i, e)
<1>3. /\ leg.st = "open" /\ leg.side \in Sides /\ leg.kind \in {"leg1", "leg2"}
      /\ leg.condor = IF plan.state = "DECIDED" THEN i ELSE plan.condor
  BY <1>2 DEF LegRow, OpenRow
<1>4. leg \in Row
  <2>1. plan.condor \in Id \cup {0} /\ day \in Nat /\ day + e \in Nat
    BY LoopAssumption DEF TypeOK, PlanType
  <2>2. PendingSide \in {"call", "put", "none"}
    BY <1>2 DEF Sides
  <2>3. {"leg1", "leg2"} \subseteq Kinds \cup {"none"}
    BY DEF Kinds, LegKinds
  <2> QED
    BY <2>1, <2>2, <2>3, OpenRowType DEF LegRow
<1> HIDE DEF leg
<1>5. RowsInv /\ StageInv
  BY DEF RollInv, LegInv
<1>6. LogEntry(i, leg)
  BY <1>1 DEF leg
<1>7. leg.kind # "roll" /\ leg.kind \in LegKinds
  BY <1>3 DEF LegKinds
<1>8. leg.condor = i \/ (leg.condor # 0 => rows[leg.condor].st # "none")
  BY <1>3 DEF HasActivePlan, RollInv, CondorInv
<1>9. /\ rows'[i] = leg /\ \A j \in Id \ {i} : rows'[j] = rows[j]
      /\ i \notin Legs /\ i \notin RolledCondors
      /\ RowsInv' /\ RolledCondors' = RolledCondors
  BY <1>3, <1>4, <1>5, <1>6, <1>7, <1>8, EntryIsNew
<1>10. Legs' \subseteq Legs \cup {i} /\ Legs \subseteq Id
  <2>1. records' = records \cup {i}
    BY DEF ExecuteLeg, AddCondorLeg
  <2> QED
    BY <1>9, <2>1, LegsAreRows DEF Legs, OpenLegs, OpenRows, LegRecords, TypeOK
<1>11. RolledOnce'
  BY <1>7, <1>9 DEF RollInv, RolledOnce
<1>12. CondorInv'
  <2>1. CASE plan.state = "DECIDED"
    <3>1. plan'.condor = i /\ leg.condor = i
      BY <1>3, <2>1 DEF ExecuteLeg, NotifyLegFilled, TypeOK, PlanType
    <3>2. Legs' \subseteq {i}
      BY <1>10, <2>1 DEF LegInv, PlanMatchesLegs
    <3>3. i \notin RolledCondors'
      BY <1>9
    <3>4. rows'[i].st = "open"
      BY <1>3, <1>9
    <3> QED
      BY <3>1, <3>2, <3>3, <3>4, <1>9 DEF CondorInv, RolledCondors
  <2>2. CASE plan.state = "LEG1_FILLED"
    <3>1. plan'.state = "COMPLETE"
      BY <2>2 DEF ExecuteLeg, NotifyLegFilled, TypeOK, PlanType
    <3>2. \A j \in Legs' : rows'[j].condor = plan.condor
      BY <1>3, <1>9, <1>10, <2>2 DEF RollInv, CondorInv
    <3>3. plan.condor \notin RolledCondors'
      BY <1>9, <2>2 DEF RollInv, CondorInv
    <3>4. \A j \in Legs' : rows'[j].condor \notin RolledCondors'
      BY <3>2, <3>3
    <3> QED
      BY <3>1, <3>2, <3>4 DEF CondorInv, RolledCondors
  <2> QED
    BY <2>1, <2>2 DEF HasActivePlan
<1> QED
  BY <1>9, <1>11, <1>12 DEF RollInv

LEMMA DropStays ==
  ASSUME TypeOK, DropPendingLeg
  PROVE  PlanStays
BY DEF DropPendingLeg, PlanStays, NoPlan, TypeOK, PlanType

LEMMA DecideStays ==
  ASSUME NEW side, Decide(tick.regime, slot, day, side)
  PROVE  PlanStays
BY DEF Decide, PlanAfterReset, PlanStays, NoPlan

LEMMA RollFilled ==
  ASSUME TypeOK, LegInv, RollInv, NEW i \in Id, EntryFilled(i)
  PROVE  RollInv'
<1>1. PICK e \in Tenors : LogEntry(i, OpenRow(signal, "none", FALSE, 0, day, day + e))
  BY DEF EntryFilled
<1> DEFINE row == OpenRow(signal, "none", FALSE, 0, day, day + e)
<1>2. row.st = "open" /\ row.kind = signal /\ row.condor = 0
  BY DEF OpenRow
<1>3. row \in Row
  <2>1. signal \in Kinds \cup {"none"} /\ day \in Nat /\ day + e \in Nat
    BY LoopAssumption DEF TypeOK, Kinds, LegKinds
  <2> QED
    BY <2>1, OpenRowType
<1>4. LogEntry(i, row)
  BY <1>1
<1> HIDE DEF row
<1>5. row.kind \notin LegKinds /\ row.kind # "roll"
  BY <1>2 DEF TypeOK, LegKinds
<1>6. RowsInv /\ StageInv
  BY DEF RollInv, LegInv
<1>7. /\ rows'[i] = row /\ \A j \in Id \ {i} : rows'[j] = rows[j]
      /\ rows[i].st = "none" /\ i \notin Legs
      /\ RowsInv' /\ RolledCondors' = RolledCondors
  BY <1>2, <1>3, <1>4, <1>5, <1>6, EntryIsNew
<1>8. records' = {i} /\ plan' = plan /\ pc' = "idle"
  BY DEF EntryFilled, SetOpenPosition, EndTick, Reset, planVars
<1>9. Legs' \subseteq Legs /\ Legs \subseteq Id
  BY <1>5, <1>7, <1>8, LegsAreRows DEF Legs, OpenLegs, OpenRows, LegRecords
<1>10. \A j \in Legs' : rows'[j] = rows[j]
  BY <1>7, <1>9
<1>11. RolledOnce'
  BY <1>5, <1>7 DEF RollInv, RolledOnce
<1>12. plan'.state = "LEG1_FILLED" =>
          /\ plan'.condor \in Id /\ rows'[plan'.condor].st # "none"
          /\ plan'.condor \notin RolledCondors' /\ \A j \in Legs' : rows'[j].condor = plan'.condor
  BY <1>7, <1>8, <1>9, <1>10 DEF RollInv, CondorInv
<1>13. \A j, k \in Legs' :
         /\ rows'[j].condor = rows'[k].condor
         /\ rows'[j].condor \in RolledCondors' /\ ~rows'[j].wing /\ ~rows'[k].wing => j = k
  BY <1>7, <1>9, <1>10 DEF RollInv, CondorInv
<1>14. CondorInv'
  BY <1>8, <1>12, <1>13 DEF CondorInv, RolledCondors
<1> QED
  BY <1>7, <1>11, <1>14 DEF RollInv

LEMMA RollLeg ==
  ASSUME TypeOK, LegInv, RollInv, LegStep
  PROVE  RollInv'
<1>1. pc' \in {"legOrder", "roll"}
  BY DEF LegStep, LegDropped, LegDue, LegFires, LegWaits, LegRejected, GoTo
<1>2. CASE LegDropped \/ LegDue \/ LegWaits \/ LegRejected
  <2>1. rows' = rows /\ records' = records
    BY <1>2 DEF LegDropped, LegDue, LegWaits, LegRejected, bookVars
  <2>2. PlanStays
    BY <1>2, DropStays DEF LegDropped, LegDue, LegWaits, LegRejected, planVars, PlanStays
  <2> QED
    BY <1>1, <2>1, <2>2, SameKeepsRows, RollKept
<1>3. ASSUME NEW i \in Id, LegFires(i)
      PROVE  RollInv'
  BY <1>1, <1>3, RollExecuteLeg DEF LegFires, LegInv, StageInv, Leg2Pending, HasActivePlan
<1> QED
  BY <1>2, <1>3 DEF LegStep

LEMMA RollRollClose ==
  ASSUME TypeOK, LegInv, RollInv, NEW tested \in records, NEW from \in records,
         NEW p \in Pnls, RollClose(tested, from, p)
  PROVE  RollInv'
<1>1. /\ tested \in Id /\ from \in Id /\ LegRecords = {tested, from}
      /\ rows[tested].side = Other(rows[from].side)
      /\ ~rows[tested].wing /\ ~rows[from].wing
      /\ records' = records \ {from} /\ plan' = plan /\ roll'.from = from
  BY DEF RollClose, CanRoll, RemoveRecord, planVars, TypeOK
<1>2. tested # from
  BY <1>1 DEF Other
<1>3. {tested, from} \subseteq Legs
  BY <1>1 DEF Legs
<1>4. rows[from].condor \notin RolledCondors
  BY <1>1, <1>2, <1>3 DEF RollInv, CondorInv
<1>5. RowsKept
  BY <1>1, ExitKeepsRows DEF RollClose, TypeOK
<1>6. /\ RowsInv' /\ RolledOnce' /\ Legs' \subseteq Legs
      /\ RolledCondors' = RolledCondors
  BY <1>1, <1>5, RollKept DEF PlanStays
<1>7. ~HasActivePlan'
  <2>1. ~HasActivePlan
    BY <1>1, <1>3 DEF HasActivePlan, LegInv, PlanMatchesLegs, Other
  <2> QED
    BY <1>1, <2>1 DEF HasActivePlan
<1>8. \A j \in Legs' : rows'[j].condor = rows[from].condor
  BY <1>3, <1>5, <1>6, LegsAreRows DEF RowsKept, RollInv, CondorInv
<1>9. rows'[from].condor = rows[from].condor /\ rows'[from].kind \in LegKinds
  BY <1>1, <1>5 DEF RowsKept, LegRecords
<1>10. rows[from].condor \notin RolledCondors'
  BY <1>4, <1>6
<1>11. \A j \in Legs' : rows'[j].condor \notin RolledCondors'
  BY <1>8, <1>10
<1>12. /\ rows'[roll'.from].kind \in LegKinds
       /\ rows'[roll'.from].condor \notin RolledCondors'
       /\ \A j \in Legs' : rows'[j].condor = rows'[roll'.from].condor
  BY <1>1, <1>8, <1>9, <1>10
<1>13. CondorInv'
  BY <1>7, <1>8, <1>11, <1>12 DEF CondorInv, HasActivePlan, RolledCondors
<1> QED
  BY <1>6, <1>13 DEF RollInv

LEMMA RollRollOpen ==
  ASSUME TypeOK, LegInv, RollInv, NEW i \in Id, RollOpen(i)
  PROVE  RollInv'
<1> DEFINE from == roll.from
<1>1. /\ pc = "rollOpen" /\ from \in Id /\ ~HasActivePlan /\ plan' = plan
      /\ pc' = "rollFlag" /\ records' = records \cup {i}
      /\ rows[from].kind \in LegKinds /\ rows[from].condor \notin RolledCondors
      /\ \A j \in Legs : rows[j].condor = rows[from].condor
      /\ \A j \in Legs : rows[j].side # rows[from].side
  BY DEF RollOpen, AddCondorLeg, GoTo, planVars, LegInv, StageInv, RollInv, CondorInv
<1> DEFINE wing == OpenRow("roll", rows[from].side, TRUE, rows[from].condor, day, 0)
<1>2. /\ wing.st = "open" /\ wing.kind = "roll" /\ wing.side = rows[from].side
      /\ wing.wing = TRUE /\ wing.condor = rows[from].condor
  BY DEF OpenRow
<1>3. LogEntry(i, wing)
  BY DEF RollOpen
<1>4. rows[from] \in Row /\ day \in Nat
  BY <1>1 DEF TypeOK
<1>5. wing \in Row
  <2>1. "roll" \in Kinds \cup {"none"}
    BY DEF Kinds, LegKinds
  <2>2. rows[from].side \in {"call", "put", "none"} /\ rows[from].condor \in Id \cup {0}
    BY <1>4 DEF Row
  <2> QED
    BY <1>4, <2>1, <2>2, OpenRowType
<1> HIDE DEF wing, from
<1>6. wing.side \in Sides /\ (wing.condor # 0 => rows[wing.condor].st # "none")
  BY <1>1, <1>2 DEF RollInv, RowsInv
<1>7. RowsInv /\ StageInv
  BY DEF RollInv, LegInv
<1>8. /\ rows'[i] = wing /\ \A j \in Id \ {i} : rows'[j] = rows[j]
      /\ i \notin Legs /\ RowsInv' /\ rows[i].kind = "none"
  BY <1>2, <1>3, <1>5, <1>6, <1>7, EntryIsNew
<1>9. Legs' \subseteq Legs \cup {i} /\ Legs \subseteq Id
  BY <1>1, <1>8, LegsAreRows DEF Legs, OpenLegs, OpenRows, LegRecords, TypeOK
<1>10. RolledOnce'
  BY <1>1, <1>2, <1>8 DEF RollInv, RolledOnce, RolledCondors
<1>11. \A j \in Legs' : rows'[j].condor = rows[from].condor
  BY <1>1, <1>2, <1>8, <1>9
<1>12. \A j \in Legs : rows[j].side \in Sides
  BY <1>9 DEF RollInv, RowsInv, Legs, OpenLegs, LegRecords
<1>13. \A j, k \in Legs : j = k
  <2>1. \A j, k \in Legs : rows[j].side = rows[k].side
    BY <1>1, <1>2, <1>6, <1>12 DEF Sides
  <2>2. \A j, k \in OpenLegs : j = k
    BY <2>1 DEF LegInv, OneLegPerSide, Legs
  <2>3. \A j \in LegRecords, k \in Legs : j = k
    BY <2>1 DEF LegInv, OneRecordPerSide, Legs
  <2> QED
    BY <2>2, <2>3 DEF Legs
<1>14. \A j, k \in Legs' : ~rows'[j].wing /\ ~rows'[k].wing => j = k
  BY <1>2, <1>8, <1>9, <1>13
<1>15. CondorInv'
  BY <1>1, <1>11, <1>14 DEF CondorInv, HasActivePlan
<1> QED
  BY <1>8, <1>10, <1>15 DEF RollInv

LEMMA RollRoll ==
  ASSUME TypeOK, LegInv, RollInv, RollStep
  PROVE  RollInv'
<1>1. CASE RollFlag
  <2>1. RowsKept
    BY <1>1, RollFlagRows DEF RowsKept
  <2>2. records' = records /\ plan' = plan /\ pc' = "idle"
    BY <1>1 DEF RollFlag, EndTick, Reset, planVars
  <2> QED
    BY <2>1, <2>2, RollKept DEF PlanStays
<1>2. CASE RollEnds
  <2>1. rows' = rows /\ records' = records /\ plan' = plan /\ pc' = "idle"
    BY <1>2 DEF RollEnds, EndTick, Reset, planVars, bookVars
  <2> QED
    BY <2>1, SameKeepsRows, RollKept DEF PlanStays
<1> QED
  BY <1>1, <1>2, RollRollClose, RollRollOpen DEF RollStep

LEMMA RollEntry ==
  ASSUME TypeOK, LegInv, RollInv, EntryStep
  PROVE  RollInv'
<1>1. ASSUME rows' = rows, records' = records, PlanStays, pc' # "rollOpen"
      PROVE  RollInv'
  BY <1>1, SameKeepsRows, RollKept
<1>2. CASE EntryRefused \/ EntryAllowed \/ EntryLegRejected \/ EntryRejected
  <2>1. rows' = rows /\ records' = records /\ plan' = plan /\ pc' # "rollOpen"
    BY <1>2, ProceedGoes DEF EntryRefused, EntryAllowed, EntryLegRejected, EntryRejected,
       EndTick, Reset, GoTo, planVars, bookVars
  <2> QED
    BY <1>1, <2>1 DEF PlanStays
<1>3. ASSUME NEW s \in Signals, NEW side \in Sides \cup {"none"}, EntryDecides(s, side)
      PROVE  RollInv'
  <2>1. rows' = rows /\ records' = records /\ pc' # "rollOpen"
    BY <1>3, ProceedGoes DEF EntryDecides, TakeSignal, bookVars
  <2>2. PlanStays
    BY <1>3, DecideStays DEF EntryDecides, planVars, PlanStays
  <2> QED
    BY <1>1, <2>1, <2>2
<1>4. ASSUME NEW s \in Signals, EntryDropsLeg(s) \/ EntryLegDue(s) \/ EntryLegWaits(s)
      PROVE  RollInv'
  <2>1. rows' = rows /\ records' = records /\ pc' # "rollOpen"
    BY <1>4, ProceedGoes
       DEF EntryDropsLeg, EntryLegDue, EntryLegWaits, TakeSignal, GoTo, bookVars
  <2>2. PlanStays
    BY <1>4, DropStays DEF EntryDropsLeg, EntryLegDue, EntryLegWaits, planVars, PlanStays
  <2> QED
    BY <1>1, <2>1, <2>2
<1>5. ASSUME NEW i \in Id, EntryFiresLeg(i)
      PROVE  RollInv'
  BY <1>5, RollExecuteLeg, ProceedGoes DEF EntryFiresLeg, LegInv, StageInv
<1>6. ASSUME NEW i \in Id, EntryFilled(i)
      PROVE  RollInv'
  BY <1>6, RollFilled
<1> QED
  BY <1>2, <1>3, <1>4, <1>5, <1>6 DEF EntryStep

LEMMA RollSame ==
  ASSUME RollInv, UNCHANGED <<rows, records, plan, pc, roll>>
  PROVE  RollInv'
BY DEF RollInv, RowsInv, CondorInv, RolledOnce, RolledCondors, Legs, OpenLegs, OpenRows,
   LegRecords

LEMMA RollOther ==
  ASSUME TypeOK, RollInv, TickAborted \/ Crash \/ Start \/ Advance
  PROVE  RollInv'
<1>1. CASE TickAborted
  <2>1. rows' = rows /\ records' = records /\ plan' = plan /\ pc' = "idle"
    BY <1>1 DEF TickAborted, Reset, planVars, bookVars
  <2> QED
    BY <2>1, SameKeepsRows, RollKept DEF PlanStays
<1>2. CASE Crash
  <2>1. rows' = rows /\ records' = {} /\ plan'.state # "LEG1_FILLED" /\ pc' = "idle"
    BY <1>2 DEF Crash, Reset, NoPlan
  <2> QED
    BY <2>1, SameKeepsRows, RollKept DEF PlanStays
<1>3. CASE Start
  <2>1. RowsKept
    BY <1>3, StartRows DEF RowsKept
  <2>2. records' \subseteq OpenRows /\ plan' = plan /\ pc' = "idle"
    BY <1>3 DEF Start, RecoverOpenPosition, Reset, planVars
  <2> QED
    BY <2>1, <2>2, RollKept DEF PlanStays
<1>4. CASE Advance
  <2>1. UNCHANGED <<rows, records, plan, pc, roll>>
    BY <1>4 DEF Advance, planVars, bookVars
  <2> QED
    BY <2>1, RollSame
<1> QED
  BY <1>1, <1>2, <1>3, <1>4

LEMMA RollPreserved ==
  ASSUME IInv, RollInv, [Next]_vars
  PROVE  RollInv'
<1> TypeOK /\ LegInv /\ StageInv
  BY DEF IInv, LegInv
<1>1. CASE UNCHANGED vars
  <2>1. UNCHANGED <<rows, records, plan, pc, roll>>
    BY <1>1 DEF vars, planVars, bookVars, tickVars
  <2> QED
    BY <2>1, RollSame
<1>2. CASE Next
  BY <1>2, RollHead, RollFlattenManage, RollLeg, RollRoll, RollEntry, RollOther
     DEF Next, LoopStep, FaultStep
<1> QED
  BY <1>1, <1>2

LEMMA RollInductive == Spec => []RollInv
<1>1. Init => RollInv
  BY DEF Init, PlanInit, NoPlan, BookInit, NoRow, IdleTick, LegKinds, RollInv, RowsInv,
     CondorInv, RolledOnce, Legs, OpenLegs, OpenRows, LegRecords
<1>2. IInv /\ RollInv /\ [Next]_vars => RollInv'
  BY RollPreserved
<1> QED
  BY <1>1, <1>2, Inductive, PTL DEF Spec

\* A condor is rolled at most once, also when a crash or a failed write ends the
\* roll before the tested vertical is marked final (condor_roll.py's contract).
THEOREM RolledOnlyOnce == Spec => []RolledOnce
<1>1. RollInv => RolledOnce
  BY DEF RollInv
<1> QED
  BY <1>1, RollInductive, PTL

=============================================================================
