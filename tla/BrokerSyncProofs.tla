-------------------------- MODULE BrokerSyncProofs --------------------------
(* OneOwner, PositionIsListed, OwnersRemain and StartTakesAll for any number *)
(* of symbols, plans, signals, orders, lost rows, exceptions and kills.       *)
EXTENDS BrokerSync, TLAPS

USE BrokerAssumption DEF BrokerAssumption

\* A row is not open before its order is placed.
FreshIsUnused == \A n \in Orders : order[n] = None => n \notin OpenRows

\* Leg 2 is at symbols no open row has: it can be sent whatever is managed.
LegIsApart ==
  plan.state = "LEG1_FILLED" =>
    Owned \cap (plan.legs[2].short \cup plan.legs[2].long) = {}

\* Where the tick is, what it knows of the open signals.
Staged ==
  /\ plan.state # "none" => plan.legs \in Condors
  /\ ~up => plan.state = "none" /\ pc = "idle"
  /\ pc = "entry" => OpenRows = {}
  /\ pc = "enter" => SignalRows = {}
  /\ pc = "leg" => SignalRows \subseteq list
  /\ pc = "manage" => SignalRows \subseteq todo \cup kept

Inv == TypeOK /\ OneOwner /\ PositionIsListed /\ FreshIsUnused /\ LegIsApart /\ Staged

-----------------------------------------------------------------------------
(* What changes the table.                                                 *)

LEMMA RowsAreTyped ==
  ASSUME TypeOK, NEW r \in Rows
  PROVE  /\ SymbolsOf(r) \subseteq Symbols
         /\ r \in Symbols => SymbolsOf(r) = {r}
         /\ r \notin Symbols => r \in Orders
         /\ r \in Orders => r \notin Symbols
  BY DEF TypeOK, Rows, SymbolsOf, OrderShape, None

\* Fewer open rows.
LEMMA Shrunk ==
  ASSUME TypeOK, OneOwner, FreshIsUnused, order' = order, OpenRows' \subseteq OpenRows
  PROVE  /\ OneOwner' /\ FreshIsUnused'
         /\ Owned' \subseteq Owned /\ SignalRows' \subseteq SignalRows
<1>1. \A r : SymbolsOf(r)' = SymbolsOf(r)
  BY DEF SymbolsOf
<1>2. OneOwner'
  BY <1>1 DEF OneOwner
<1>3. Owned' \subseteq Owned
  BY <1>1 DEF Owned
<1> QED BY <1>2, <1>3 DEF FreshIsUnused, SignalRows

\* An order without a row.
LEMMA Unbooked ==
  ASSUME TypeOK, OneOwner, FreshIsUnused, book' = book,
         NEW n \in Orders, NEW o, Placed(n, o)
  PROVE  /\ OneOwner' /\ FreshIsUnused'
         /\ OpenRows' = OpenRows /\ Owned' = Owned /\ SignalRows' = SignalRows
<1>1. OpenRows' = OpenRows /\ n \notin OpenRows
  BY DEF OpenRows, Placed, Fresh, FreshIsUnused
<1>2. \A m \in Orders : m # n => order'[m] = order[m]
  BY DEF TypeOK, Placed
<1>3. \A r \in OpenRows : r \in Rows /\ r # n
  BY <1>1 DEF OpenRows
<1>4. \A r \in OpenRows : SymbolsOf(r)' = SymbolsOf(r)
  BY <1>2, <1>3, RowsAreTyped DEF SymbolsOf
<1>5. Owned' = Owned
  BY <1>1, <1>4 DEF Owned
<1>6. SignalRows' = SignalRows
  BY <1>1, <1>2, <1>3 DEF SignalRows
<1>7. OneOwner'
  BY <1>1, <1>4 DEF OneOwner
<1>8. FreshIsUnused'
  BY <1>1, <1>2 DEF FreshIsUnused
<1> QED BY <1>1, <1>5, <1>6, <1>7, <1>8

OrderSymbols(o) == IF o.kind = "leg" THEN o.short \cup o.long ELSE {}

\* An order and its row.
LEMMA Booked ==
  ASSUME TypeOK, OneOwner, FreshIsUnused,
         NEW n \in Orders, NEW o \in OrderShape, Placed(n, o),
         book' = [book EXCEPT ![n] = "open"], OrderSymbols(o) \cap Owned = {}
  PROVE  /\ OneOwner' /\ FreshIsUnused'
         /\ OpenRows' = OpenRows \cup {n} /\ Owned' = Owned \cup OrderSymbols(o)
         /\ SignalRows' = SignalRows \cup (IF o.kind = "signal" THEN {n} ELSE {})
<1>1. n \in Rows /\ n \notin OpenRows
  BY DEF Rows, Placed, Fresh, FreshIsUnused
<1>2. OpenRows' = OpenRows \cup {n}
  BY <1>1 DEF OpenRows, TypeOK
<1>3. order'[n] = o /\ \A m \in Orders : m # n => order'[m] = order[m]
  BY DEF TypeOK, Placed
<1>4. \A r \in OpenRows : r \in Rows /\ r # n
  BY <1>1 DEF OpenRows
<1>5. \A r \in OpenRows : SymbolsOf(r)' = SymbolsOf(r)
  BY <1>3, <1>4, RowsAreTyped DEF SymbolsOf
<1>6. SymbolsOf(n)' = OrderSymbols(o)
  BY <1>1, <1>3, RowsAreTyped DEF SymbolsOf, OrderSymbols
<1>7. Owned' = Owned \cup OrderSymbols(o)
  BY <1>2, <1>5, <1>6 DEF Owned
<1>8. SignalRows' = SignalRows \cup (IF o.kind = "signal" THEN {n} ELSE {})
  BY <1>2, <1>3, <1>4 DEF SignalRows
<1>9. OneOwner'
  <2> SUFFICES ASSUME NEW r \in OpenRows', NEW s \in OpenRows', r # s
               PROVE  SymbolsOf(r)' \cap SymbolsOf(s)' = {}
    BY DEF OneOwner
  <2>1. \A q \in OpenRows : SymbolsOf(q) \subseteq Owned
    BY DEF Owned
  <2>2. CASE r = n
    BY <1>2, <1>5, <1>6, <2>1, <2>2
  <2>3. CASE s = n
    BY <1>2, <1>5, <1>6, <2>1, <2>3
  <2>4. CASE r # n /\ s # n
    BY <1>2, <1>5, <2>4 DEF OneOwner
  <2> QED BY <2>2, <2>3, <2>4
<1>10. FreshIsUnused'
  <2>1. o # None
    BY DEF OrderShape, None
  <2> QED BY <1>2, <1>3, <2>1 DEF FreshIsUnused
<1> QED BY <1>2, <1>7, <1>8, <1>9, <1>10

\* A sweep, whole or not: rows are closed, and symbols are adopted that no row
\* has or only rows that are closed.
LEMMA Rewritten ==
  ASSUME TypeOK, OneOwner, FreshIsUnused, order' = order,
         NEW closed \in SUBSET OpenRows, NEW adopted \in SUBSET Symbols,
         \A s \in adopted : s \notin Owned \/ \E r \in closed : s \in SymbolsOf(r),
         Written(closed, adopted)
  PROVE  /\ OneOwner' /\ FreshIsUnused'
         /\ book' \in [Rows -> {"absent", "open", "closed"}]
         /\ OpenRows' = (OpenRows \ closed) \cup adopted
         /\ SignalRows' \subseteq SignalRows
         /\ adopted \subseteq Owned => Owned' \subseteq Owned
<1>1. book' \in [Rows -> {"absent", "open", "closed"}]
  BY DEF Written, Status, TypeOK
<1>2. adopted \subseteq Rows /\ OpenRows \subseteq Rows
  BY DEF Rows, OpenRows
<1>3. OpenRows' = (OpenRows \ closed) \cup adopted
  BY <1>2 DEF OpenRows, Written, Status
<1>4. \A r : SymbolsOf(r)' = SymbolsOf(r)
  BY DEF SymbolsOf
<1>5. \A s \in adopted : SymbolsOf(s) = {s}
  BY <1>2, RowsAreTyped
<1>6. \A s \in adopted, r \in OpenRows \ closed : r # s => s \notin SymbolsOf(r)
  <2> SUFFICES ASSUME NEW s \in adopted, NEW r \in OpenRows \ closed, s \in SymbolsOf(r)
               PROVE  FALSE
    OBVIOUS
  <2>1. s \in Owned
    BY DEF Owned
  <2>2. PICK q \in closed : s \in SymbolsOf(q)
    BY <2>1
  <2> QED BY <2>2 DEF OneOwner
<1>7. OneOwner'
  <2> SUFFICES ASSUME NEW r \in OpenRows', NEW s \in OpenRows', r # s
               PROVE  SymbolsOf(r) \cap SymbolsOf(s) = {}
    BY <1>4 DEF OneOwner
  <2>1. CASE r \in adopted /\ s \in adopted
    BY <1>5, <2>1
  <2>2. CASE r \in adopted /\ s \notin adopted
    BY <1>3, <1>5, <1>6, <2>2
  <2>3. CASE r \notin adopted /\ s \in adopted
    BY <1>3, <1>5, <1>6, <2>3
  <2>4. CASE r \notin adopted /\ s \notin adopted
    BY <1>3, <2>4 DEF OneOwner
  <2> QED BY <2>1, <2>2, <2>3, <2>4
<1>8. \A n \in Orders : n \in OpenRows' => n \in OpenRows
  BY <1>2, <1>3, RowsAreTyped
<1>9. FreshIsUnused' /\ SignalRows' \subseteq SignalRows
  BY <1>8 DEF FreshIsUnused, SignalRows
<1>10. ASSUME adopted \subseteq Owned PROVE Owned' \subseteq Owned
  BY <1>3, <1>4, <1>5, <1>10 DEF Owned
<1> QED BY <1>1, <1>3, <1>7, <1>9, <1>10

-----------------------------------------------------------------------------
(* Types.                                                                  *)

LEMMA FilledType ==
  ASSUME TypeOK, NEW n, NEW o, Executed(n, o) \/ Filled(o), n \in Orders
  PROVE  acct' \in [Symbols -> Int] /\ (Executed(n, o) => resting' \subseteq Orders)
<1>1. \A s \in Symbols : Bought(o, s) \in Int
  BY DEF Bought
<1>2. Filled(o) => acct' \in [Symbols -> Int]
  BY <1>1 DEF Filled, TypeOK
<1> QED BY <1>2 DEF Executed, TypeOK

LEMMA ClosedType ==
  ASSUME TypeOK, NEW s \in Symbols, Closed(s)
  PROVE  acct' \in [Symbols -> Int]
  BY DEF Closed, Fewer, TypeOK

LEMMA SoldIsTyped ==
  ASSUME TypeOK, NEW r \in Rows, Sold(r)
  PROVE  /\ acct' \in [Symbols -> Int] /\ book' \in [Rows -> {"absent", "open", "closed"}]
         /\ OpenRows' = OpenRows \ {r}
<1>1. PICK s \in Sells(r) : acct[s] > 0 /\ Closed(s)
  BY DEF Sold
<1>2. s \in Symbols
  BY <1>1, RowsAreTyped DEF Sells, TypeOK, OrderShape, None
<1>3. book' = [book EXCEPT ![r] = "closed"]
  BY DEF Sold
<1> QED BY <1>1, <1>2, <1>3, ClosedType DEF TypeOK, OpenRows

\* The plan and the leg that is due.
LEMMA DueLegIsALeg ==
  ASSUME TypeOK, Staged, DueLeg # 0
  PROVE  /\ DueLeg \in {1, 2} /\ plan.legs \in Condors
         /\ plan.legs[DueLeg] \in OrderShape /\ plan.legs[DueLeg].kind = "leg"
         /\ DueLeg = 1 => pc = "entry"
         /\ DueLeg = 2 => plan.state = "LEG1_FILLED"
         /\ pc \in {"leg", "entry"}
<1>1. /\ DueLeg \in {1, 2} /\ plan.state # "none"
      /\ (DueLeg = 1 => pc = "entry") /\ (DueLeg = 2 => plan.state = "LEG1_FILLED")
      /\ pc \in {"leg", "entry"}
  BY DEF DueLeg
<1>2. plan.legs \in Condors
  BY <1>1 DEF Staged
<1> QED BY <1>1, <1>2

LEMMA PlanType ==
  ASSUME TypeOK, Staged
  PROVE  /\ Idle \in [state : {"none", "DECIDED", "LEG1_FILLED"}, legs : Condors \cup {<<None, None>>}]
         /\ DueLeg = 1 =>
              [plan EXCEPT !.state = "LEG1_FILLED"] \in
                [state : {"none", "DECIDED", "LEG1_FILLED"}, legs : Condors \cup {<<None, None>>}]
         /\ \A c \in Condors :
              [state |-> "DECIDED", legs |-> c] \in
                [state : {"none", "DECIDED", "LEG1_FILLED"}, legs : Condors \cup {<<None, None>>}]
  BY DEF Idle, TypeOK

-----------------------------------------------------------------------------
(* Every step keeps Inv.                                                   *)

LEMMA InitInv ==
  ASSUME Init
  PROVE  Inv
<1>1. OpenRows = {}
  BY DEF Init, OpenRows
<1>2. 0 \in 0..MaxCrashes /\ 0 \in 0..MaxFaults
  OBVIOUS
<1>3. Idle \in [state : {"none", "DECIDED", "LEG1_FILLED"}, legs : Condors \cup {<<None, None>>}]
  BY DEF Idle
<1>4. acct \in [Symbols -> Int] /\ order \in [Orders -> {None} \cup OrderShape]
      /\ book \in [Rows -> {"absent", "open", "closed"}]
  BY DEF Init
<1>5. TypeOK
  <2>1. plan = Idle /\ crashes = 0 /\ faults = 0
    BY DEF Init
  <2>2. crashes \in 0..MaxCrashes /\ faults \in 0..MaxFaults
    BY <1>2, <2>1
  <2>3. plan \in [state : {"none", "DECIDED", "LEG1_FILLED"}, legs : Condors \cup {<<None, None>>}]
    BY <1>3, <2>1
  <2> QED BY <1>4, <2>2, <2>3 DEF Init, TypeOK
<1> QED BY <1>1, <1>5 DEF Init, Inv, OneOwner, PositionIsListed, FreshIsUnused, LegIsApart,
          Staged, SignalRows, Owned, Idle

\* The pass over the records and flatten_all.
LEMMA PassInv ==
  ASSUME Inv,
         \/ BeginTick \/ ManageDone \/ FlattenDone
         \/ \E r \in Rows : ManageKeep(r) \/ FlattenFails(r)
  PROVE  Inv'
<1> USE DEF Inv
<1>1. book' = book /\ order' = order /\ plan' = plan /\ acct' = acct /\ resting' = resting /\ faults' = faults
      /\ up' = up /\ late' = late /\ crashes' = crashes
  BY DEF BeginTick, ManageDone, FlattenDone, ManageKeep, FlattenFails, env
<1>2. OpenRows' = OpenRows /\ SignalRows' = SignalRows /\ Owned' = Owned
  BY <1>1 DEF OpenRows, SignalRows, Owned, SymbolsOf
<1>3. OneOwner' /\ FreshIsUnused' /\ LegIsApart'
  BY <1>1, <1>2, Shrunk DEF LegIsApart
<1>4. SignalRows \subseteq OpenRows /\ OpenRows \subseteq Rows
  BY DEF SignalRows, OpenRows
<1>5. CASE BeginTick
  <2>1. SignalRows \subseteq Reloaded /\ Reloaded \subseteq Rows /\ (Reloaded = {} => OpenRows = {}) /\ up
    BY <1>4, <1>5 DEF BeginTick, Reloaded, PositionIsListed, TypeOK
  <2> QED BY <1>1, <1>2, <1>3, <1>5, <2>1 DEF BeginTick, TypeOK, Staged, PositionIsListed
<1>6. CASE ManageDone
  BY <1>1, <1>2, <1>3, <1>6 DEF ManageDone, TypeOK, Staged, PositionIsListed
<1>7. CASE FlattenDone
  BY <1>1, <1>2, <1>3, <1>7 DEF FlattenDone, TypeOK, Staged, PositionIsListed, pass
<1>8. ASSUME NEW r \in Rows, ManageKeep(r) PROVE Inv'
  BY <1>1, <1>2, <1>3, <1>8 DEF ManageKeep, TypeOK, Staged, PositionIsListed
<1>9. ASSUME NEW r \in Rows, FlattenFails(r) PROVE Inv'
  BY <1>1, <1>2, <1>3, <1>9 DEF FlattenFails, TypeOK, Staged, PositionIsListed
<1> QED BY <1>5, <1>6, <1>7, <1>8, <1>9

LEMMA ExitInv ==
  ASSUME Inv, NEW r \in Rows, ManageExit(r) \/ FlattenExit(r) \/ FlattenRaises(r)
  PROVE  Inv'
<1> USE DEF Inv
<1>1. Sold(r) /\ order' = order /\ plan' = plan /\ resting' = resting
      /\ up' = up /\ late' = late /\ crashes' = crashes
  BY DEF ManageExit, FlattenExit, FlattenRaises, env
<1>2. /\ acct' \in [Symbols -> Int] /\ book' \in [Rows -> {"absent", "open", "closed"}]
      /\ OpenRows' = OpenRows \ {r}
  BY <1>1, SoldIsTyped
<1>3. OneOwner' /\ FreshIsUnused' /\ Owned' \subseteq Owned /\ SignalRows' \subseteq SignalRows
  BY <1>1, <1>2, Shrunk
<1>4. r \notin SignalRows'
  BY <1>2 DEF SignalRows
<1>5. LegIsApart'
  BY <1>1, <1>3 DEF LegIsApart
<1>6. CASE ManageExit(r)
  BY <1>1, <1>2, <1>3, <1>4, <1>5, <1>6 DEF ManageExit, TypeOK, Staged, PositionIsListed
<1>7. CASE FlattenExit(r)
  BY <1>1, <1>2, <1>3, <1>4, <1>5, <1>7 DEF FlattenExit, TypeOK, Staged, PositionIsListed
<1>8. CASE FlattenRaises(r)
  BY <1>1, <1>2, <1>3, <1>4, <1>5, <1>8 DEF FlattenRaises, TypeOK, Staged, PositionIsListed
<1> QED BY <1>6, <1>7, <1>8

\* The orders of the condor.
LEMMA LegInv ==
  ASSUME Inv, NoLeg \/ \E n \in Orders : SendLeg(n) \/ LegLost(n)
  PROVE  Inv'
<1> USE DEF Inv
<1>1. AfterLeg \in {"idle", "enter"} /\ (AfterLeg = "enter" <=> pc # "leg")
  BY DEF AfterLeg
<1>2. CASE NoLeg
  <2>1. /\ book' = book /\ order' = order /\ acct' = acct /\ resting' = resting /\ list' = list
        /\ faults' = faults /\ todo' = todo /\ kept' = kept /\ pc' = AfterLeg
        /\ up' = up /\ late' = late /\ crashes' = crashes /\ plan' \in {plan, Idle}
        /\ pc \in {"leg", "entry"}
    BY <1>2 DEF NoLeg, pass, env
  <2>2. OpenRows' = OpenRows /\ SignalRows' = SignalRows /\ Owned' = Owned
    BY <2>1 DEF OpenRows, SignalRows, Owned, SymbolsOf
  <2>3. OneOwner' /\ FreshIsUnused'
    BY <2>1, <2>2, Shrunk
  <2>4. TypeOK'
    BY <1>1, <2>1, PlanType DEF TypeOK
  <2>5. LegIsApart'
    BY <2>1, <2>2 DEF LegIsApart, Idle
  <2>6. pc = "entry" => SignalRows = {}
    BY DEF Staged, SignalRows
  <2>7. Staged' /\ PositionIsListed'
    BY <1>1, <2>1, <2>2, <2>6 DEF Staged, PositionIsListed, Idle
  <2> QED BY <2>3, <2>4, <2>5, <2>7
<1>3. ASSUME NEW n \in Orders, LegLost(n) PROVE Inv'
  <2> DEFINE o == plan.legs[DueLeg]
  <2>1. /\ DueLeg # 0 /\ Placed(n, o) /\ Executed(n, o) /\ faults' = faults + 1 /\ faults < MaxFaults
        /\ book' = book /\ list' = list /\ plan' = plan /\ todo' = todo /\ kept' = kept
        /\ up' = up /\ late' = late /\ crashes' = crashes /\ pc' = AfterLeg
    BY <1>3 DEF LegLost, pass, env
  <2>2. o \in OrderShape /\ pc \in {"leg", "entry"}
    BY <2>1, DueLegIsALeg
  <2>3. /\ OneOwner' /\ FreshIsUnused'
        /\ OpenRows' = OpenRows /\ Owned' = Owned /\ SignalRows' = SignalRows
    BY <2>1, Unbooked
  <2>4. acct' \in [Symbols -> Int] /\ resting' \subseteq Orders
    BY <2>1, FilledType
  <2>5. order' \in [Orders -> {None} \cup OrderShape]
    BY <2>1, <2>2 DEF TypeOK, Placed
  <2>6. TypeOK'
    BY <1>1, <2>1, <2>4, <2>5 DEF TypeOK
  <2>7. pc = "entry" => SignalRows = {}
    BY DEF Staged, SignalRows
  <2>8. LegIsApart' /\ Staged' /\ PositionIsListed'
    BY <1>1, <2>1, <2>2, <2>3, <2>7 DEF LegIsApart, Staged, PositionIsListed
  <2> QED BY <2>3, <2>6, <2>8
<1>4. ASSUME NEW n \in Orders, SendLeg(n) PROVE Inv'
  <2> DEFINE o == plan.legs[DueLeg]
  <2>1. /\ DueLeg # 0 /\ Placed(n, o) /\ Executed(n, o) /\ faults' = faults
        /\ book' = [book EXCEPT ![n] = "open"] /\ list' = list \cup {n}
        /\ plan' = (IF DueLeg = 1 THEN [plan EXCEPT !.state = "LEG1_FILLED"] ELSE Idle)
        /\ todo' = todo /\ kept' = kept
        /\ up' = up /\ late' = late /\ crashes' = crashes /\ pc' = AfterLeg
    BY <1>4 DEF SendLeg, LegBooked, pass, env
  <2>2. o \in OrderShape /\ o.kind = "leg" /\ pc \in {"leg", "entry"} /\ DueLeg \in {1, 2}
    BY <2>1, DueLegIsALeg
  <2>3. pc = "entry" => Owned = {} /\ SignalRows = {}
    BY DEF Staged, SignalRows, Owned
  <2>4. OrderSymbols(o) = o.short \cup o.long
    BY <2>2 DEF OrderSymbols
  <2>5. OrderSymbols(o) \cap Owned = {}
    <3>1. CASE DueLeg = 1
      BY <2>1, <2>3, <3>1, DueLegIsALeg
    <3>2. CASE DueLeg = 2
      BY <2>1, <2>4, <3>2, DueLegIsALeg DEF LegIsApart
    <3> QED BY <2>2, <3>1, <3>2
  <2>6. /\ OneOwner' /\ FreshIsUnused'
        /\ OpenRows' = OpenRows \cup {n} /\ Owned' = Owned \cup OrderSymbols(o)
        /\ SignalRows' = SignalRows
    <3> HIDE DEF o
    <3>1. SignalRows' = SignalRows \cup (IF o.kind = "signal" THEN {n} ELSE {})
      BY <2>1, <2>2, <2>5, Booked
    <3> QED BY <2>1, <2>2, <2>5, <3>1, Booked
  <2>7. acct' \in [Symbols -> Int] /\ resting' \subseteq Orders
    BY <2>1, FilledType
  <2>8. order' \in [Orders -> {None} \cup OrderShape]
    BY <2>1, <2>2 DEF TypeOK, Placed
  <2>9. n \in Rows
    BY DEF Rows
  <2>10. plan' \in [state : {"none", "DECIDED", "LEG1_FILLED"}, legs : Condors \cup {<<None, None>>}]
    BY <2>1, <2>2, PlanType
  <2>11. TypeOK'
    BY <1>1, <2>1, <2>7, <2>8, <2>9, <2>10 DEF TypeOK
  <2>12. LegIsApart'
    <3>1. CASE DueLeg = 1
      <4>1. /\ plan' = [plan EXCEPT !.state = "LEG1_FILLED"] /\ plan.legs \in Condors
            /\ pc = "entry"
        BY <2>1, <3>1, DueLegIsALeg
      <4>2. plan'.legs = plan.legs
        BY <4>1 DEF TypeOK
      <4>3. Owned' = plan.legs[1].short \cup plan.legs[1].long
        BY <2>3, <2>4, <2>6, <3>1, <4>1
      <4> QED BY <4>1, <4>2, <4>3 DEF LegIsApart
    <3>2. CASE DueLeg = 2
      BY <2>1, <3>2 DEF LegIsApart, Idle
    <3> QED BY <2>2, <3>1, <3>2
  <2>13. up
    BY <2>2 DEF Staged
  <2>14. plan'.state # "none" => plan'.legs \in Condors
    <3>1. CASE DueLeg = 1
      BY <2>1, <3>1, DueLegIsALeg DEF TypeOK
    <3>2. CASE DueLeg = 2
      BY <2>1, <3>2 DEF Idle
    <3> QED BY <2>2, <3>1, <3>2
  <2>15. Staged' /\ PositionIsListed'
    BY <1>1, <2>1, <2>2, <2>3, <2>6, <2>13, <2>14 DEF Staged, PositionIsListed
  <2> QED BY <2>6, <2>11, <2>12, <2>15
<1> QED BY <1>2, <1>3, <1>4

LEMMA EntryInv ==
  ASSUME Inv,
         \/ NoEntry \/ \E c \in Condors : Decide(c)
         \/ \E n \in Orders, o \in Signals : Enter(n, o) \/ EnterLost(n, o)
  PROVE  Inv'
<1> USE DEF Inv
<1>1. MayEnter => SignalRows = {} /\ up /\ pc # "idle"
  BY DEF MayEnter, Staged, SignalRows
<1>2. CASE NoEntry
  <2>1. OpenRows' = OpenRows /\ SignalRows' = SignalRows /\ Owned' = Owned /\ order' = order
    BY <1>2 DEF NoEntry, OpenRows, SignalRows, Owned, SymbolsOf
  <2>2. OneOwner' /\ FreshIsUnused'
    BY <2>1, Shrunk
  <2> QED BY <1>1, <1>2, <2>1, <2>2 DEF NoEntry, TypeOK, LegIsApart, Staged, PositionIsListed, pass, env
<1>3. ASSUME NEW c \in Condors, Decide(c) PROVE Inv'
  <2>1. OpenRows' = OpenRows /\ SignalRows' = SignalRows /\ Owned' = Owned /\ order' = order
    BY <1>3 DEF Decide, OpenRows, SignalRows, Owned, SymbolsOf
  <2>2. OneOwner' /\ FreshIsUnused'
    BY <2>1, Shrunk
  <2>3. plan' = [state |-> "DECIDED", legs |-> c] /\ up /\ up' = up
    BY <1>3 DEF Decide, Staged, env
  <2>4. TypeOK'
    BY <1>3, <2>3, PlanType DEF Decide, TypeOK, pass, env
  <2>5. LegIsApart' /\ Staged'
    BY <1>3, <2>3 DEF Decide, LegIsApart, Staged
  <2> QED BY <1>3, <2>1, <2>2, <2>4, <2>5 DEF Decide, PositionIsListed, env
<1>4. ASSUME NEW n \in Orders, NEW o \in Signals, Enter(n, o) PROVE Inv'
  <2>1. /\ MayEnter /\ Placed(n, o) /\ Filled(o)
        /\ book' = [book EXCEPT ![n] = "open"] /\ list' = {n} /\ pc' = "idle"
        /\ resting' = resting /\ plan' = plan /\ todo' = todo /\ kept' = kept
        /\ up' = up /\ late' = late /\ crashes' = crashes /\ faults' = faults
    BY <1>4 DEF Enter, pass, env
  <2>2. o \in OrderShape /\ OrderSymbols(o) = {}
    BY DEF OrderSymbols
  <2>3. /\ OneOwner' /\ FreshIsUnused' /\ Owned' = Owned
        /\ SignalRows' \subseteq SignalRows \cup {n}
    <3>1. OrderSymbols(o) \cap Owned = {}
      BY <2>2
    <3>2. /\ OneOwner' /\ FreshIsUnused' /\ Owned' = Owned \cup OrderSymbols(o)
          /\ SignalRows' = SignalRows \cup (IF o.kind = "signal" THEN {n} ELSE {})
      BY <2>1, <2>2, <3>1, Booked
    <3> QED BY <2>2, <3>2
  <2>4. n \in Rows
    BY DEF Rows
  <2>5. acct' \in [Symbols -> Int]
    BY <2>1, FilledType
  <2>6. order' \in [Orders -> {None} \cup OrderShape]
    BY <2>1, <2>2 DEF Placed, TypeOK
  <2>7. TypeOK'
    BY <2>1, <2>4, <2>5, <2>6 DEF TypeOK
  <2> QED BY <1>1, <2>1, <2>3, <2>7 DEF LegIsApart, Staged, PositionIsListed
<1>5. ASSUME NEW n \in Orders, NEW o \in Signals, EnterLost(n, o) PROVE Inv'
  <2>1. /\ MayEnter /\ Placed(n, o) /\ Executed(n, o) /\ faults < MaxFaults /\ faults' = faults + 1
        /\ book' = book /\ list' = list /\ pc' = "idle"
        /\ plan' = plan /\ todo' = todo /\ kept' = kept
        /\ up' = up /\ late' = late /\ crashes' = crashes
    BY <1>5 DEF EnterLost, pass, env
  <2>2. o \in OrderShape
    OBVIOUS
  <2>3. /\ OneOwner' /\ FreshIsUnused' /\ Owned' = Owned /\ SignalRows' = SignalRows
    BY <2>1, Unbooked
  <2>4. acct' \in [Symbols -> Int] /\ resting' \subseteq Orders
    BY <2>1, FilledType
  <2>5. order' \in [Orders -> {None} \cup OrderShape]
    BY <2>1, <2>2 DEF Placed, TypeOK
  <2>6. TypeOK'
    BY <2>1, <2>4, <2>5 DEF TypeOK
  <2> QED BY <1>1, <2>1, <2>3, <2>6 DEF LegIsApart, Staged, PositionIsListed
<1> QED BY <1>2, <1>3, <1>4, <1>5

\* Exceptions and kills between writes, the broker and the clock.
LEMMA WorldInv ==
  ASSUME Inv,
         \/ Raise \/ Crash \/ Advance
         \/ \E n \in Orders : OrderFills(n)
         \/ \E s \in Symbols : BrokerCloses(s)
  PROVE  Inv'
<1> USE DEF Inv
<1>1. book' = book /\ order' = order
  BY DEF Raise, Crash, Advance, OrderFills, BrokerCloses
<1>2. OpenRows' = OpenRows /\ SignalRows' = SignalRows /\ Owned' = Owned
  BY <1>1 DEF OpenRows, SignalRows, Owned, SymbolsOf
<1>3. OneOwner' /\ FreshIsUnused'
  BY <1>1, <1>2, Shrunk
<1>4. CASE Raise
  BY <1>1, <1>2, <1>3, <1>4 DEF Raise, TypeOK, LegIsApart, Staged, PositionIsListed, env
<1>5. CASE Crash
  <2>1. TypeOK'
    <3>1. crashes' \in 0..MaxCrashes
      BY <1>5 DEF Crash, TypeOK
    <3>2. plan' \in [state : {"none", "DECIDED", "LEG1_FILLED"}, legs : Condors \cup {<<None, None>>}]
      BY <1>5, PlanType DEF Crash, Gone
    <3> QED BY <1>1, <1>5, <3>1, <3>2 DEF Crash, Gone, TypeOK
  <2> QED BY <1>1, <1>2, <1>3, <1>5, <2>1 DEF Crash, Gone, LegIsApart, Staged, PositionIsListed, Idle
<1>6. CASE Advance
  BY <1>1, <1>2, <1>3, <1>6 DEF Advance, TypeOK, LegIsApart, Staged, PositionIsListed, pass
<1>7. ASSUME NEW n \in Orders, OrderFills(n) PROVE Inv'
  <2>1. acct' \in [Symbols -> Int]
    BY <1>7, FilledType DEF OrderFills
  <2> QED BY <1>1, <1>2, <1>3, <1>7, <2>1 DEF OrderFills, TypeOK, LegIsApart, Staged, PositionIsListed, pass, env
<1>8. ASSUME NEW s \in Symbols, BrokerCloses(s) PROVE Inv'
  <2>1. acct' \in [Symbols -> Int]
    BY <1>8, ClosedType DEF BrokerCloses
  <2> QED BY <1>1, <1>2, <1>3, <1>8, <2>1 DEF BrokerCloses, TypeOK, LegIsApart, Staged, PositionIsListed, pass, env
<1> QED BY <1>4, <1>5, <1>6, <1>7, <1>8

-----------------------------------------------------------------------------
(* The sweeps and the starts.                                              *)

\* What a sweep adopts belonged to a row it closes.
LEMMA SurvivorsAreOwned ==
  ASSUME TypeOK, NEW read \in SUBSET Held, NEW r \in OpenRows
  PROVE  Survivors(r, read) \subseteq SymbolsOf(r) /\ SymbolsOf(r) \subseteq Owned
         /\ Survivors(r, read) \subseteq Symbols
<1>1. r \in Rows /\ SymbolsOf(r) \subseteq Owned
  BY DEF OpenRows, Owned
<1>2. Survivors(r, read) \subseteq SymbolsOf(r)
  BY <1>1, RowsAreTyped DEF Survivors, ShortGone, SymbolsOf
<1> QED BY <1>1, <1>2, RowsAreTyped

LEMMA SweepInv ==
  ASSUME Inv, NEW read \in SUBSET Held, Sweep(read) \/ SweepRaises(read) \/ SweepDies(read)
  PROVE  Inv'
<1> USE DEF Inv
<1>1. SweepDue(read) /\ order' = order /\ acct' = acct /\ resting' = resting /\ late' = late
  <2>1. SweepWrites(read) => SweepDue(read)
    BY DEF SweepWrites
  <2>2. CASE Sweep(read)
    BY <2>2 DEF Sweep, env
  <2>3. CASE SweepRaises(read)
    BY <2>1, <2>3 DEF SweepRaises, env
  <2>4. CASE SweepDies(read)
    BY <2>1, <2>4 DEF SweepDies
  <2> QED BY <2>2, <2>3, <2>4
<1>2. \E closed \in SUBSET SweepCloses(read) : \E adopted \in SUBSET SweepAdopts(closed, read) :
        Written(closed, adopted)
  <2>1. CASE Sweep(read)
    BY <2>1 DEF Sweep
  <2>2. CASE SweepWrites(read)
    <3>1. PICK closed \in SUBSET SweepCloses(read) :
            \E last \in closed : \E adopted \in SUBSET Survivors(last, read) :
              Written(closed, SweepAdopts(closed \ {last}, read) \cup adopted)
      BY <2>2 DEF SweepWrites
    <3>2. PICK last \in closed :
            \E adopted \in SUBSET Survivors(last, read) :
              Written(closed, SweepAdopts(closed \ {last}, read) \cup adopted)
      BY <3>1
    <3>3. PICK adopted \in SUBSET Survivors(last, read) :
            Written(closed, SweepAdopts(closed \ {last}, read) \cup adopted)
      BY <3>2
    <3>4. SweepAdopts(closed \ {last}, read) \cup adopted \subseteq SweepAdopts(closed, read)
      BY DEF SweepAdopts
    <3> QED BY <3>3, <3>4
  <2> QED BY <2>1, <2>2 DEF SweepRaises, SweepDies
<1>3. PICK closed \in SUBSET SweepCloses(read) :
        \E adopted \in SUBSET SweepAdopts(closed, read) : Written(closed, adopted)
  BY <1>2
<1>4. PICK adopted \in SUBSET SweepAdopts(closed, read) : Written(closed, adopted)
  BY <1>3
<1>5. closed \subseteq OpenRows
  BY DEF SweepCloses
<1>6. adopted \subseteq Symbols /\ adopted \subseteq Owned
      /\ \A s \in adopted : \E r \in closed : s \in SymbolsOf(r)
  BY <1>5, SurvivorsAreOwned DEF SweepAdopts
<1>7. /\ OneOwner' /\ FreshIsUnused' /\ book' \in [Rows -> {"absent", "open", "closed"}]
      /\ SignalRows' \subseteq SignalRows /\ Owned' \subseteq Owned
  BY <1>1, <1>4, <1>5, <1>6, Rewritten
<1>8. pc = "idle" /\ up /\ OpenRows' \subseteq Rows /\ SignalRows' \subseteq OpenRows'
  BY <1>1 DEF SweepDue, OpenRows, SignalRows
<1>9. CASE Sweep(read)
  BY <1>1, <1>7, <1>8, <1>9 DEF Sweep, TypeOK, LegIsApart, Staged, PositionIsListed, pass, env
<1>10. CASE SweepRaises(read)
  BY <1>1, <1>7, <1>8, <1>10 DEF SweepRaises, TypeOK, LegIsApart, Staged, PositionIsListed, pass, env
<1>11. CASE SweepDies(read)
  <2>1. TypeOK'
    <3>1. crashes' \in 0..MaxCrashes
      BY <1>11 DEF SweepDies, TypeOK
    <3>2. plan' \in [state : {"none", "DECIDED", "LEG1_FILLED"}, legs : Condors \cup {<<None, None>>}]
      BY <1>11, PlanType DEF SweepDies, Gone
    <3> QED BY <1>1, <1>7, <1>11, <3>1, <3>2 DEF SweepDies, Gone, TypeOK
  <2> QED BY <1>7, <1>11, <2>1 DEF SweepDies, Gone, LegIsApart, Staged, PositionIsListed, Idle
<1> QED BY <1>9, <1>10, <1>11

LEMMA StartInv ==
  ASSUME Inv, NEW read \in SUBSET Held, Start(read) \/ StartDies(read)
  PROVE  Inv'
<1> USE DEF Inv
<1>1. ~up /\ order' = order /\ acct' = acct /\ resting' = resting /\ late' = late
      /\ plan' = plan /\ pc' = pc /\ todo' = todo /\ kept' = kept /\ faults' = faults
  BY DEF Start, StartDies, pass
<1>2. PICK closed \in SUBSET StartCloses(read), adopted \in SUBSET Unmatched(read) :
        Written(closed, adopted)
  BY DEF Start, StartDies
<1>3. closed \subseteq OpenRows /\ adopted \subseteq Symbols /\ \A s \in adopted : s \notin Owned
  BY DEF StartCloses, Unmatched, Held
<1>4. /\ OneOwner' /\ FreshIsUnused' /\ book' \in [Rows -> {"absent", "open", "closed"}]
      /\ SignalRows' \subseteq SignalRows
  BY <1>1, <1>2, <1>3, Rewritten
<1>5. pc = "idle" /\ plan.state = "none"
  BY <1>1 DEF Staged
<1>6. LegIsApart' /\ Staged'
  BY <1>1, <1>5 DEF LegIsApart, Staged
<1>7. CASE Start(read)
  <2>1. list' = (OpenRows \ StartCloses(read)) \cup Unmatched(read)
        /\ up' = TRUE /\ crashes' = crashes
        /\ Written(StartCloses(read), Unmatched(read))
    BY <1>7 DEF Start
  <2>2. StartCloses(read) \subseteq OpenRows /\ Unmatched(read) \subseteq Symbols
        /\ \A s \in Unmatched(read) : s \notin Owned
    BY DEF StartCloses, Unmatched, Held
  <2>3. OpenRows' = list'
    BY <1>1, <2>1, <2>2, Rewritten
  <2>4. list' \subseteq Rows /\ SignalRows' \subseteq OpenRows'
    BY <2>2, <2>3 DEF OpenRows, SignalRows
  <2>5. TypeOK'
    BY <1>1, <1>4, <2>1, <2>4 DEF TypeOK
  <2>6. PositionIsListed'
    BY <2>3, <2>4 DEF PositionIsListed
  <2> QED BY <1>4, <1>6, <2>5, <2>6
<1>8. CASE StartDies(read)
  BY <1>1, <1>4, <1>6, <1>8 DEF StartDies, TypeOK, PositionIsListed
<1> QED BY <1>7, <1>8

LEMMA NextInv ==
  ASSUME Inv, [Next]_vars
  PROVE  Inv'
<1>1. CASE TickStep
  BY <1>1, PassInv, ExitInv, LegInv, EntryInv DEF TickStep
<1>2. CASE Fault
  BY <1>2, WorldInv, ExitInv, LegInv, EntryInv DEF Fault
<1>3. ASSUME NEW read \in SUBSET Held,
             Sweep(read) \/ SweepRaises(read) \/ SweepDies(read) \/ Start(read) \/ StartDies(read)
      PROVE  Inv'
  BY <1>3, SweepInv, StartInv
<1>4. CASE Crash \/ Advance \/ (\E n \in Orders : OrderFills(n)) \/ \E s \in Symbols : BrokerCloses(s)
  BY <1>4, WorldInv
<1>5. CASE UNCHANGED vars
  <2>1. OpenRows' = OpenRows /\ SignalRows' = SignalRows /\ Owned' = Owned
        /\ \A r : SymbolsOf(r)' = SymbolsOf(r)
    BY <1>5 DEF vars, OpenRows, SignalRows, Owned, SymbolsOf
  <2> QED BY <1>5, <2>1 DEF vars, pass, env, Inv, TypeOK, OneOwner, PositionIsListed, FreshIsUnused, LegIsApart, Staged
<1> QED BY <1>1, <1>2, <1>3, <1>4, <1>5 DEF Next

-----------------------------------------------------------------------------
(* The theorems.                                                           *)

LEMMA InvHolds == Spec => []Inv
<1>1. Init => Inv
  BY InitInv
<1>2. Inv /\ [Next]_vars => Inv'
  BY NextInv
<1> QED BY <1>1, <1>2, PTL DEF Spec

\* The account, the table, the list, the plan and the pass are what they should be.
THEOREM TypeCorrect == Spec => []TypeOK
<1>1. Inv => TypeOK
  BY DEF Inv
<1> QED BY <1>1, InvHolds, PTL

\* No position is managed twice, for any number of orders at the same symbols,
\* exceptions, kills and partial reads.
THEOREM OneManager == Spec => []OneOwner
<1>1. Inv => OneOwner
  BY DEF Inv
<1> QED BY <1>1, InvHolds, PTL

\* An open signal is managed although legs of its own and later ticks come and go.
THEOREM SignalsAreManaged == Spec => []PositionIsListed
<1>1. Inv => PositionIsListed
  BY DEF Inv
<1> QED BY <1>1, InvHolds, PTL

\* A reconciliation that is not cut short takes the owner from no leg it has read.
LEMMA ReadKeepsOwners ==
  ASSUME TypeOK, NEW read \in SUBSET Held, Sweep(read) \/ Start(read)
  PROVE  Owned \cap (IF read = {} THEN Held ELSE read) \subseteq Owned'
<1> SUFFICES ASSUME NEW s \in Owned, s \in (IF read = {} THEN Held ELSE read)
             PROVE  s \in Owned'
  OBVIOUS
<1>1. PICK r \in OpenRows : s \in SymbolsOf(r)
  BY DEF Owned
<1>2. r \in Rows /\ s \in Symbols /\ s \in Rows /\ SymbolsOf(s) = {s}
  <2>1. r \in Rows
    BY DEF OpenRows
  <2> QED BY <1>1, <2>1, RowsAreTyped DEF Rows
<1>3. \A q : SymbolsOf(q)' = SymbolsOf(q)
  BY DEF Sweep, Start, SymbolsOf
<1>4. CASE Sweep(read)
  <2>1. read # {} /\ s \in read /\ Written(SweepCloses(read), SweepAdopts(SweepCloses(read), read))
    BY <1>4 DEF Sweep, SweepDue
  <2>2. CASE r \in SweepCloses(read)
    <3>1. ShortGone(r, read)
      BY <1>1, <2>1, <2>2 DEF SweepCloses, Phantom
    <3>2. s \in Survivors(r, read)
      BY <1>1, <1>2, <2>1, <3>1, RowsAreTyped DEF ShortGone, Survivors, SymbolsOf
    <3>3. s \in OpenRows'
      BY <1>2, <2>1, <2>2, <3>2 DEF Written, Status, SweepAdopts, OpenRows
    <3> QED BY <1>2, <1>3, <3>3 DEF Owned
  <2>3. CASE r \notin SweepCloses(read)
    <3>1. r \in OpenRows'
      BY <1>2, <2>1, <2>3 DEF Written, Status, OpenRows
    <3> QED BY <1>1, <1>3, <3>1 DEF Owned
  <2> QED BY <2>2, <2>3
<1>5. CASE Start(read)
  <2>1. r \notin StartCloses(read) /\ Written(StartCloses(read), Unmatched(read))
    BY <1>1, <1>5 DEF Start, StartCloses, Phantom
  <2>2. r \in OpenRows'
    BY <1>2, <2>1 DEF Written, Status, OpenRows
  <2> QED BY <1>1, <1>3, <2>2 DEF Owned
<1> QED BY <1>4, <1>5

\* Reconciling orphans nothing it has read: for any number of legs and rows.
THEOREM NoLegOrphaned == Spec => OwnersRemain
<1>1. ASSUME Inv, [Next]_vars
      PROVE  \A read \in SUBSET Held : Sweep(read) \/ Start(read) =>
               Owned \cap (IF read = {} THEN Held ELSE read) \subseteq Owned'
  BY <1>1, ReadKeepsOwners DEF Inv
<1>2. Inv /\ [Next]_vars =>
        [\A read \in SUBSET Held : Sweep(read) \/ Start(read) =>
           Owned \cap (IF read = {} THEN Held ELSE read) \subseteq Owned']_vars
  BY <1>1
<1> QED BY <1>2, InvHolds, PTL DEF Spec, OwnersRemain

\* A start that has read the whole account leaves none of its symbols unmanaged.
THEOREM StartManagesAll == Spec => StartTakesAll
<1>1. ASSUME Inv, Start(Held), NEW s \in Held
      PROVE  \E r \in list' : book'[r] = "open" /\ s \in SymbolsOf(r)
  <2>1. /\ list' = (OpenRows \ StartCloses(Held)) \cup Unmatched(Held)
        /\ Written(StartCloses(Held), Unmatched(Held))
    BY <1>1 DEF Start
  <2>2. CASE s \in Owned
    <3>1. PICK r \in OpenRows : s \in SymbolsOf(r)
      BY <2>2 DEF Owned
    <3>2. r \notin StartCloses(Held) /\ r \in Rows
      BY <1>1, <3>1 DEF StartCloses, Phantom, OpenRows
    <3>3. r \in list' /\ book'[r] = "open"
      BY <2>1, <3>1, <3>2 DEF Written, Status, OpenRows
    <3> QED BY <3>1, <3>3
  <2>3. CASE s \notin Owned
    <3>1. s \in Unmatched(Held) /\ s \in Rows /\ s \in Symbols
      BY <1>1, <2>3 DEF Unmatched, Held, Rows
    <3>2. s \in list' /\ book'[s] = "open"
      BY <2>1, <3>1 DEF Written, Status
    <3>3. SymbolsOf(s) = {s}
      BY <1>1, <3>1, RowsAreTyped DEF Inv
    <3> QED BY <3>2, <3>3
  <2> QED BY <2>2, <2>3
<1>2. Inv /\ [Next]_vars =>
        [Start(Held) => \A s \in Held : \E r \in list' : book'[r] = "open" /\ s \in SymbolsOf(r)]_vars
  BY <1>1
<1> QED BY <1>2, InvHolds, PTL DEF Spec, StartTakesAll

=============================================================================
