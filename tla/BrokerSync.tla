----------------------------- MODULE BrokerSync -----------------------------
(***************************************************************************)
(* A live day: what the account holds of each option symbol, the open rows *)
(* of the trades table, the list the position manager works through and    *)
(* the condor plan.  Entries are execution/entry_engine.py and             *)
(* _execute_condor_leg, exits are manage_open_position and flatten_all     *)
(* with place_exit_order of execution/exit_engine.py, and the two sweeps   *)
(* that bring the table back to the broker are _reconcile_with_broker at a *)
(* start and _intraday_reconcile at a half hour (main.py, with             *)
(* execution/broker_reconcile.py).  Reconciliation is switched on.         *)
(*                                                                         *)
(* An order is a condor leg or a signal (a single option or a butterfly);  *)
(* orders may be for the same symbols.  A row is the number of the order   *)
(* that wrote it or, when a position was adopted, its symbol.  Rolls are   *)
(* left out: the first order of a roll closes a short with SELL_TO_CLOSE,  *)
(* and when the broker refuses it nothing else is done.                    *)
(***************************************************************************)
EXTENDS Integers, FiniteSets

CONSTANTS
  Symbols,      \* the option symbols
  Condors,      \* the plans decide() may make: a call leg and a put leg
  Signals,      \* the other positions a tick may enter
  MaxOrders,    \* bound on the orders of the day
  MaxResting,   \* bound on the orders that are accepted and not filled yet
  MaxCrashes,   \* bound on the kills of the process
  MaxFaults     \* bound on the exceptions and the fills without a row

Orders == 1..MaxOrders

OrderShape == [kind : {"leg", "signal"}, short : SUBSET Symbols, long : SUBSET Symbols]

ASSUME BrokerAssumption ==
  /\ {MaxOrders, MaxResting, MaxCrashes, MaxFaults} \subseteq Nat
  /\ Orders \cap Symbols = {}
  /\ Signals \subseteq {o \in OrderShape : o.kind = "signal"}
  /\ Condors \subseteq
       {c \in [{1, 2} -> {o \in OrderShape : o.kind = "leg"}] :
          (c[1].short \cup c[1].long) \cap (c[2].short \cup c[2].long) = {}}

None == [kind |-> "none", short |-> {}, long |-> {}]
Rows == Orders \cup Symbols
Idle == [state |-> "none", legs |-> <<None, None>>]

VARIABLES
  acct,         \* contracts held of each symbol, negative when sold
  order,        \* what each order was for
  resting,      \* the accepted orders that still may fill
  book,         \* status of the rows
  list,         \* _open_records
  plan,         \* the condor plan of the process
  pc,           \* what the tick does next
  todo, kept,   \* the records its pass has still to see; those it keeps
  up, late,     \* the process is running; it is 15:45
  crashes, faults

vars == <<acct, order, resting, book, list, plan, pc, todo, kept, up, late, crashes, faults>>
pass == <<todo, kept>>
env  == <<up, late, crashes>>

\* The symbols on a row: enter() records none, a condor leg records its two,
\* an adopted row its own.
SymbolsOf(r) ==
  IF r \in Symbols THEN {r}
  ELSE IF order[r].kind = "leg" THEN order[r].short \cup order[r].long ELSE {}

Held       == {s \in Symbols : acct[s] # 0}
OpenRows   == {r \in Rows : book[r] = "open"}
SignalRows == {n \in OpenRows \cap Orders : order[n].kind = "signal"}
Owned      == UNION {SymbolsOf(r) : r \in OpenRows}
Reloaded   == IF list # {} THEN list ELSE OpenRows
Fresh(n)   == order[n] = None /\ \A m \in 1..(n - 1) : order[m] # None

-----------------------------------------------------------------------------
Init ==
  /\ acct = [s \in Symbols |-> 0] /\ order = [n \in Orders |-> None] /\ resting = {}
  /\ book = [r \in Rows |-> "absent"] /\ list = {} /\ plan = Idle
  /\ pc = "idle" /\ todo = {} /\ kept = {}
  /\ up = TRUE /\ late = FALSE /\ crashes = 0 /\ faults = 0

\* The contracts of an order; the centre of a butterfly is sold twice.
Bought(o, s) ==
  CASE s \in o.long  -> 1
    [] s \in o.short -> IF o.kind = "leg" THEN -1 ELSE -2
    [] OTHER         -> 0

Filled(o) == acct' = [s \in Symbols |-> acct[s] + Bought(o, s)]

\* What is left when some of the contracts of a symbol are closed.
Fewer(s) == IF acct[s] > 0 THEN 0..(acct[s] - 1) ELSE (acct[s] + 1)..0

Closed(s) == \E left \in Fewer(s) : acct' = [acct EXCEPT ![s] = left]

-----------------------------------------------------------------------------
(* The tick: flatten from 15:45 on, manage what is open, else try to enter. *)

BeginTick ==
  /\ up /\ pc = "idle" /\ list' = Reloaded
  /\ pc' = IF late THEN "flatten" ELSE IF Reloaded = {} THEN "entry" ELSE "manage"
  /\ todo' = Reloaded /\ kept' = {}
  /\ UNCHANGED <<acct, order, resting, book, plan, env, faults>>

\* Every close is SELL_TO_CLOSE of option_symbol, for a condor leg its short:
\* the broker takes it when the account is long that symbol, and only then.
Sells(r) ==
  IF r \in Symbols THEN {r} ELSE IF order[r].kind = "leg" THEN order[r].short ELSE {}

\* The order goes through and the row is closed.
Sold(r) ==
  /\ \E s \in Sells(r) : acct[s] > 0 /\ Closed(s)
  /\ book' = [book EXCEPT ![r] = "closed"]

\* The pass keeps a record that does not exit, or whose order is refused, and
\* drops one that exits; the list itself is replaced at its end.
ManageKeep(r) ==
  /\ pc = "manage" /\ r \in todo
  /\ todo' = todo \ {r} /\ kept' = kept \cup {r}
  /\ UNCHANGED <<acct, order, resting, book, list, plan, pc, env, faults>>

ManageExit(r) ==
  /\ pc = "manage" /\ r \in todo /\ Sold(r)
  /\ todo' = todo \ {r}
  /\ UNCHANGED <<order, resting, list, plan, pc, kept, env, faults>>

ManageDone ==
  /\ pc = "manage" /\ todo = {} /\ list' = kept /\ pc' = "leg" /\ kept' = {}
  /\ UNCHANGED <<acct, order, resting, book, plan, todo, env, faults>>

\* flatten_all drops each record as it closes and leaves it when it is refused.
FlattenExit(r) ==
  /\ pc = "flatten" /\ r \in todo /\ Sold(r)
  /\ todo' = todo \ {r} /\ list' = list \ {r}
  /\ UNCHANGED <<order, resting, plan, pc, kept, env, faults>>

FlattenFails(r) ==
  /\ pc = "flatten" /\ r \in todo /\ \A s \in Sells(r) : acct[s] <= 0
  /\ todo' = todo \ {r}
  /\ UNCHANGED <<acct, order, resting, book, list, plan, pc, kept, env, faults>>

FlattenDone ==
  /\ pc = "flatten" /\ todo = {} /\ pc' = "idle"
  /\ UNCHANGED <<acct, order, resting, book, list, plan, pass, env, faults>>

-----------------------------------------------------------------------------
(* Condor legs and signals.                                                *)

\* The leg that may be due: while something is managed only Leg 2 is asked
\* for, whatever the records are; when nothing is, Leg 1 or Leg 2.
DueLeg ==
  CASE plan.state = "LEG1_FILLED" /\ pc \in {"leg", "entry"} -> 2
    [] plan.state = "DECIDED" /\ pc = "entry"                -> 1
    [] OTHER                                                 -> 0

AfterLeg == IF pc = "leg" THEN "idle" ELSE "enter"

Placed(n, o) == Fresh(n) /\ order' = [order EXCEPT ![n] = o]

\* Mutant: the order's status is written as the row's.
LegBookedMutant(n) ==
  /\ Placed(n, plan.legs[DueLeg])
  /\ book' = [book EXCEPT ![n] = "filled"] /\ list' = list \cup {n}
  /\ plan' = IF DueLeg = 1 THEN [plan EXCEPT !.state = "LEG1_FILLED"] ELSE Idle
  /\ pc' = AfterLeg /\ UNCHANGED <<pass, env, faults>>

\* The row is written, the list gets it and the plan moves on.
LegBooked(n) ==
  /\ Placed(n, plan.legs[DueLeg])
  /\ book' = [book EXCEPT ![n] = "open"] /\ list' = list \cup {n}
  /\ plan' = IF DueLeg = 1 THEN [plan EXCEPT !.state = "LEG1_FILLED"] ELSE Idle
  /\ pc' = AfterLeg /\ UNCHANGED <<pass, env, faults>>

\* The broker fills an order it has accepted, or keeps it.
Executed(n, o) ==
  \/ Filled(o) /\ UNCHANGED resting
  \/ Cardinality(resting) < MaxResting /\ resting' = resting \cup {n} /\ UNCHANGED acct

\* A leg is a limit order: it is booked when it is accepted.
SendLeg(n) == DueLeg # 0 /\ LegBooked(n) /\ Executed(n, plan.legs[DueLeg])

\* The order goes through and the row does not follow: the plan stays, and the
\* leg is sent again at the same strikes.
LegLost(n) ==
  /\ DueLeg # 0 /\ Placed(n, plan.legs[DueLeg]) /\ Executed(n, plan.legs[DueLeg])
  /\ faults < MaxFaults /\ faults' = faults + 1
  /\ pc' = AfterLeg
  /\ UNCHANGED <<book, list, plan, pass, env>>

\* No leg is sent: nothing triggers, the order is refused, or the plan lapses.
NoLeg ==
  /\ (pc = "leg" \/ (pc = "entry" /\ DueLeg # 0))
  /\ plan' \in (IF DueLeg = 0 THEN {plan} ELSE {plan, Idle}) /\ pc' = AfterLeg
  /\ UNCHANGED <<acct, order, resting, book, list, pass, env, faults>>

\* A plan is made on a tick without a signal, and no order with it.
Decide(c) ==
  /\ pc = "entry" /\ plan = Idle /\ plan' = [state |-> "DECIDED", legs |-> c]
  /\ pc' = "idle"
  /\ UNCHANGED <<acct, order, resting, book, list, pass, env, faults>>

MayEnter == pc = "enter" \/ (pc = "entry" /\ DueLeg = 0)

\* Mutant: the record of a signal is left for the next reload of the list.
EnterMutant(n, o) ==
  /\ MayEnter /\ Placed(n, o) /\ Filled(o)
  /\ book' = [book EXCEPT ![n] = "open"] /\ pc' = "idle"
  /\ UNCHANGED <<resting, list, plan, pass, env, faults>>

\* A signal may come in the tick that has just sent a leg; set_open_position
\* then replaces the list.
Enter(n, o) ==
  /\ MayEnter /\ Placed(n, o) /\ Filled(o)
  /\ book' = [book EXCEPT ![n] = "open"] /\ list' = {n} /\ pc' = "idle"
  /\ UNCHANGED <<resting, plan, pass, env, faults>>

\* The order goes through without a row: it is given up and fills after all, or
\* an exception comes first.
EnterLost(n, o) ==
  /\ MayEnter /\ Placed(n, o) /\ Executed(n, o)
  /\ faults < MaxFaults /\ faults' = faults + 1
  /\ pc' = "idle"
  /\ UNCHANGED <<book, list, plan, pass, env>>

NoEntry ==
  /\ MayEnter /\ pc' = "idle"
  /\ UNCHANGED <<acct, order, resting, book, list, plan, pass, env, faults>>

\* An exception anywhere in the tick: the loop logs it and the next tick begins
\* on whatever list is there, closed records included.
Raise ==
  /\ pc # "idle" /\ faults < MaxFaults /\ faults' = faults + 1
  /\ pc' = "idle" /\ todo' = {} /\ kept' = {}
  /\ UNCHANGED <<acct, order, resting, book, list, plan, env>>

\* In flatten_all it can come after log_exit and before the record is dropped.
FlattenRaises(r) ==
  /\ pc = "flatten" /\ r \in todo /\ Sold(r)
  /\ faults < MaxFaults /\ faults' = faults + 1
  /\ pc' = "idle" /\ todo' = {} /\ kept' = {}
  /\ UNCHANGED <<order, resting, list, plan, env>>

-----------------------------------------------------------------------------
(* The broker.                                                             *)

OrderFills(n) ==
  /\ n \in resting /\ resting' = resting \ {n} /\ Filled(order[n])
  /\ UNCHANGED <<order, book, list, plan, pc, pass, env, faults>>

\* An assignment, a margin call, a trade by hand.
BrokerCloses(s) ==
  /\ s \in Held /\ Closed(s)
  /\ UNCHANGED <<order, resting, book, list, plan, pc, pass, env, faults>>

-----------------------------------------------------------------------------
(* The sweeps, on what a read of the broker returned.  It may be empty or  *)
(* miss positions; a symbol is there or not, quantities are not compared.  *)

Phantom(r, read) == r \in OpenRows /\ SymbolsOf(r) \cap read = {}

\* The short of a condor leg is gone and its long is there.
ShortGone(r, read) ==
  /\ r \in OpenRows \cap Orders /\ order[r].kind = "leg"
  /\ order[r].short \cap read = {} /\ order[r].long \cap read # {}

\* Mutant: build_plan adopts whatever it is given.
UnmatchedMutant(read) == read

\* What build_plan adopts: the symbols on no row it keeps.
Unmatched(read) == read \ Owned

Status(r, closed, adopted) ==
  IF r \in adopted THEN "open" ELSE IF r \in closed THEN "closed" ELSE book[r]

Written(closed, adopted) == book' = [r \in Rows |-> Status(r, closed, adopted)]

\* What a half hour's sweep closes (rows without symbols are left alone) and
\* adopts (legs without rows are left alone).
SweepCloses(read) ==
  {r \in OpenRows : SymbolsOf(r) # {} /\ (Phantom(r, read) \/ ShortGone(r, read))}

\* Mutant: the long that survives its short is not adopted.
SurvivorsMutant(r, read) == {}

Survivors(r, read) == IF ShortGone(r, read) THEN order[r].long \cap read ELSE {}

SweepAdopts(closed, read) == UNION {Survivors(r, read) : r \in closed}

SweepDue(read) == up /\ ~late /\ pc = "idle" /\ read # {} /\ SweepCloses(read) # {}

Sweep(read) ==
  /\ SweepDue(read)
  /\ Written(SweepCloses(read), SweepAdopts(SweepCloses(read), read))
  /\ list' = OpenRows'
  /\ UNCHANGED <<acct, order, resting, plan, pc, pass, env, faults>>

\* A sweep cut short between two of its writes: rows are done one after the
\* other, and only the last may lack the adoptions that follow its closing.
SweepWrites(read) ==
  /\ SweepDue(read)
  /\ \E closed \in SUBSET SweepCloses(read) : \E last \in closed :
       \E adopted \in SUBSET Survivors(last, read) :
         Written(closed, SweepAdopts(closed \ {last}, read) \cup adopted)

\* By an exception: the loop goes on, with the list as it was.
SweepRaises(read) ==
  /\ SweepWrites(read) /\ faults < MaxFaults /\ faults' = faults + 1
  /\ UNCHANGED <<acct, order, resting, list, plan, pc, pass, env>>

\* A process that is gone: its memory is, too.
Gone == up' = FALSE /\ list' = {} /\ plan' = Idle /\ pc' = "idle" /\ todo' = {} /\ kept' = {}

SweepDies(read) ==
  /\ SweepWrites(read) /\ crashes < MaxCrashes /\ crashes' = crashes + 1 /\ Gone
  /\ UNCHANGED <<acct, order, resting, late, faults>>

StartCloses(read) == IF read = {} THEN {} ELSE {r \in OpenRows : Phantom(r, read)}

\* Mutant: the adopted positions are journalled and not managed.
StartMutant(read) ==
  /\ ~up /\ up' = TRUE
  /\ Written(StartCloses(read), Unmatched(read))
  /\ list' = OpenRows \ StartCloses(read)
  /\ UNCHANGED <<acct, order, resting, plan, pc, pass, late, crashes, faults>>

\* A start: phantoms are closed and the rest is adopted, on an empty read nothing.
Start(read) ==
  /\ ~up /\ up' = TRUE
  /\ Written(StartCloses(read), Unmatched(read))
  /\ list' = (OpenRows \ StartCloses(read)) \cup Unmatched(read)
  /\ UNCHANGED <<acct, order, resting, plan, pc, pass, late, crashes, faults>>

\* A start that stops, killed or by an exception, between two of its writes: the
\* phantoms are closed first, then the adopted positions are journalled.
StartDies(read) ==
  /\ ~up /\ read # {} /\ crashes < MaxCrashes /\ crashes' = crashes + 1
  /\ \E closed \in SUBSET StartCloses(read), adopted \in SUBSET Unmatched(read) :
       (adopted = {} \/ closed = StartCloses(read)) /\ Written(closed, adopted)
  /\ UNCHANGED <<acct, order, resting, list, plan, pc, pass, up, late, faults>>

Crash ==
  /\ up /\ crashes < MaxCrashes /\ crashes' = crashes + 1 /\ Gone
  /\ UNCHANGED <<acct, order, resting, book, late, faults>>

Advance ==
  /\ ~late /\ late' = TRUE
  /\ UNCHANGED <<acct, order, resting, book, list, plan, pc, pass, up, crashes, faults>>

TickStep ==
  \/ BeginTick \/ ManageDone \/ FlattenDone \/ NoLeg \/ NoEntry
  \/ \E r \in Rows : ManageKeep(r) \/ ManageExit(r) \/ FlattenExit(r) \/ FlattenFails(r)
  \/ \E c \in Condors : Decide(c)
  \/ \E n \in Orders : SendLeg(n)
  \/ \E n \in Orders, o \in Signals : Enter(n, o)

Fault ==
  \/ Raise \/ \E r \in Rows : FlattenRaises(r)
  \/ \E n \in Orders : LegLost(n)
  \/ \E n \in Orders, o \in Signals : EnterLost(n, o)

Next ==
  \/ TickStep \/ Fault \/ Crash \/ Advance
  \/ \E n \in Orders : OrderFills(n)
  \/ \E s \in Symbols : BrokerCloses(s)
  \/ \E read \in SUBSET Held :
       Sweep(read) \/ SweepRaises(read) \/ SweepDies(read) \/ Start(read) \/ StartDies(read)

Spec == Init /\ [][Next]_vars

\* The loop keeps ticking; systemd restarts the process.
FairSpec ==
  Spec /\ WF_vars(TickStep) /\ WF_vars(\E read \in SUBSET Held : Start(read))

-----------------------------------------------------------------------------
TypeOK ==
  /\ acct \in [Symbols -> Int] /\ order \in [Orders -> {None} \cup OrderShape]
  /\ resting \subseteq Orders /\ book \in [Rows -> {"absent", "open", "closed"}]
  /\ list \subseteq Rows /\ todo \subseteq Rows /\ kept \subseteq Rows
  /\ plan \in [state : {"none", "DECIDED", "LEG1_FILLED"}, legs : Condors \cup {<<None, None>>}]
  /\ pc \in {"idle", "manage", "leg", "entry", "enter", "flatten"}
  /\ up \in BOOLEAN /\ late \in BOOLEAN /\ crashes \in 0..MaxCrashes /\ faults \in 0..MaxFaults

\* No position at the broker is managed twice: whatever is sent again, closed,
\* adopted or left half done, two open rows never carry the same symbol.
OneOwner ==
  \A r, s \in OpenRows : r # s => SymbolsOf(r) \cap SymbolsOf(s) = {}

\* The open row of a single option or a butterfly is among the records that are
\* managed, or the list is empty and will be reloaded: legs of its own tick and
\* later ones, exits, exceptions and sweeps do not push it out.
PositionIsListed == up /\ list # {} => SignalRows \subseteq list

\* Reconciling takes the owner from no leg it has seen, and from none at all when
\* it sees nothing: not when a short is gone, not when rows share the read.
\* (One that is cut short may.)
OwnersRemain ==
  [][\A read \in SUBSET Held : Sweep(read) \/ Start(read) =>
       Owned \cap (IF read = {} THEN Held ELSE read) \subseteq Owned']_vars

\* After a start that has read the whole account, every symbol it holds is on an
\* open row that is managed: fills without a row, rows without symbols, what an
\* earlier reconciliation left half done.  (How many of its contracts are on the
\* row is not said, and the code does not ask.)
StartTakesAll ==
  [][Start(Held) =>
       \A s \in Held : \E r \in list' : book'[r] = "open" /\ s \in SymbolsOf(r)]_vars

-----------------------------------------------------------------------------
\* README.md:150, "Hard close | 3:45 PM ET | All positions": from 15:45 on the
\* rows are closed out until no open row stands for a position the broker holds.
Stands(r) == IF r \in Symbols THEN {r} ELSE order[r].short \cup order[r].long

HardCloseSells == late ~> \A r \in OpenRows : Stands(r) \cap Held = {}

=============================================================================
