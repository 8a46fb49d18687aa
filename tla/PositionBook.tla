---------------------------- MODULE PositionBook ----------------------------
(***************************************************************************)
(* The trades table (database/trade_logger.py), which survives a crash,    *)
(* and the list of records the position manager works on                   *)
(* (execution/position_manager.py), which does not.                        *)
(*                                                                         *)
(* A row is identified by its position in the table.  The list is modelled *)
(* as a set: no operation depends on its order.                            *)
(***************************************************************************)
EXTENDS Integers, FiniteSets, Functions

CONSTANTS
  MaxRows,   \* bound on the rows ever written
  Pnls       \* the results a close can book, in units of risk

ASSUME BookAssumption == MaxRows \in Nat \ {0} /\ Pnls \subseteq Int

VARIABLES
  rows,      \* the trades table
  records    \* PositionManager._open_records, by row

bookVars == <<rows, records>>

Id == 1..MaxRows

LegKinds == {"leg1", "leg2", "roll"}       \* is_condor_leg = 1
Kinds    == LegKinds \cup {"dir", "fly"}   \* directional single legs, butterfly

\* wing is is_broken_wing; condor is history, the Leg 1 row of the structure
\* a leg belongs to; exp is the expiry day, 0 when the row has no expiry.
Row == [st : {"none", "open", "closed"}, kind : Kinds \cup {"none"},
        side : {"call", "put", "none"}, wing : BOOLEAN, condor : Id \cup {0},
        day : Nat, exp : Nat, pnl : Int]

NoRow == [st |-> "none", kind |-> "none", side |-> "none", wing |-> FALSE,
          condor |-> 0, day |-> 0, exp |-> 0, pnl |-> 0]

OpenRow(k, s, w, c, d, e) ==
  [st |-> "open", kind |-> k, side |-> s, wing |-> w, condor |-> c,
   day |-> d, exp |-> e, pnl |-> 0]

BookInit ==
  /\ rows = [i \in Id |-> NoRow]
  /\ records = {}

\* (mutant) The query for open rows keeps only condor legs.
OpenRowsMutant == {i \in Id : rows[i].st = "open" /\ rows[i].kind \in LegKinds}

OpenRows == {i \in Id : rows[i].st = "open"}           \* get_open_trades
OpenLegs == {i \in OpenRows : rows[i].kind \in LegKinds}
LegRecords == {i \in records : rows[i].kind \in LegKinds}

\* The next row the table would give out.
NextFree(i) == rows[i].st = "none" /\ \A j \in 1..(i - 1) : rows[j].st # "none"

\* _closed_today_rows(): closed rows are counted on the day they were ENTERED.
ClosedToday(rs, d) == {i \in Id : rs[i].st = "closed" /\ rs[i].day = d}

\* realized_pnl_today()
RealizedPnl(rs, d) == SumFunction([i \in ClosedToday(rs, d) |-> rs[i].pnl])

-----------------------------------------------------------------------------
LogEntry(i, r) == NextFree(i) /\ rows' = [rows EXCEPT ![i] = r]

\* (mutant) A loss is left in a state of its own.
LogExitMutant(i, p) ==
  rows' = [rows EXCEPT ![i].st = IF p < 0 THEN "closing" ELSE "closed", ![i].pnl = p]

\* log_exit() updates the row by id and does not ask whether it is open.
LogExit(i, p) ==
  rows' = [rows EXCEPT ![i] = [@ EXCEPT !.st = "closed", !.pnl = p]]

\* update_fields(trade_id, is_broken_wing=1)
FlagBrokenWing(i) == rows' = [rows EXCEPT ![i].wing = TRUE]

SetOpenPosition(i)  == records' = {i}               \* replaces the list

\* (mutant) A leg replaces the list.
AddCondorLegMutant(i) == records' = {i}

AddCondorLeg(i)     == records' = records \cup {i}
RemoveRecord(i)     == records' = records \ {i}

\* (mutant) An empty list is never reloaded.
ReloadedMutant == records

\* has_open_position(): the list is reloaded from the table only when empty.
Reloaded == IF records # {} THEN records ELSE OpenRows

\* close_expired_open_trades() and the resume of what is left.  An unknown
\* expiry is kept; COALESCE(pnl_usd, 0) leaves an open row's pnl at 0.
Expired(d) == {i \in OpenRows : rows[i].exp # 0 /\ rows[i].exp < d}

RecoverOpenPosition(d) ==
  /\ rows' = [i \in Id |-> IF i \in Expired(d)
                           THEN [rows[i] EXCEPT !.st = "closed"]
                           ELSE rows[i]]
  /\ records' = OpenRows \ Expired(d)

=============================================================================
