----------------------------- MODULE DailyHalt ------------------------------
(***************************************************************************)
(* The net daily loss halt of risk/risk_manager.py.  The amount is read    *)
(* from the trades table at every call; the latch is process memory, and   *)
(* so is the last amount read, which stands in when a read fails.  Of an   *)
(* amount only its being at or past the limit is kept.                     *)
(***************************************************************************)
EXTENDS PositionBook

CONSTANTS
  Limit,     \* _daily_loss_limit, in units of risk
  Faults     \* which failures may happen: "db", "order", "chain", "crash"

ASSUME HaltAssumption ==
  /\ Limit \in Nat \ {0}
  /\ Faults \subseteq {"db", "order", "chain", "crash"}

VARIABLES
  halted,    \* _session_halted
  mirror     \* _session_pnl_usd is at or past the limit

haltVars == <<halted, mirror>>

HaltInit == halted = FALSE /\ mirror = FALSE

\* (mutant) The limit itself does not halt.
BreachedMutant(rs, d) == RealizedPnl(rs, d) < -Limit

Breached(rs, d) == RealizedPnl(rs, d) <= -Limit

\* day_realized_pnl(): what a read of the table rs may answer.
Reads(rs, d) == {Breached(rs, d)} \cup (IF "db" \in Faults THEN {mirror} ELSE {})

SetLatch(read, h) == mirror' = read /\ halted' = h

\* is_halted(): latches once breached; its answer is halted'.
IsHalted(rs, d) == \E b \in Reads(rs, d) : SetLatch(b, halted \/ b)

\* record_win / record_loss after the exit is in the table: only a loss
\* evaluates the halt.
RecordResult(p, d) == IF p < 0 THEN IsHalted(rows', d) ELSE UNCHANGED haltVars

\* reset_session() re-derives the latch instead of clearing it.
ResetSession(d) == \E b \in Reads(rows, d) : SetLatch(b, b)

\* The log line of every twentieth tick asks is_halted as well.
Heartbeat(d) == IsHalted(rows, d) \/ UNCHANGED haltVars

=============================================================================
