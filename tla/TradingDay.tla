----------------------------- MODULE TradingDay -----------------------------
(***************************************************************************)
(* The Eastern-time trading day as the clock guards of the code see it.    *)
(* Every guard compares the wall clock with one of seven boundaries, so a  *)
(* moment is represented by the interval between two of them:              *)
(*                                                                         *)
(*   PreOpen 9:30 Forming 9:35 Morning 11:00 Midday 12:00 Noon 14:00       *)
(*   Afternoon 15:45 Closing 16:00 AfterHours                              *)
(***************************************************************************)
EXTENDS Integers

PreOpen    == 0
Forming    == 1   \* the opening-range candle is still forming
Morning    == 2   \* opening-range breakouts may be traded
Midday     == 3   \* condors may be planned
Noon       == 4   \* butterflies may be traded as well
Afternoon  == 5   \* no new entries
Closing    == 6   \* forced close of everything
AfterHours == 7

Slots == PreOpen..AfterHours

\* utils/time_utils.py: the half-open interval [9:30, 16:00).
IsRth(t) == t \in Forming..Closing

\* is_hard_close_time: at or after 15:45, whatever the day.
IsHardCloseTime(t) == t >= Closing

\* is_past_entry_cutoff: at or after 14:00.
IsPastEntryCutoff(t) == t >= Afternoon

\* SessionGuard.can_enter without its macro gate (the VIX crisis), which the
\* callers model as an entry attempt that is refused.  main.py never passes
\* is_butterfly, so the extended butterfly cutoff is not reachable.
CanEnter(t) ==
  /\ IsRth(t)
  /\ t >= Morning
  /\ ~IsHardCloseTime(t)
  /\ ~IsPastEntryCutoff(t)

=============================================================================
