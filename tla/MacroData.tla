------------------------------ MODULE MacroData -----------------------------
(* The macro snapshot of data/macro_data.py: the VIX by its bands, the Fed   *)
(* calendar, and the gates they set.  The hour between two fetches is        *)
(* abstracted to one fetch in each interval of the day.                      *)
EXTENDS TradingDay

CONSTANTS
  Levels         \* the bands the VIX moves through

VARIABLES
  fedDay,        \* the day has a high-impact Fed event
  macro          \* MacroManager._snapshot

VixBands == {"low", "normal", "elevated", "crisis"}     \* below 15, 20, 30; from 30 on

ASSUME MacroAssumption == Levels \subseteq VixBands

NoSnapshot == [vix |-> "none", fed |-> FALSE, read |-> "none", at |-> PreOpen]

\* read is history: the last VIX that was really read.
Snapshot == [vix : VixBands, fed : BOOLEAN, read : VixBands \cup {"none"}, at : Slots]

\* Mutant: without any value the VIX counts as normal.
VixMutant(ok, level) ==
  IF ok THEN level ELSE IF macro # NoSnapshot THEN macro.vix ELSE "normal"

\* _fetch_vix: the value read, else the last one, else 20.
Vix(ok, level) ==
  IF ok THEN level ELSE IF macro # NoSnapshot THEN macro.vix ELSE "elevated"

\* _fetch.  A calendar that cannot be read has no events.
Fetch(now, ok, level, calendar) ==
  macro' = [vix |-> Vix(ok, level), fed |-> calendar /\ fedDay,
            read |-> IF ok THEN level ELSE macro.read, at |-> now]

IsFresh(now) == macro.at = now

EntriesAllowed   == macro.vix # "crisis"
Calm             == macro.vix \in {"low", "normal"}
ButterflyAllowed == Calm /\ ~macro.fed
HalfSize         == macro.vix = "normal"

=============================================================================
