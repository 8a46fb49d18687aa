--------------------------- MODULE OrbProperties ----------------------------
(* What the opening-range engine promises.                                 *)
EXTENDS OrbEngine

TypeOK ==
  /\ eng \in Engine /\ up \in BOOLEAN /\ pc \in {"idle", "dispatch"} /\ late \in BOOLEAN
  /\ reset \in BOOLEAN /\ regime \in Regimes
  /\ pos \in {"none", "orb", "other"} /\ fileOk \in BOOLEAN /\ phase \in Phases
  /\ day \in 1..MaxDay /\ candle \in Candles /\ bar \in 1..MaxBars
  /\ saw \subseteq Dirs /\ crashes \in 0..MaxCrashes

\* A side is awaited or open only after a close beyond that side of today's
\* range: a range of an earlier day, a re-arm or a restart never leaves a setup
\* without its break (update, _rearm, _load_range_from_file).
SetupHasBreak ==
  \A d \in Dirs : eng.state \in {Awaiting[d], Open[d]} =>
    eng.dir = d /\ d \in eng.broke /\ eng.ranged

\* A breakout that ran away or timed out is left to the sweep for the rest of
\* the session: the engine never looks for another break, or holds a setup,
\* after it (_check_for_retest, the re-arm at the end of update).
HandsOff ==
  eng.handed => eng.state \in {"INVALIDATED", "EXPIRED"}

\* The sweep gate reads the latches: every close beyond the range that a tick
\* has read this session is latched, in whatever state the engine was.  A
\* restart forgets the latches, so the claim is for a process never restarted.
LatchesComplete == up /\ reset /\ crashes = 0 => saw \subseteq eng.broke

\* An ORB position is opened before 11:00, or by the tick that was under way
\* when 11:00 struck: a setup confirmed before it is not good for a later tick.
MorningOnly ==
  [][pos # "orb" /\ pos' = "orb" => phase = "morning" \/ (late /\ phase = "midday")]_vars

=============================================================================
