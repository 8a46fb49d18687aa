------------------------------ MODULE LongExit ------------------------------
(***************************************************************************)
(* Stop and trail of a long single-leg option: the ORB, sweep and adopted  *)
(* paths of execution/exit_engine.py and what _manage_one of the position  *)
(* manager does with the decision.  One tick is one step; a restart loses  *)
(* the engine's trails and keeps the stop of the row.                      *)
(*                                                                         *)
(* A mark is a number of ticks, an amount (stop, trail, floor) a number of *)
(* twentieths of a tick: every percentage of the code is then exact.  The  *)
(* underlying is measured from its price at entry, in favour of the trade, *)
(* so that calls and puts are the same trade.                              *)
(***************************************************************************)
EXTENDS Integers

CONSTANTS
  Entry,       \* entry_premium
  Marks,       \* the marks the option may show
  Moves,       \* where the underlying may be
  Gaps,        \* the 1-minute fair value gaps in favour that may be on the chart
  Reach,       \* underlying_target
  MaxCrashes,  \* bound on the kills of the process
  MaxFails     \* bound on the rejected exit orders

ASSUME ExitAssumption ==
  /\ Entry \in Nat \ {0} /\ Reach \in Nat \ {0}
  /\ Marks \subseteq Nat /\ Moves \subseteq Int
  /\ Gaps \subseteq [near : Int, far : Int]
  /\ \A gaps \in SUBSET Gaps :    \* a chart is finite
       gaps # {} => \E g \in gaps : \A h \in gaps : h.near <= g.near
  /\ MaxCrashes \in Nat /\ MaxFails \in Nat

VARIABLES
  pos,         \* the kind of the open trade, or "none"
  stop,        \* stop_premium of the record and its row
  mem,         \* the engine's _trail_stops and _trail_active of the trade
  up,          \* the process is running
  mark, best,  \* history: last and highest mark the engine has held the trade at
  crashes, fails

vars == <<pos, stop, mem, up, mark, best, crashes, fails>>

Kinds   == {"orb", "sweep", "adopted"}
NoTrail == 0
NoMem   == [trail |-> NoTrail, active |-> FALSE]

\* What a tick looks at besides the mark: the underlying and the gaps behind
\* it, the hard close, a candle against the trade (a close inside the opening
\* range, a break of structure), and theta outrunning a gain.  A night may
\* pass between two ticks, so closing is no clock.
Sights == [at : Moves, gaps : SUBSET Gaps, closing : BOOLEAN, against : BOOLEAN,
           bleeding : BOOLEAN]

HardStop   == 15 * Entry
FirstTrail == 25 * Entry
Activation == 30 * Entry
Target     == 40 * Entry

Worth(q)  == 20 * q
Larger(a, b) == IF a > b THEN a ELSE b
Abs(x) == IF x < 0 THEN -x ELSE x

-----------------------------------------------------------------------------
(* The trails.  Each takes and returns the engine's memory of the trade.   *)

Behind(gaps, price) == {g \in gaps : g.near < price}
Nearest(gaps, price) ==
  CHOOSE g \in Behind(gaps, price) : \A h \in Behind(gaps, price) : h.near <= g.near

\* The premium at an edge of a gap, by the premium per point of a move.
FloorAt(edge, move, q) ==
  20 * Entry + (Abs(edge) * 20 * (q - Entry)) \div Abs(move)

\* A new level replaces the trail, or the entry when there is none, if higher.
Raise(m, level) ==
  IF level > (IF m.trail = NoTrail THEN 20 * Entry ELSE m.trail)
    THEN [m EXCEPT !.trail = level] ELSE m

FvgTrail(m, q, s) ==
  Raise(m, IF s.at # 0 /\ Behind(s.gaps, s.at) # {}
             THEN Larger(FloorAt(Nearest(s.gaps, s.at).far, s.at, q), 16 * q)
             ELSE 16 * q)

PostTargetTrail(m, q, s) ==
  Raise(m, IF Behind(s.gaps, Reach) # {}
             THEN Larger(FloorAt(Nearest(s.gaps, Reach).near, Reach, q), 17 * q)
             ELSE 17 * q)

\* Mutant: every tick above the activation writes its level, not only the first.
PctTrailMutant(m, q) ==
  IF Worth(q) < Activation THEN m
  ELSE [trail |-> Larger(FirstTrail, 15 * q), active |-> TRUE]

\* The first activation writes its level over whatever is there.
PctTrail(m, q) ==
  IF Worth(q) < Activation THEN m
  ELSE [trail |-> Larger(IF m.active THEN m.trail ELSE FirstTrail, 15 * q), active |-> TRUE]

\* Mutant: The gap trail is armed at the activation of the 50% trail only.
TrailMutant(m, q, s) ==
  PctTrail(IF Worth(q) >= Activation THEN FvgTrail(m, q, s) ELSE m, q)

\* The tick below the target: the gap trail once up 20%, then the 50% trail.
Trail(m, q, s) ==
  PctTrail(IF Worth(q) >= 24 * Entry THEN FvgTrail(m, q, s) ELSE m, q)

-----------------------------------------------------------------------------
(* The decisions: whether to exit, and the memory and stop left behind.    *)

Exit(m) == [out |-> TRUE, mem |-> m, stop |-> stop]

Trailed(m, q) ==
  IF m.trail = NoTrail THEN [out |-> FALSE, mem |-> m, stop |-> stop]
  ELSE IF Worth(q) <= m.trail THEN Exit(m)
  ELSE [out |-> FALSE, mem |-> m, stop |-> m.trail]

ThetaBleed(q, s) ==
  s.bleeding /\ Worth(q) >= 22 * Entry /\ Worth(q) < 24 * Entry

\* Mutant: v1.5: the ORB path leaves the hard stop to the trail.
EvaluateOrbMutant(q, s) ==
  IF s.closing \/ s.against \/ ThetaBleed(q, s) THEN Exit(mem)
  ELSE Trailed(IF Worth(q) >= Target THEN PostTargetTrail(mem, q, s) ELSE Trail(mem, q, s), q)

EvaluateOrb(q, s) ==
  IF s.closing \/ Worth(q) <= stop \/ s.against \/ ThetaBleed(q, s) THEN Exit(mem)
  ELSE Trailed(IF Worth(q) >= Target THEN PostTargetTrail(mem, q, s) ELSE Trail(mem, q, s), q)

EvaluateSweep(q, s) ==
  IF \/ s.closing \/ Worth(q) <= stop \/ Worth(q) >= Target
     \/ s.against /\ q > Entry
     \/ ThetaBleed(q, s)
    THEN Exit(mem)
    ELSE Trailed(Trail(mem, q, s), q)

\* An adopted trade writes its trail to the row even as it exits.
EvaluateAdopted(q, s) ==
  IF s.closing \/ Worth(q) <= stop THEN Exit(mem)
  ELSE LET m == IF mem.active \/ Worth(q) >= Activation
                  THEN [trail |-> Larger(IF mem.active THEN mem.trail ELSE FirstTrail, 15 * q),
                        active |-> TRUE]
                  ELSE mem
       IN  [out |-> m.active /\ Worth(q) <= m.trail, mem |-> m,
            stop |-> IF m.active THEN m.trail ELSE stop]

Evaluate(q, s) ==
  CASE pos = "orb" -> EvaluateOrb(q, s)
    [] pos = "adopted" -> EvaluateAdopted(q, s)
    [] OTHER -> EvaluateSweep(q, s)

-----------------------------------------------------------------------------
Init ==
  /\ pos = "none" /\ stop = 0 /\ mem = NoMem /\ up = TRUE
  /\ mark = Entry /\ best = Entry /\ crashes = 0 /\ fails = 0

\* Mutant: the stop is the loss, not the level.
OpenedMutant(k) ==
  /\ up /\ pos = "none"
  /\ pos' = k /\ stop' = -5 * Entry /\ mem' = NoMem
  /\ mark' = Entry /\ best' = Entry
  /\ UNCHANGED <<up, crashes, fails>>

Opened(k) ==
  /\ up /\ pos = "none"
  /\ pos' = k /\ stop' = HardStop /\ mem' = NoMem
  /\ mark' = Entry /\ best' = Entry
  /\ UNCHANGED <<up, crashes, fails>>

Hold(q, s) ==
  /\ up /\ pos # "none" /\ ~Evaluate(q, s).out
  /\ stop' = Evaluate(q, s).stop /\ mem' = Evaluate(q, s).mem
  /\ mark' = q /\ best' = Larger(best, q)
  /\ UNCHANGED <<pos, up, crashes, fails>>

\* clear_trail follows the exit.
Close(q, s) ==
  /\ up /\ pos # "none" /\ Evaluate(q, s).out
  /\ pos' = "none" /\ stop' = 0 /\ mem' = NoMem
  /\ mark' = Entry /\ best' = Entry
  /\ UNCHANGED <<up, crashes, fails>>

\* A rejected order: the next tick decides again, from what this one left.
CloseFails(q, s) ==
  /\ up /\ pos # "none" /\ Evaluate(q, s).out /\ fails < MaxFails
  /\ stop' = Evaluate(q, s).stop /\ mem' = Evaluate(q, s).mem
  /\ fails' = fails + 1
  /\ UNCHANGED <<pos, up, mark, best, crashes>>

Crash ==
  /\ up /\ crashes < MaxCrashes
  /\ up' = FALSE /\ mem' = NoMem /\ crashes' = crashes + 1
  /\ UNCHANGED <<pos, stop, mark, best, fails>>

Recover ==
  /\ ~up /\ up' = TRUE
  /\ UNCHANGED <<pos, stop, mem, mark, best, crashes, fails>>

Next ==
  \/ \E k \in Kinds : Opened(k)
  \/ \E q \in Marks, s \in Sights : Hold(q, s) \/ Close(q, s) \/ CloseFails(q, s)
  \/ Crash \/ Recover

Spec == Init /\ [][Next]_vars

-----------------------------------------------------------------------------
TypeOK ==
  /\ pos \in Kinds \cup {"none"} /\ stop \in Nat /\ mem \in [trail : Nat, active : BOOLEAN]
  /\ up \in BOOLEAN /\ mark \in Nat /\ best \in Nat
  /\ crashes \in 0..MaxCrashes /\ fails \in 0..MaxFails

\* No trade rides below its stop, and no stop is ever looser than the 25% loss
\* limit: not before the trail is armed, not in a tick that rewrites the trail,
\* not after a rejected exit or a restart (v1.6 of the module is the case where
\* an ORB trade bled out for want of it).
FloorHeld == pos # "none" => stop < Worth(mark) /\ stop >= HardStop

\* A trade once held at more than 125% of its entry (an adopted one: 150%)
\* cannot become a loser: its stop is above the entry from then on, through
\* rewritten trails, rejected exits and restarts.
LockedIn ==
  \/ pos = "none"
  \/ pos = "adopted" /\ Worth(best) < Activation
  \/ Worth(best) <= FirstTrail
  \/ stop > 20 * Entry

\* A trail is a ratchet: while the process lives the stop it set falls only in
\* the tick that first arms the 50% trail, whatever the gaps behind the price
\* become and whatever order is rejected (_update_fvg_trail, _update_trail).
TrailsRatchet ==
  [][/\ pos # "none" /\ pos' = pos /\ mem.trail # NoTrail
     /\ mem.active \/ ~mem'.active
     => stop' >= stop]_vars

=============================================================================
