----------------------------- MODULE OrbProofs ------------------------------
(* Type correctness, SetupHasBreak, HandsOff, MorningOnly and LatchesComplete *)
(* for every range, every set of candles and every bound.                     *)
EXTENDS OrbProperties, TLAPS

USE OrbAssumption DEF OrbAssumption

\* The engine between two operations.  Beyond the three properties: a range is
\* known in every state that uses it, and what was handed off was not a close
\* inside, which is the one reason that re-arms.
EngineOK(e) ==
  /\ e \in Engine
  /\ \A d \in Dirs : e.state \in {Awaiting[d], Open[d]} =>
       e.dir = d /\ d \in e.broke /\ e.ranged
  /\ e.state \notin {"WAITING", "EXPIRED"} => e.ranged
  /\ e.handed => e.state \in {"INVALIDATED", "EXPIRED"} /\ e.reason # "close_inside"

Inv == TypeOK /\ EngineOK(eng)

-----------------------------------------------------------------------------
(* The states by name.                                                     *)

LEMMA Names ==
  /\ Awaiting["long"] = "BREAK_HIGH_AWAITING_RETEST"
  /\ Awaiting["short"] = "BREAK_LOW_AWAITING_RETEST"
  /\ Open["long"] = "OPEN_LONG" /\ Open["short"] = "OPEN_SHORT"
  BY DEF Awaiting, Open

LEMMA Sets ==
  /\ Opens = {"OPEN_LONG", "OPEN_SHORT"}
  /\ States = {"WAITING", "RANGING", "INVALIDATED", "EXPIRED", "OPEN_LONG", "OPEN_SHORT",
               "BREAK_HIGH_AWAITING_RETEST", "BREAK_LOW_AWAITING_RETEST"}
  BY Names DEF Opens, States, Dirs

\* A state that names no side asks nothing of the latches.
LEMMA Sideless ==
  ASSUME NEW s \in {"WAITING", "RANGING", "INVALIDATED", "EXPIRED"}, NEW d \in Dirs
  PROVE  s \notin {Awaiting[d], Open[d]} /\ s \in States /\ s \notin Opens
  BY Names, Sets DEF Dirs

\* The sides do not share states.
LEMMA Sided ==
  ASSUME NEW d \in Dirs, NEW c \in Dirs
  PROVE  /\ Awaiting[d] \in States /\ Open[d] \in States
         /\ Awaiting[d] \in {Awaiting[c], Open[c]} => c = d
         /\ Open[d] \in {Awaiting[c], Open[c]} => c = d
         /\ Awaiting[d] \notin {"INVALIDATED", "EXPIRED"}
         /\ Open[d] \notin {"INVALIDATED", "EXPIRED"}
  BY Names, Sets DEF Dirs

-----------------------------------------------------------------------------
(* Each operation of the engine keeps EngineOK.                            *)

LEMMA NewEngineOK == EngineOK(NewEngine)
<1>1. NewEngine \in Engine /\ NewEngine.state = "WAITING" /\ ~NewEngine.handed
  BY Sets DEF NewEngine, Engine
<1> QED  BY <1>1, Sideless DEF EngineOK

LEMMA RearmOK ==
  ASSUME NEW e, EngineOK(e), ~e.handed, e.ranged
  PROVE  EngineOK(Rearm(e)) /\ Rearm(e).state = "RANGING"
<1>1. /\ Rearm(e) \in Engine /\ Rearm(e).state = "RANGING" /\ ~Rearm(e).handed
      /\ Rearm(e).ranged
  BY Sideless DEF EngineOK, Rearm, NewEngine, Engine, States
<1> QED  BY <1>1, Sideless DEF EngineOK

LEMMA LoadRangeOK ==
  ASSUME NEW e, EngineOK(e)
  PROVE  EngineOK(LoadRange(e))
<1>1. CASE e.ranged \/ ~fileOk  BY <1>1 DEF LoadRange
<1>2. CASE ~e.ranged /\ fileOk
  <2> DEFINE f == LoadRange(e)
  <2>1. /\ f = [e EXCEPT !.ranged = TRUE,
                         !.state = IF e.state = "WAITING" THEN "RANGING" ELSE e.state]
    BY <1>2 DEF LoadRange
  <2>2. f \in Engine /\ f.state \in {"RANGING", e.state} /\ f.handed = e.handed
        /\ f.dir = e.dir /\ f.broke = e.broke /\ f.ranged /\ f.reason = e.reason
        /\ (e.state # "WAITING" => f.state = e.state)
    BY <2>1, Sideless DEF EngineOK, Engine, States
  <2> QED  BY <2>2, Sideless, Sided DEF EngineOK
<1> QED  BY <1>1, <1>2

LEMMA LatchBreaksOK ==
  ASSUME NEW e, NEW c, EngineOK(e)
  PROVE  /\ EngineOK(LatchBreaks(e, c))
         /\ LatchBreaks(e, c).state = e.state /\ LatchBreaks(e, c).ranged = e.ranged
         /\ LatchBreaks(e, c).handed = e.handed
         /\ e.ranged => \A d \in Dirs : BreaksOut(d, c) => d \in LatchBreaks(e, c).broke
<1>1. CASE ~e.ranged  BY <1>1 DEF LatchBreaks
<1>2. CASE e.ranged
  <2> DEFINE f == LatchBreaks(e, c)
  <2>1. f = [e EXCEPT !.broke = e.broke \cup {d \in Dirs : BreaksOut(d, c)}]
    BY <1>2 DEF LatchBreaks
  <2>2. /\ f \in Engine /\ f.state = e.state /\ f.dir = e.dir /\ f.ranged
        /\ f.handed = e.handed /\ f.reason = e.reason
        /\ f.broke = e.broke \cup {d \in Dirs : BreaksOut(d, c)}
    BY <1>2, <2>1 DEF EngineOK, Engine
  <2> QED  BY <1>2, <2>2 DEF EngineOK
<1> QED  BY <1>1, <1>2 DEF EngineOK, Engine

LEMMA CheckForBreakOK ==
  ASSUME NEW e, NEW c, EngineOK(e), bar \in Nat,
         e.ranged => \A d \in Dirs : BreaksOut(d, c) => d \in e.broke
  PROVE  EngineOK(CheckForBreak(e, c))
<1>1. CASE ~(e.state = "RANGING" /\ \E d \in Dirs : BreaksOut(d, c))
  BY <1>1 DEF CheckForBreak
<1>2. CASE e.state = "RANGING" /\ \E d \in Dirs : BreaksOut(d, c)
  <2> DEFINE d == CHOOSE d \in Dirs : BreaksOut(d, c)
             f == [e EXCEPT !.state = Awaiting[d], !.dir = d, !.bars = 0]
  <2>1. CheckForBreak(e, c) = f  BY <1>2 DEF CheckForBreak
  <2>2. d \in Dirs /\ d \in e.broke  BY <1>2 DEF EngineOK
  <2> HIDE DEF d
  <2>3. Awaiting[d] \in States  BY <2>2, Sided
  <2>4. /\ f \in Engine /\ f.state = Awaiting[d] /\ f.dir = d /\ f.broke = e.broke
        /\ f.ranged = e.ranged /\ f.handed = e.handed
    BY <2>2, <2>3 DEF EngineOK, Engine
  <2>5. e.ranged /\ ~e.handed  BY <1>2 DEF EngineOK
  <2>6. \A x \in Dirs : f.state \in {Awaiting[x], Open[x]} => x = d
    BY <2>2, <2>4, Sided
  <2> HIDE DEF f
  <2>7. EngineOK(f)  BY <2>2, <2>4, <2>5, <2>6 DEF EngineOK
  <2> QED  BY <2>1, <2>7
<1> QED  BY <1>1, <1>2

LEMMA InvalidateOK ==
  ASSUME NEW e, EngineOK(e), ~e.handed, e.ranged,
         NEW why \in {"runaway", "timeout", "close_inside"}
  PROVE  EngineOK(Invalidate(e, why)) /\ Invalidate(e, why).ranged
<1> DEFINE f == Invalidate(e, why)
<1>1. f = [e EXCEPT !.state = "INVALIDATED", !.reason = why,
                    !.handed = e.handed \/ why # "close_inside"]
  BY DEF Invalidate
<1>2. e \in Engine /\ e.handed = FALSE  BY DEF EngineOK, Engine
<1> HIDE DEF f
<1>3. /\ f \in Engine /\ f.state = "INVALIDATED" /\ f.reason = why /\ f.ranged
      /\ f.handed => why # "close_inside"
  BY <1>1, <1>2, Sets DEF Engine
<1>4. EngineOK(f)  BY <1>3, Sideless DEF EngineOK
<1> QED  BY <1>3, <1>4 DEF f

LEMMA CountOK ==
  ASSUME NEW e \in Engine, NEW f, f = [e EXCEPT !.bars = @ + 1]
  PROVE  /\ f \in Engine /\ f.state = e.state /\ f.dir = e.dir /\ f.broke = e.broke
         /\ f.ranged = e.ranged /\ f.handed = e.handed
<1>1. e.bars \in Nat  BY DEF Engine
<1>2. e.bars + 1 \in Nat  BY <1>1
<1> DEFINE n == e.bars + 1
<1>3. f = [e EXCEPT !.bars = n]  OBVIOUS
<1> HIDE DEF n
<1> QED  BY <1>2, <1>3 DEF Engine, n

LEMMA CheckForRetestOK ==
  ASSUME NEW e, NEW c, NEW r, EngineOK(e)
  PROVE  EngineOK(CheckForRetest(e, c, r))
<1> DEFINE f == [e EXCEPT !.bars = e.bars + 1]
           g == [f EXCEPT !.state = Open[e.dir]]
<1>1. CASE e.dir = "" \/ e.state # Awaiting[e.dir]
  BY <1>1 DEF CheckForRetest
<1>2. CASE ~(e.dir = "" \/ e.state # Awaiting[e.dir])
  <2>1. e.dir \in Dirs /\ e.state = Awaiting[e.dir]  BY <1>2 DEF EngineOK, Engine
  <2>2. e.ranged /\ ~e.handed /\ e.dir \in e.broke
    BY <2>1, Sided DEF EngineOK
  <2>3. f \in Engine /\ f.state = e.state /\ f.dir = e.dir /\ f.broke = e.broke
        /\ f.ranged = e.ranged /\ f.handed = e.handed
    <3>1. e \in Engine  BY DEF EngineOK
    <3> QED  BY <3>1, CountOK
  <2>4. EngineOK(f) /\ f.ranged /\ ~f.handed
    <3> HIDE DEF f
    <3> QED  BY <2>1, <2>2, <2>3, Sided DEF EngineOK
  <2>5. /\ g \in Engine /\ g.state = Open[e.dir] /\ g.dir = e.dir /\ g.broke = e.broke
        /\ g.ranged = e.ranged /\ g.handed = e.handed
    <3>1. Open[e.dir] \in States  BY <2>1, Sided
    <3> HIDE DEF f
    <3> QED  BY <2>3, <3>1 DEF Engine
  <2>6. EngineOK(g)
    <3> HIDE DEF g
    <3> QED  BY <2>1, <2>2, <2>5, Sided DEF EngineOK
  <2>7. CheckForRetest(e, c, r) \in
          {f, g, Invalidate(f, "timeout"), Invalidate(f, "runaway"),
           Invalidate(f, "close_inside")}
    BY <1>2 DEF CheckForRetest
  <2> HIDE DEF f, g
  <2> QED  BY <2>4, <2>6, <2>7, InvalidateOK
<1> QED  BY <1>1, <1>2

LEMMA RearmAfterOK ==
  ASSUME NEW e, EngineOK(e)
  PROVE  EngineOK(RearmAfter(e))
<1>1. CASE e.state = "INVALIDATED" /\ e.reason = "close_inside"
  <2>1. e.ranged /\ ~e.handed  BY <1>1 DEF EngineOK
  <2> QED  BY <1>1, <2>1, RearmOK DEF RearmAfter
<1>2. CASE ~(e.state = "INVALIDATED" /\ e.reason = "close_inside")
  BY <1>2 DEF RearmAfter
<1> QED  BY <1>1, <1>2

\* update() as a whole; past 11:00 it leaves no setup.
LEMMA UpdateOK ==
  ASSUME NEW e, NEW cs, NEW r, EngineOK(e), bar \in Nat
  PROVE  /\ EngineOK(Update(e, cs, r))
         /\ phase # "morning" => Update(e, cs, r).state \notin Opens
<1> DEFINE l == LoadRange(e)
           m == IF cs = {} THEN l ELSE LatchBreaks(l, candle)
           b == CheckForBreak(m, candle)
<1>1. EngineOK(l)  BY LoadRangeOK
<1>2. EngineOK(m)  BY <1>1, LatchBreaksOK
<1>3. CASE Expires(m)
  <2> DEFINE x == [m EXCEPT !.state = "EXPIRED"]
  <2>1. Update(e, cs, r) = x  BY <1>3 DEF Update
  <2> HIDE DEF m
  <2>2. m \in Engine /\ (m.handed => m.reason # "close_inside")  BY <1>2 DEF EngineOK
  <2>3. /\ x \in Engine /\ x.state = "EXPIRED" /\ x.handed = m.handed
        /\ x.reason = m.reason
    BY <2>2, Sets DEF Engine
  <2> HIDE DEF x
  <2>4. EngineOK(x)  BY <2>2, <2>3, Sideless DEF EngineOK
  <2>5. x.state \notin Opens  BY <2>3, Sets
  <2> QED  BY <2>1, <2>4, <2>5
<1>4. CASE ~Expires(m) /\ m.state \in Opens
  BY <1>2, <1>4 DEF Update, Expires
<1>5. CASE ~Expires(m) /\ m.state \notin Opens /\ cs = {}
  <2>1. Update(e, cs, r) = RearmAfter(m)  BY <1>5 DEF Update
  <2> QED  BY <1>2, <1>5, <2>1, RearmAfterOK DEF Expires
<1>6. CASE ~Expires(m) /\ m.state \notin Opens /\ cs # {}
  <2>1. Update(e, cs, r) = RearmAfter(CheckForRetest(b, candle, r))
    BY <1>6 DEF Update
  <2>2. m.ranged => \A d \in Dirs : BreaksOut(d, candle) => d \in m.broke
    BY <1>1, <1>6, LatchBreaksOK
  <2>3. EngineOK(b)
    <3> HIDE DEF m
    <3> QED  BY <1>2, <2>2, CheckForBreakOK
  <2> HIDE DEF b
  <2> QED  BY <1>6, <2>1, <2>3, CheckForRetestOK, RearmAfterOK DEF Expires
<1> QED  BY <1>3, <1>4, <1>5, <1>6

LEMMA PositionClosedOK ==
  ASSUME NEW e, EngineOK(e)
  PROVE  EngineOK(PositionClosed(e))
<1>1. CASE e.state \in Opens
  <2>1. e.ranged /\ ~e.handed  BY <1>1, Sets DEF EngineOK
  <2> QED  BY <1>1, <2>1, RearmOK DEF PositionClosed
<1>2. CASE e.state \notin Opens  BY <1>2 DEF PositionClosed
<1> QED  BY <1>1, <1>2

-----------------------------------------------------------------------------
LEMMA InitInv == Init => Inv
<1> SUFFICES ASSUME Init PROVE Inv  OBVIOUS
<1>1. NewEngine \in Engine  BY NewEngineOK DEF EngineOK
<1>2. 1 \in 1..MaxBars /\ 1 \in 1..MaxDay /\ 0 \in 0..MaxCrashes  BY DEF OrbAssumption
<1>3. TypeOK  BY <1>1, <1>2 DEF Init, TypeOK, Regimes, Phases
<1> QED  BY <1>3, NewEngineOK DEF Init, Inv

LEMMA StepInv == Inv /\ [Next]_vars => Inv'
<1> SUFFICES ASSUME Inv, [Next]_vars PROVE Inv'  OBVIOUS
<1> USE DEF TypeOK, Regimes, Phases
<1>1. bar \in Nat  BY DEF Inv
<1>2. ASSUME NEW cs \in {{}, {candle}}, NEW r \in Regimes, TickUpdates(cs, r)
      PROVE  Inv'
  <2>1. EngineOK(IF reset THEN eng ELSE NewEngine)  BY NewEngineOK DEF Inv
  <2>2. EngineOK(eng')  BY <1>1, <1>2, <2>1, UpdateOK DEF Updated, TickUpdates
  <2>3. saw' \subseteq Dirs  BY <1>2 DEF Inv, TickUpdates, SeenBreaks
  <2> QED  BY <1>2, <2>2, <2>3 DEF Inv, EngineOK, TickUpdates, marketVars
<1>3. ASSUME NEW b \in BOOLEAN, TickManages(b) \/ TickSignals(b) \/ TickLooksElsewhere(b)
      PROVE  Inv'
  <2>1. EngineOK(eng') /\ pos' \in {"none", "orb", "other"}
    BY <1>3, PositionClosedOK DEF TickManages, TickSignals, TickLooksElsewhere, Inv
  <2>2. TickDispatches
    BY <1>3 DEF TickManages, TickSignals, TickLooksElsewhere
  <2> QED  BY <2>1, <2>2 DEF TickDispatches, Inv, EngineOK, marketVars
<1>4. CASE ClosedTick
  BY <1>4 DEF ClosedTick, marketVars, Inv, EngineOK
<1>5. CASE NewCandle
  BY <1>5 DEF NewCandle, Inv, EngineOK
<1>6. CASE RangeEstablished
  BY <1>6 DEF RangeEstablished, Inv, EngineOK
<1>7. CASE TimePasses
  <2>1. eng' = eng /\ pos' = pos /\ late' \in BOOLEAN  BY <1>7 DEF TimePasses
  <2>2. day' \in 1..MaxDay /\ bar' \in 1..MaxBars
    BY <1>7 DEF TimePasses, Strikes, Inv
  <2>3. /\ phase' \in Phases /\ candle' \in Candles /\ saw' \subseteq Dirs
        /\ fileOk' \in BOOLEAN
    BY <1>7 DEF TimePasses, Strikes, Inv
  <2> QED  BY <1>7, <2>1, <2>2, <2>3 DEF TimePasses, Inv, EngineOK
<1>8. CASE Crash
  <2>1. crashes' \in 0..MaxCrashes  BY <1>8 DEF Crash, Inv
  <2>2. EngineOK(eng')  BY <1>8, NewEngineOK DEF Crash
  <2>3. eng' \in Engine  BY <2>2 DEF EngineOK
  <2> QED  BY <1>8, <2>1, <2>2, <2>3 DEF Crash, marketVars, Inv, EngineOK
<1>9. CASE Start
  BY <1>9 DEF Start, marketVars, Inv, EngineOK
<1>10. CASE UNCHANGED vars
  BY <1>10 DEF vars, marketVars, Inv, EngineOK
<1> QED
  BY <1>2, <1>3, <1>4, <1>5, <1>6, <1>7, <1>8, <1>9, <1>10 DEF Next, Tick

LEMMA AlwaysInv == Spec => []Inv
  BY InitInv, StepInv, PTL DEF Spec

\* The variables keep their types, for every range and every market
\* (analysis/orb_engine.py and the parts of main.py that call it).
THEOREM TypeCorrect == Spec => []TypeOK
<1>1. Inv => TypeOK  BY DEF Inv
<1> QED  BY <1>1, AlwaysInv, PTL

\* No setup is awaited or open without its own break of a range of today.
THEOREM SetupsHaveBreaks == Spec => []SetupHasBreak
<1>1. Inv => SetupHasBreak  BY DEF Inv, EngineOK, SetupHasBreak
<1> QED  BY <1>1, AlwaysInv, PTL

\* A runaway or a timeout ends the breakout hunt of the session.
THEOREM RunawaysAreHandedOff == Spec => []HandsOff
<1>1. Inv => HandsOff  BY DEF Inv, EngineOK, HandsOff
<1> QED  BY <1>1, AlwaysInv, PTL

\* What an update found open is dispatched in the morning, or just after it if
\* 11:00 struck in between.
InTime == phase = "morning" \/ (late /\ phase = "midday")

DispatchInv ==
  /\ late => pc = "dispatch"
  /\ pc = "dispatch" /\ eng.state \in Opens => InTime

LEMMA StepDispatch == Inv /\ DispatchInv /\ [Next]_vars => DispatchInv'
<1> SUFFICES ASSUME Inv, DispatchInv, [Next]_vars PROVE DispatchInv'  OBVIOUS
<1>1. ASSUME NEW cs, NEW r, TickUpdates(cs, r) PROVE DispatchInv'
  <2>1. EngineOK(IF reset THEN eng ELSE NewEngine) /\ bar \in Nat
    BY NewEngineOK DEF Inv, TypeOK
  <2>2. phase # "morning" => eng'.state \notin Opens
    BY <1>1, <2>1, UpdateOK DEF TickUpdates, Updated
  <2> QED  BY <1>1, <2>2 DEF TickUpdates, DispatchInv, InTime, marketVars
<1>2. ASSUME TickDispatches PROVE DispatchInv'
  BY <1>2 DEF TickDispatches, DispatchInv
<1>3. CASE TimePasses
  BY <1>3 DEF TimePasses, Strikes, DispatchInv, InTime
<1>4. CASE ClosedTick \/ NewCandle \/ RangeEstablished \/ Crash \/ Start
  BY <1>4 DEF ClosedTick, NewCandle, RangeEstablished, Crash, Start, marketVars,
              DispatchInv, InTime
<1>5. CASE UNCHANGED vars
  BY <1>5 DEF vars, marketVars, DispatchInv, InTime
<1> QED
  BY <1>1, <1>2, <1>3, <1>4, <1>5 DEF Next, Tick, TickManages, TickSignals, TickLooksElsewhere

\* An ORB position is opened before 11:00 or, once, by the tick that 11:00
\* overtook between the engine's update and the order (main.py reads the state
\* and sends the order without asking the clock again).
THEOREM OrbIsForTheMorning == Spec => MorningOnly
<1>1. Init => DispatchInv  BY DEF Init, DispatchInv
<1>2. Inv /\ DispatchInv /\ [Next]_vars => [pos # "orb" /\ pos' = "orb" => InTime]_vars
  <2> SUFFICES ASSUME Inv, DispatchInv, Next, pos # "orb", pos' = "orb"
               PROVE  InTime
    OBVIOUS
  <2>1. PICK b \in BOOLEAN : TickSignals(b)
    BY DEF Next, Tick, TickUpdates, TickManages, TickLooksElsewhere, ClosedTick, NewCandle,
           RangeEstablished, TimePasses, Crash, Start
  <2> QED  BY <2>1 DEF TickSignals, TickDispatches, DispatchInv
<1> QED  BY <1>1, <1>2, StepDispatch, AlwaysInv, PTL DEF Spec, MorningOnly, InTime

-----------------------------------------------------------------------------
(* The latches.  No operation forgets a side or the range, so what a tick has  *)
(* read stays latched until the next session or a kill.                        *)

SameLatches(e, f) == f.broke = e.broke /\ f.ranged = e.ranged

LEMMA LoadRangeLatches ==
  ASSUME NEW e \in Engine
  PROVE  LoadRange(e).broke = e.broke
  BY DEF LoadRange, Engine

LEMMA CheckForBreakLatches ==
  ASSUME NEW e \in Engine, NEW c
  PROVE  SameLatches(e, CheckForBreak(e, c))
<1> DEFINE d == CHOOSE d \in Dirs : BreaksOut(d, c)
           f == [e EXCEPT !.state = Awaiting[d], !.dir = d, !.bars = 0]
<1>1. CheckForBreak(e, c) \in {e, f}  BY DEF CheckForBreak
<1>2. SameLatches(e, f)  BY DEF SameLatches, Engine
<1> QED  BY <1>1, <1>2 DEF SameLatches

LEMMA InvalidateLatches ==
  ASSUME NEW e \in Engine, NEW why
  PROVE  SameLatches(e, Invalidate(e, why))
  BY DEF SameLatches, Invalidate, Engine

LEMMA CheckForRetestLatches ==
  ASSUME NEW e \in Engine, NEW c, NEW r
  PROVE  SameLatches(e, CheckForRetest(e, c, r))
<1> DEFINE f == [e EXCEPT !.bars = e.bars + 1]
           g == [f EXCEPT !.state = Open[e.dir]]
<1>1. CheckForRetest(e, c, r) \in
        {e, f, g, Invalidate(f, "timeout"), Invalidate(f, "runaway"),
         Invalidate(f, "close_inside")}
  BY DEF CheckForRetest
<1>2. f \in Engine /\ SameLatches(e, f)  BY CountOK DEF SameLatches
<1> HIDE DEF f
<1>3. SameLatches(f, g)  BY <1>2 DEF SameLatches, Engine
<1> HIDE DEF g
<1> QED  BY <1>1, <1>2, <1>3, InvalidateLatches DEF SameLatches

LEMMA RearmLatches ==
  ASSUME NEW e \in Engine
  PROVE  SameLatches(e, RearmAfter(e)) /\ SameLatches(e, PositionClosed(e))
<1>1. SameLatches(e, Rearm(e))  BY DEF SameLatches, Rearm, NewEngine, Engine
<1> QED  BY <1>1 DEF RearmAfter, PositionClosed, SameLatches

\* update() keeps what was latched and latches the candle it read.
LEMMA UpdateLatches ==
  ASSUME NEW e, NEW cs, NEW r, EngineOK(e), bar \in Nat
  PROVE  LET u == Update(e, cs, r)
         IN  /\ u \in Engine
             /\ e.broke \subseteq u.broke
             /\ u.ranged /\ cs # {} => \A d \in Dirs : BreaksOut(d, candle) => d \in u.broke
<1> DEFINE l == LoadRange(e)
           m == IF cs = {} THEN l ELSE LatchBreaks(l, candle)
           b == CheckForBreak(m, candle)
           x == [m EXCEPT !.state = "EXPIRED"]
           u == Update(e, cs, r)
<1>1. EngineOK(l) /\ l.broke = e.broke  BY LoadRangeOK, LoadRangeLatches DEF EngineOK
<1>2. EngineOK(m)  BY <1>1, LatchBreaksOK
<1>3. e.broke \subseteq m.broke
  <2>1. l.broke \subseteq LatchBreaks(l, candle).broke
    <3>1. l \in Engine  BY <1>1 DEF EngineOK
    <3> HIDE DEF l
    <3> QED  BY <3>1 DEF LatchBreaks, Engine
  <2> QED  BY <1>1, <2>1
<1>4. m.ranged /\ cs # {} => \A d \in Dirs : BreaksOut(d, candle) => d \in m.broke
  BY <1>1, LatchBreaksOK
<1>5. u \in {x, m, RearmAfter(m), RearmAfter(CheckForRetest(b, candle, r))}
  BY DEF Update
<1>6. m \in Engine  BY <1>2 DEF EngineOK
<1>7. u \in Engine  BY UpdateOK DEF EngineOK
<1> HIDE DEF m, l
<1>8. SameLatches(m, x)  BY <1>6 DEF SameLatches, Engine
<1>9. SameLatches(m, RearmAfter(m))  BY <1>6, RearmLatches
<1>10. CASE u = RearmAfter(CheckForRetest(b, candle, r)) /\ cs # {}
  <2>1. EngineOK(b) /\ SameLatches(m, b)
    BY <1>2, <1>4, <1>6, <1>10, CheckForBreakOK, CheckForBreakLatches
  <2> HIDE DEF b
  <2> DEFINE c == CheckForRetest(b, candle, r)
  <2>2. c \in Engine /\ SameLatches(b, c)
    BY <2>1, CheckForRetestOK, CheckForRetestLatches DEF EngineOK
  <2> HIDE DEF c
  <2>3. SameLatches(c, RearmAfter(c))  BY <2>2, RearmLatches
  <2>4. SameLatches(m, u)  BY <1>10, <2>1, <2>2, <2>3 DEF SameLatches, c
  <2> HIDE DEF u
  <2>5. /\ u \in Engine /\ e.broke \subseteq u.broke
        /\ u.ranged /\ cs # {} => \A d \in Dirs : BreaksOut(d, candle) => d \in u.broke
    BY <1>3, <1>4, <1>7, <2>4 DEF SameLatches
  <2> QED  BY <2>5 DEF u
<1>11. CASE u \in {x, m, RearmAfter(m)}
  <2>1. SameLatches(m, u)
    <3> HIDE DEF x, u
    <3> QED  BY <1>8, <1>9, <1>11 DEF SameLatches
  <2> HIDE DEF u
  <2>2. /\ u \in Engine /\ e.broke \subseteq u.broke
        /\ u.ranged /\ cs # {} => \A d \in Dirs : BreaksOut(d, candle) => d \in u.broke
    BY <1>3, <1>4, <1>7, <2>1 DEF SameLatches
  <2> QED  BY <2>2 DEF u
<1>12. cs = {} => u \in {x, m, RearmAfter(m)}
  BY DEF Update, m, l
<1> QED  BY <1>5, <1>10, <1>11, <1>12

LatchInv ==
  crashes = 0 => /\ reset => saw \subseteq eng.broke
                 /\ ~reset /\ phase # "closed" => saw = {}
                 /\ pc = "dispatch" => reset

\* The update of a tick: whether or not it began the session, the engine has
\* latched all that has been read.
LEMMA TickLatches ==
  ASSUME Inv, LatchInv, NEW cs, NEW r, TickUpdates(cs, r), crashes = 0
  PROVE  saw' \subseteq eng'.broke
<1> DEFINE e == IF reset THEN eng ELSE NewEngine
           u == Updated(cs)
<1>1. EngineOK(e) /\ bar \in Nat  BY NewEngineOK DEF Inv, TypeOK
<1>2. u = Update(e, cs, regime)  BY DEF Updated
<1>3. saw \subseteq e.broke
  BY DEF LatchInv, TickUpdates
<1> HIDE DEF e, u
<1>4. /\ u \in Engine /\ e.broke \subseteq u.broke
      /\ u.ranged /\ cs # {} => \A d \in Dirs : BreaksOut(d, candle) => d \in u.broke
  BY <1>1, <1>2, UpdateLatches
<1>5. saw' = saw \cup (IF u.ranged THEN {d \in Dirs : cs # {} /\ BreaksOut(d, candle)} ELSE {})
  BY DEF TickUpdates, SeenBreaks, u
<1>6. saw' \subseteq u.broke  BY <1>3, <1>4, <1>5
<1> QED  BY <1>6 DEF u, TickUpdates

LEMMA StepLatches == Inv /\ LatchInv /\ [Next]_vars => LatchInv'
<1> SUFFICES ASSUME Inv, LatchInv, [Next]_vars PROVE LatchInv'  OBVIOUS
<1>1. ASSUME NEW cs, NEW r, TickUpdates(cs, r) PROVE LatchInv'
  <2>1. crashes' = crashes /\ reset'  BY <1>1 DEF TickUpdates
  <2> QED  BY <1>1, <2>1, TickLatches DEF LatchInv
<1>2. ASSUME NEW b \in BOOLEAN, TickManages(b) \/ TickSignals(b) \/ TickLooksElsewhere(b)
      PROVE  LatchInv'
  <2>1. TickDispatches /\ eng' \in {eng, PositionClosed(eng)}
    BY <1>2 DEF TickManages, TickSignals, TickLooksElsewhere
  <2>2. eng \in Engine  BY DEF Inv, TypeOK
  <2>3. eng'.broke = eng.broke  BY <2>1, <2>2, RearmLatches DEF SameLatches
  <2> QED  BY <2>1, <2>3 DEF TickDispatches, LatchInv, marketVars
<1>3. CASE NewCandle \/ RangeEstablished \/ Start
  BY <1>3 DEF NewCandle, RangeEstablished, Start, marketVars, LatchInv
<1>4. CASE TimePasses
  BY <1>4 DEF TimePasses, Strikes, LatchInv
<1>5. CASE Crash
  BY <1>5 DEF Crash, LatchInv, Inv, TypeOK
<1>6. CASE ClosedTick
  BY <1>6 DEF ClosedTick, marketVars, LatchInv
<1>7. CASE UNCHANGED vars
  BY <1>7 DEF vars, marketVars, LatchInv
<1> QED  BY <1>1, <1>2, <1>3, <1>4, <1>5, <1>6, <1>7 DEF Next, Tick

\* Until the process is killed every close beyond the range that a tick has
\* read in this session is latched for the sweep gate, whatever the engine made
\* of it (_update_break_latches, which update() calls in every state).
THEOREM LatchesForgetNothing == Spec => []LatchesComplete
<1>1. Init => LatchInv  BY DEF Init, LatchInv
<1>2. LatchInv => LatchesComplete  BY DEF LatchInv, LatchesComplete
<1> QED  BY <1>1, <1>2, StepLatches, AlwaysInv, PTL DEF Spec

=============================================================================
