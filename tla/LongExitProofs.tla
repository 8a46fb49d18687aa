--------------------------- MODULE LongExitProofs ---------------------------
(* FloorHeld, LockedIn and TrailsRatchet for every entry, every market of     *)
(* marks, moves and gaps, and any number of restarts and rejected exits.      *)
EXTENDS LongExit, TLAPS

USE ExitAssumption DEF ExitAssumption

Memory == [trail : Nat, active : BOOLEAN]

\* A trail is above the entry from the moment it exists, and a trail that is
\* active exists.
MemOK(m) ==
  /\ m \in Memory
  /\ m.trail # NoTrail => m.trail > 20 * Entry
  /\ m.active => m.trail # NoTrail

\* What is open: above its stop, protected by what it once was worth; and the
\* row of an adopted trade holds the trail of the engine.
TradeOK ==
  /\ FloorHeld /\ LockedIn
  /\ pos = "adopted" =>
       /\ mem.trail < Worth(mark)
       /\ IF mem.active THEN stop = mem.trail ELSE mem.trail = NoTrail

Inv == TypeOK /\ MemOK(mem) /\ (pos # "none" => TradeOK)

-----------------------------------------------------------------------------
(* The trails.                                                             *)

LEMMA LevelsAreIntegers ==
  ASSUME NEW edge \in Int, NEW move \in Int, move # 0, NEW q \in Nat
  PROVE  FloorAt(edge, move, q) \in Int
<1> DEFINE a == Abs(edge) * 20 * (q - Entry)
           b == Abs(move)
<1>1. a \in Int
  BY DEF Abs
<1>2. b \in Int /\ b > 0
  BY DEF Abs
<1> HIDE DEF a, b
<1>3. a \div b \in Int
  BY <1>1, <1>2
<1> QED BY <1>3 DEF FloorAt, a, b

LEMMA NearestIsAGap ==
  ASSUME NEW gaps \in SUBSET Gaps, NEW price \in Int, Behind(gaps, price) # {}
  PROVE  Nearest(gaps, price) \in Gaps
<1> DEFINE back == Behind(gaps, price)
<1>1. back \in SUBSET Gaps
  BY DEF Behind
<1>2. PICK g \in back : \A h \in back : h.near <= g.near
  BY <1>1
<1> QED BY <1>1, <1>2 DEF Nearest

LEMMA RaiseIsOK ==
  ASSUME NEW m, MemOK(m), NEW level \in Int
  PROVE  /\ MemOK(Raise(m, level))
         /\ level > 20 * Entry => Raise(m, level).trail # NoTrail
         /\ m.trail # NoTrail => Raise(m, level).trail # NoTrail
  BY DEF MemOK, Memory, Raise, NoTrail

LEMMA PctTrailIsOK ==
  ASSUME NEW m, MemOK(m), NEW q \in Nat
  PROVE  MemOK(PctTrail(m, q)) /\ (m.trail # NoTrail => PctTrail(m, q).trail # NoTrail)
  BY DEF MemOK, Memory, PctTrail, NoTrail, Worth, Activation, FirstTrail, Larger

LEMMA FvgTrailIsOK ==
  ASSUME NEW m, MemOK(m), NEW q \in Nat, NEW s \in Sights
  PROVE  /\ MemOK(FvgTrail(m, q, s))
         /\ 16 * q > 20 * Entry => FvgTrail(m, q, s).trail # NoTrail
         /\ m.trail # NoTrail => FvgTrail(m, q, s).trail # NoTrail
<1> DEFINE gapped == s.at # 0 /\ Behind(s.gaps, s.at) # {}
           floor == FloorAt(Nearest(s.gaps, s.at).far, s.at, q)
           level == IF gapped THEN Larger(floor, 16 * q) ELSE 16 * q
<1>1. s.at \in Int /\ s.gaps \in SUBSET Gaps
  BY DEF Sights
<1>2. gapped => Nearest(s.gaps, s.at).far \in Int
  BY <1>1, NearestIsAGap
<1>3. gapped => floor \in Int
  BY <1>1, <1>2, LevelsAreIntegers
<1>4. level \in Int /\ level >= 16 * q
  <2> HIDE DEF gapped, floor
  <2> QED BY <1>3 DEF Larger
<1>5. FvgTrail(m, q, s) = Raise(m, level)
  BY DEF FvgTrail
<1> HIDE DEF level
<1> QED BY <1>4, <1>5, RaiseIsOK

LEMMA PostTargetTrailIsOK ==
  ASSUME NEW m, MemOK(m), NEW q \in Nat, NEW s \in Sights
  PROVE  /\ MemOK(PostTargetTrail(m, q, s))
         /\ 17 * q > 20 * Entry => PostTargetTrail(m, q, s).trail # NoTrail
<1> DEFINE gapped == Behind(s.gaps, Reach) # {}
           floor == FloorAt(Nearest(s.gaps, Reach).near, Reach, q)
           level == IF gapped THEN Larger(floor, 17 * q) ELSE 17 * q
<1>1. s.gaps \in SUBSET Gaps
  BY DEF Sights
<1>2. gapped => Nearest(s.gaps, Reach).near \in Int
  BY <1>1, NearestIsAGap
<1>3. gapped => floor \in Int
  BY <1>2, LevelsAreIntegers
<1>4. level \in Int /\ level >= 17 * q
  <2> HIDE DEF gapped, floor
  <2> QED BY <1>3 DEF Larger
<1>5. PostTargetTrail(m, q, s) = Raise(m, level)
  BY DEF PostTargetTrail
<1> HIDE DEF level
<1> QED BY <1>4, <1>5, RaiseIsOK

\* A tick that sees the trade above 125% of its entry leaves it with a trail.
LEMMA TrailIsOK ==
  ASSUME NEW m, MemOK(m), NEW q \in Nat, NEW s \in Sights
  PROVE  /\ MemOK(Trail(m, q, s))
         /\ Worth(q) > FirstTrail => Trail(m, q, s).trail # NoTrail
<1> DEFINE n == IF Worth(q) >= 24 * Entry THEN FvgTrail(m, q, s) ELSE m
<1>1. MemOK(n)
  BY FvgTrailIsOK
<1>2. Worth(q) > FirstTrail => n.trail # NoTrail
  <2>1. SUFFICES ASSUME Worth(q) > FirstTrail PROVE n.trail # NoTrail
    OBVIOUS
  <2>2. Worth(q) >= 24 * Entry /\ 16 * q > 20 * Entry
    BY <2>1 DEF Worth, FirstTrail
  <2> QED BY <2>2, FvgTrailIsOK
<1>3. Trail(m, q, s) = PctTrail(n, q)
  BY DEF Trail
<1> HIDE DEF n
<1> QED BY <1>1, <1>2, <1>3, PctTrailIsOK

-----------------------------------------------------------------------------
(* The decisions.                                                          *)

\* What every decision leaves behind, and what one to keep the trade does.
Sound(d, q) ==
  /\ d.out \in BOOLEAN /\ d.stop \in Nat /\ MemOK(d.mem)
  /\ d.out => d.stop = stop
  /\ ~d.out => /\ d.stop < Worth(q) /\ d.stop >= HardStop
               /\ d.stop = stop \/ d.stop > 20 * Entry
               /\ Worth(q) > FirstTrail => d.stop > 20 * Entry

LEMMA TrailedIsSound ==
  ASSUME Inv, pos # "none", NEW q \in Nat, Worth(q) > stop, NEW m, MemOK(m),
         Worth(q) > FirstTrail => m.trail # NoTrail
  PROVE  Sound(Trailed(m, q), q)
  BY DEF Inv, TypeOK, TradeOK, FloorHeld, MemOK, Memory, Sound, Trailed, Exit, Worth,
         NoTrail, HardStop, FirstTrail

LEMMA ExitIsSound ==
  ASSUME Inv, NEW q \in Nat
  PROVE  Sound(Exit(mem), q)
  BY DEF Inv, TypeOK, Sound, Exit

LEMMA OrbIsSound ==
  ASSUME Inv, pos = "orb", NEW q \in Nat, NEW s \in Sights
  PROVE  Sound(EvaluateOrb(q, s), q)
<1> DEFINE m == IF Worth(q) >= Target THEN PostTargetTrail(mem, q, s) ELSE Trail(mem, q, s)
           leave == s.closing \/ Worth(q) <= stop \/ s.against \/ ThetaBleed(q, s)
<1>1. MemOK(mem) /\ stop \in Nat /\ Worth(q) \in Nat
  BY DEF Inv, TypeOK, Worth
<1>2. MemOK(m)
  BY <1>1, PostTargetTrailIsOK, TrailIsOK
<1>3. Worth(q) > FirstTrail => m.trail # NoTrail
  <2>1. Worth(q) >= Target => 17 * q > 20 * Entry
    BY DEF Worth, Target
  <2> QED BY <1>1, <2>1, PostTargetTrailIsOK, TrailIsOK
<1>4. EvaluateOrb(q, s) = IF leave THEN Exit(mem) ELSE Trailed(m, q)
  BY DEF EvaluateOrb
<1>5. CASE leave
  BY <1>4, <1>5, ExitIsSound
<1>6. CASE ~leave
  <2>1. Worth(q) > stop
    BY <1>1, <1>6
  <2> HIDE DEF m
  <2> QED BY <1>2, <1>3, <1>4, <1>6, <2>1, TrailedIsSound
<1> QED BY <1>5, <1>6

LEMMA SweepIsSound ==
  ASSUME Inv, pos = "sweep", NEW q \in Nat, NEW s \in Sights
  PROVE  Sound(EvaluateSweep(q, s), q)
<1> DEFINE m == Trail(mem, q, s)
           leave == \/ s.closing \/ Worth(q) <= stop \/ Worth(q) >= Target
                    \/ s.against /\ q > Entry
                    \/ ThetaBleed(q, s)
<1>1. MemOK(mem) /\ stop \in Nat /\ Worth(q) \in Nat
  BY DEF Inv, TypeOK, Worth
<1>2. MemOK(m) /\ (Worth(q) > FirstTrail => m.trail # NoTrail)
  BY <1>1, TrailIsOK
<1>3. EvaluateSweep(q, s) = IF leave THEN Exit(mem) ELSE Trailed(m, q)
  BY DEF EvaluateSweep
<1>4. CASE leave
  BY <1>3, <1>4, ExitIsSound
<1>5. CASE ~leave
  <2>1. Worth(q) > stop
    BY <1>1, <1>5
  <2> HIDE DEF m
  <2> QED BY <1>2, <1>3, <1>5, <2>1, TrailedIsSound
<1> QED BY <1>4, <1>5

\* An adopted trade keeps its trail and its row together, and neither falls.
LEMMA AdoptedIsSound ==
  ASSUME Inv, pos = "adopted", NEW q \in Nat, NEW s \in Sights,
         NEW d, d = EvaluateAdopted(q, s)
  PROVE  /\ d.out \in BOOLEAN /\ d.stop \in Nat /\ MemOK(d.mem)
         /\ d.stop >= HardStop
         /\ d.stop = stop \/ d.stop > 20 * Entry
         /\ d.mem.active => d.stop = d.mem.trail
         /\ mem.active => d.mem.active /\ d.stop >= stop
         /\ ~d.mem.active => d.mem = mem /\ d.stop = stop
         /\ d.out => d.stop < Worth(mark) /\ d.mem.trail < Worth(mark)
         /\ ~d.out => /\ d.stop < Worth(q) /\ d.mem.trail < Worth(q)
                      /\ Worth(q) >= Activation => d.stop > 20 * Entry
<1> DEFINE leave == s.closing \/ Worth(q) <= stop
           armed == mem.active \/ Worth(q) >= Activation
           level == Larger(IF mem.active THEN mem.trail ELSE FirstTrail, 15 * q)
           m == IF armed THEN [trail |-> level, active |-> TRUE] ELSE mem
<1>1. /\ mem \in Memory /\ mem.trail \in Nat /\ mem.active \in BOOLEAN
      /\ stop \in Nat /\ mark \in Nat
      /\ mem.trail # NoTrail => mem.trail > 20 * Entry
      /\ stop < Worth(mark) /\ stop >= HardStop /\ mem.trail < Worth(mark)
      /\ mem.active => stop = mem.trail /\ mem.trail # NoTrail
      /\ ~mem.active => mem.trail = NoTrail
  BY DEF Inv, TypeOK, TradeOK, FloorHeld, MemOK, Memory
<1>2. d = IF leave THEN Exit(mem)
          ELSE [out |-> m.active /\ Worth(q) <= m.trail, mem |-> m,
                stop |-> IF m.active THEN m.trail ELSE stop]
  BY DEF EvaluateAdopted
<1>3. CASE leave
  <2>1. d = Exit(mem)
    BY <1>2, <1>3
  <2>2. d.out /\ d.out \in BOOLEAN /\ d.mem = mem /\ d.stop = stop
    BY <2>1 DEF Exit
  <2> HIDE DEF leave, m
  <2> QED BY <1>1, <2>2 DEF MemOK
<1>4. CASE ~leave /\ ~armed
  <2>1. d.mem = mem /\ d.stop = stop /\ ~d.out /\ d.out \in BOOLEAN
    BY <1>1, <1>2, <1>4
  <2>2. stop < Worth(q) /\ ~mem.active /\ ~(Worth(q) >= Activation)
    BY <1>1, <1>4 DEF Worth
  <2> HIDE DEF leave, armed, m
  <2> QED BY <1>1, <2>1, <2>2 DEF MemOK, NoTrail, Worth
<1>5. CASE ~leave /\ armed
  <2>1. level \in Nat /\ level > 20 * Entry /\ level >= 15 * q
    BY <1>1 DEF Larger, FirstTrail, NoTrail
  <2>2. d.mem = [trail |-> level, active |-> TRUE] /\ d.stop = level
        /\ d.out \in BOOLEAN /\ (d.out <=> Worth(q) <= level)
    <3>1. m = [trail |-> level, active |-> TRUE]
      BY <1>5
    <3> HIDE DEF level, m
    <3>2. m.active /\ m.trail = level
      BY <3>1
    <3>3. /\ d.mem = m /\ d.stop = IF m.active THEN m.trail ELSE stop
          /\ d.out = (m.active /\ Worth(q) <= m.trail)
      <4> HIDE DEF leave
      <4> QED BY <1>2, <1>5
    <3> QED BY <3>1, <3>2, <3>3
  <2>3. d.mem.trail = level /\ d.mem.active /\ d.mem \in Memory
    BY <2>1, <2>2 DEF Memory
  <2>4. mem.active => level >= mem.trail
    BY <1>1 DEF Larger, FirstTrail
  <2>5. q > 0 /\ Worth(q) \in Nat
    BY <1>1, <1>5 DEF Worth, HardStop
  <2>6. Worth(q) <= level => level < Worth(mark)
    <3>1. SUFFICES ASSUME Worth(q) <= level PROVE level < Worth(mark)
      OBVIOUS
    <3>2. level # 15 * q
      BY <2>5, <3>1 DEF Worth
    <3>3. CASE mem.active
      BY <1>1, <3>2, <3>3 DEF Larger
    <3>4. CASE ~mem.active
      BY <1>5, <2>5, <3>1, <3>2, <3>4 DEF Larger, FirstTrail, Activation
    <3> QED BY <3>3, <3>4
  <2> HIDE DEF leave, armed, level, m
  <2>7. MemOK(d.mem)
    BY <2>1, <2>3 DEF MemOK, NoTrail
  <2> QED BY <1>1, <2>1, <2>2, <2>3, <2>4, <2>5, <2>6, <2>7 DEF HardStop
<1> HIDE DEF leave, armed
<1> QED BY <1>3, <1>4, <1>5

-----------------------------------------------------------------------------
(* The steps.                                                              *)

LEMMA HoldKeepsInv ==
  ASSUME Inv, NEW q \in Marks, NEW s \in Sights, Hold(q, s)
  PROVE  Inv'
<1> DEFINE d == Evaluate(q, s)
<1>1. /\ pos # "none" /\ pos' = pos /\ ~d.out /\ stop' = d.stop /\ mem' = d.mem
      /\ mark' = q /\ best' = Larger(best, q) /\ q \in Nat
      /\ UNCHANGED <<up, crashes, fails>>
  BY DEF Hold
<1>2. TypeOK /\ TradeOK /\ best \in Nat /\ stop \in Nat /\ FloorHeld
  BY <1>1 DEF Inv, TypeOK, TradeOK
<1>3. best' \in Nat /\ (best' = best \/ best' = q)
  BY <1>1, <1>2 DEF Larger
<1>4. pos \in Kinds
  BY <1>1, <1>2 DEF TypeOK
<1>5. CASE pos \in {"orb", "sweep"}
  <2>1. Sound(d, q)
    BY <1>1, <1>5, OrbIsSound, SweepIsSound DEF Evaluate
  <2> HIDE DEF d
  <2>2. TypeOK' /\ MemOK(mem)'
    BY <1>1, <1>2, <1>3, <2>1 DEF Sound, TypeOK, MemOK, Memory
  <2>3. FloorHeld'
    BY <1>1, <2>1 DEF Sound, FloorHeld, Worth, HardStop
  <2>4. LockedIn'
    <3>1. CASE best' = q
      BY <1>1, <1>5, <2>1, <3>1 DEF Sound, LockedIn, Worth, FirstTrail
    <3>2. CASE best' = best
      BY <1>1, <1>2, <1>5, <2>1, <3>2 DEF Sound, TradeOK, LockedIn, Worth, FirstTrail
    <3> QED BY <1>3, <3>1, <3>2
  <2> QED BY <1>1, <1>5, <2>2, <2>3, <2>4 DEF Inv, TradeOK
<1>6. CASE pos = "adopted"
  <2>1. d = EvaluateAdopted(q, s)
    BY <1>6 DEF Evaluate
  <2> HIDE DEF d
  <2>2. /\ d.stop \in Nat /\ MemOK(d.mem) /\ d.stop >= HardStop
        /\ d.stop = stop \/ d.stop > 20 * Entry
        /\ d.mem.active => d.stop = d.mem.trail
        /\ ~d.mem.active => d.mem = mem
        /\ mem.active => d.mem.active
        /\ d.stop < Worth(q) /\ d.mem.trail < Worth(q)
        /\ Worth(q) >= Activation => d.stop > 20 * Entry
    BY <1>1, <1>6, <2>1, AdoptedIsSound
  <2>3. TypeOK' /\ MemOK(mem)'
    BY <1>1, <1>2, <1>3, <2>2 DEF TypeOK, MemOK, Memory
  <2>4. FloorHeld'
    BY <1>1, <2>2 DEF FloorHeld, Worth, HardStop
  <2>5. LockedIn'
    <3>1. CASE best' = q
      BY <1>1, <1>6, <2>2, <3>1 DEF LockedIn, Worth, FirstTrail, Activation
    <3>2. CASE best' = best
      BY <1>1, <1>2, <1>6, <2>2, <3>2 DEF TradeOK, LockedIn, Worth, FirstTrail, Activation
    <3> QED BY <1>3, <3>1, <3>2
  <2>6. /\ mem'.trail < Worth(mark)'
        /\ IF mem'.active THEN stop' = mem'.trail ELSE mem'.trail = NoTrail
    BY <1>1, <1>2, <1>6, <2>2 DEF TradeOK, Worth
  <2> QED BY <2>3, <2>4, <2>5, <2>6 DEF Inv, TradeOK
<1> QED BY <1>4, <1>5, <1>6 DEF Kinds

LEMMA CloseFailsKeepsInv ==
  ASSUME Inv, NEW q \in Marks, NEW s \in Sights, CloseFails(q, s)
  PROVE  Inv'
<1> DEFINE d == Evaluate(q, s)
<1>1. /\ pos # "none" /\ pos' = pos /\ d.out /\ stop' = d.stop /\ mem' = d.mem
      /\ fails < MaxFails /\ fails' = fails + 1 /\ q \in Nat
      /\ UNCHANGED <<up, mark, best, crashes>>
  BY DEF CloseFails
<1>2. TypeOK /\ TradeOK /\ best \in Nat /\ stop \in Nat /\ mark \in Nat
  BY <1>1 DEF Inv, TypeOK
<1>3. pos \in Kinds /\ fails' \in 0..MaxFails
  BY <1>1, <1>2 DEF TypeOK
<1>4. CASE pos \in {"orb", "sweep"}
  <2>1. Sound(d, q)
    BY <1>1, <1>4, OrbIsSound, SweepIsSound DEF Evaluate
  <2> HIDE DEF d
  <2>2. stop' = stop /\ MemOK(mem)'
    BY <1>1, <2>1 DEF Sound, MemOK
  <2>3. TypeOK'
    BY <1>1, <1>2, <1>3, <2>2 DEF TypeOK, MemOK, Memory
  <2>4. FloorHeld' /\ LockedIn'
    BY <1>1, <1>2, <2>2 DEF TradeOK, FloorHeld, LockedIn, Worth
  <2> QED BY <1>1, <1>4, <2>2, <2>3, <2>4 DEF Inv, TradeOK
<1>5. CASE pos = "adopted"
  <2>1. d = EvaluateAdopted(q, s)
    BY <1>5 DEF Evaluate
  <2> HIDE DEF d
  <2>2. /\ d.stop \in Nat /\ MemOK(d.mem) /\ d.stop >= HardStop
        /\ d.stop = stop \/ d.stop > 20 * Entry
        /\ d.mem.active => d.stop = d.mem.trail
        /\ ~d.mem.active => d.mem = mem
        /\ mem.active => d.mem.active
        /\ d.stop < Worth(mark) /\ d.mem.trail < Worth(mark)
    BY <1>1, <1>5, <2>1, AdoptedIsSound
  <2>3. TypeOK' /\ MemOK(mem)'
    BY <1>1, <1>2, <1>3, <2>2 DEF TypeOK, MemOK, Memory
  <2>4. FloorHeld' /\ LockedIn'
    BY <1>1, <1>2, <1>5, <2>2 DEF TradeOK, FloorHeld, LockedIn, Worth
  <2>5. /\ mem'.trail < Worth(mark)'
        /\ IF mem'.active THEN stop' = mem'.trail ELSE mem'.trail = NoTrail
    BY <1>1, <1>2, <1>5, <2>2 DEF TradeOK, Worth
  <2> QED BY <2>3, <2>4, <2>5 DEF Inv, TradeOK
<1> QED BY <1>3, <1>4, <1>5 DEF Kinds

LEMMA InitInv == Init => Inv
  BY DEF Init, Inv, TypeOK, MemOK, Memory, NoMem, NoTrail

LEMMA NextInv == Inv /\ [Next]_vars => Inv'
<1> SUFFICES ASSUME Inv, [Next]_vars PROVE Inv'
  OBVIOUS
<1>1. ASSUME NEW k \in Kinds, Opened(k) PROVE Inv'
  BY <1>1 DEF Opened, Inv, TypeOK, TradeOK, FloorHeld, LockedIn, MemOK, Memory, NoMem,
     NoTrail, HardStop, FirstTrail, Worth, Kinds
<1>2. ASSUME NEW q \in Marks, NEW s \in Sights, Hold(q, s) PROVE Inv'
  BY <1>2, HoldKeepsInv
<1>3. ASSUME NEW q \in Marks, NEW s \in Sights, Close(q, s) PROVE Inv'
  BY <1>3 DEF Close, Inv, TypeOK, MemOK, Memory, NoMem, NoTrail
<1>4. ASSUME NEW q \in Marks, NEW s \in Sights, CloseFails(q, s) PROVE Inv'
  BY <1>4, CloseFailsKeepsInv
<1>5. CASE Crash
  <2>1. TypeOK' /\ MemOK(mem)'
    <3>1. mem' = NoMem /\ NoMem \in Memory /\ NoMem.trail = NoTrail /\ ~NoMem.active
      BY <1>5 DEF Crash, NoMem, Memory, NoTrail
    <3>2. crashes' \in 0..MaxCrashes
      <4>1. crashes \in 0..MaxCrashes /\ crashes < MaxCrashes /\ crashes' = crashes + 1
        BY <1>5 DEF Crash, Inv, TypeOK
      <4> QED BY <4>1
    <3>3. up' \in BOOLEAN
      BY <1>5 DEF Crash
    <3> QED BY <1>5, <3>1, <3>2, <3>3 DEF Crash, Inv, TypeOK, MemOK, Memory
  <2>2. pos # "none" => TradeOK'
    BY <1>5 DEF Crash, Inv, TypeOK, TradeOK, FloorHeld, LockedIn, NoMem, NoTrail, Worth, HardStop
  <2> QED BY <1>5, <2>1, <2>2 DEF Inv, Crash
<1>6. CASE Recover
  BY <1>6 DEF Recover, Inv, TypeOK, TradeOK, FloorHeld, LockedIn, MemOK
<1>7. CASE UNCHANGED vars
  BY <1>7 DEF vars, Inv, TypeOK, TradeOK, FloorHeld, LockedIn, MemOK
<1> QED BY <1>1, <1>2, <1>3, <1>4, <1>5, <1>6, <1>7 DEF Next

LEMMA Invariance == Spec => []Inv
  BY InitInv, NextInv, PTL DEF Spec

\* Every variable keeps its type.
THEOREM TypeCorrect == Spec => []TypeOK
<1>1. Inv => TypeOK
  BY DEF Inv
<1> QED BY <1>1, Invariance, PTL

\* No trade rides below its stop, and no stop is looser than the loss limit
\* (FloorHeld).
THEOREM LossesAreFloored == Spec => []FloorHeld
<1>1. Inv => FloorHeld
  BY DEF Inv, TradeOK, FloorHeld
<1> QED BY <1>1, Invariance, PTL

\* A trade that was well up cannot become a loser (LockedIn).
THEOREM GainsAreLocked == Spec => []LockedIn
<1>1. Inv => LockedIn
  BY DEF Inv, TradeOK, LockedIn
<1> QED BY <1>1, Invariance, PTL

-----------------------------------------------------------------------------
(* The ratchet.                                                            *)

\* From the moment a trail exists it is at or above the stop of the row.
Leads == pos # "none" /\ mem.trail # NoTrail => stop <= mem.trail

\* One memory follows another without the first activation in between.
Follows(m, n) == m.trail # NoTrail /\ (m.active \/ ~n.active) => n.trail >= m.trail

LEMMA RaiseFollows ==
  ASSUME NEW m, MemOK(m), NEW level \in Int
  PROVE  Raise(m, level).active = m.active /\ Follows(m, Raise(m, level))
  BY DEF MemOK, Memory, Raise, Follows, NoTrail

LEMMA PctTrailFollows ==
  ASSUME NEW m, MemOK(m), NEW q \in Nat
  PROVE  /\ Follows(m, PctTrail(m, q))
         /\ PctTrail(m, q).active \/ PctTrail(m, q) = m
         /\ m.active => PctTrail(m, q).active
  BY DEF MemOK, Memory, PctTrail, Follows, NoTrail, Worth, Activation, FirstTrail, Larger

\* The level of a gap is a number, so that raising the trail to it is as well.
LEMMA FvgTrailFollows ==
  ASSUME NEW m, MemOK(m), NEW q \in Nat, NEW s \in Sights
  PROVE  FvgTrail(m, q, s).active = m.active /\ Follows(m, FvgTrail(m, q, s))
<1> DEFINE gapped == s.at # 0 /\ Behind(s.gaps, s.at) # {}
           floor == FloorAt(Nearest(s.gaps, s.at).far, s.at, q)
           level == IF gapped THEN Larger(floor, 16 * q) ELSE 16 * q
<1>1. gapped => floor \in Int
  BY NearestIsAGap, LevelsAreIntegers DEF Sights
<1>2. level \in Int
  <2> HIDE DEF gapped, floor
  <2> QED BY <1>1 DEF Larger
<1>3. FvgTrail(m, q, s) = Raise(m, level)
  BY DEF FvgTrail
<1> HIDE DEF level
<1> QED BY <1>2, <1>3, RaiseFollows

LEMMA PostTargetTrailFollows ==
  ASSUME NEW m, MemOK(m), NEW q \in Nat, NEW s \in Sights
  PROVE  Follows(m, PostTargetTrail(m, q, s))
<1> DEFINE gapped == Behind(s.gaps, Reach) # {}
           floor == FloorAt(Nearest(s.gaps, Reach).near, Reach, q)
           level == IF gapped THEN Larger(floor, 17 * q) ELSE 17 * q
<1>1. gapped => floor \in Int
  BY NearestIsAGap, LevelsAreIntegers DEF Sights
<1>2. level \in Int
  <2> HIDE DEF gapped, floor
  <2> QED BY <1>1 DEF Larger
<1>3. PostTargetTrail(m, q, s) = Raise(m, level)
  BY DEF PostTargetTrail
<1> HIDE DEF level
<1> QED BY <1>2, <1>3, RaiseFollows

LEMMA TrailFollows ==
  ASSUME NEW m, MemOK(m), NEW q \in Nat, NEW s \in Sights
  PROVE  Follows(m, Trail(m, q, s))
<1> DEFINE n == IF Worth(q) >= 24 * Entry THEN FvgTrail(m, q, s) ELSE m
<1>1. MemOK(n) /\ n.active = m.active /\ Follows(m, n)
      /\ (m.trail # NoTrail => n.trail # NoTrail)
  <2>1. Follows(m, m)
    BY DEF Follows, MemOK, Memory
  <2> QED BY <2>1, FvgTrailIsOK, FvgTrailFollows
<1>2. Trail(m, q, s) = PctTrail(n, q)
  BY DEF Trail
<1> HIDE DEF n
<1>3. Follows(n, PctTrail(n, q)) /\ MemOK(PctTrail(n, q))
      /\ (PctTrail(n, q).active \/ PctTrail(n, q) = n)
  BY <1>1, PctTrailFollows, PctTrailIsOK
<1> QED BY <1>1, <1>2, <1>3 DEF Follows, MemOK, Memory

\* A decision keeps the trail above the stop, and lets the stop fall only with
\* the first activation.
Ratchets(d) ==
  /\ d.mem.trail # NoTrail => d.stop <= d.mem.trail
  /\ mem.trail # NoTrail /\ (mem.active \/ ~d.mem.active) => d.stop >= stop

LEMMA TrailedRatchets ==
  ASSUME Inv, Leads, pos # "none", NEW q \in Nat, Worth(q) > stop,
         NEW m, MemOK(m), Follows(mem, m)
  PROVE  Ratchets(Trailed(m, q))
<1>1. stop \in Nat /\ mem.trail \in Nat /\ m.trail \in Nat /\ Worth(q) \in Nat
  BY DEF Inv, TypeOK, MemOK, Memory, Worth
<1> QED BY <1>1 DEF Ratchets, Trailed, Exit, Leads, Follows

LEMMA ExitRatchets ==
  ASSUME Inv, Leads, pos # "none"
  PROVE  Ratchets(Exit(mem))
  BY DEF Inv, TypeOK, Ratchets, Exit, Leads

LEMMA EvaluateRatchets ==
  ASSUME Inv, Leads, pos # "none", NEW q \in Nat, NEW s \in Sights
  PROVE  Ratchets(Evaluate(q, s))
<1>1. MemOK(mem) /\ stop \in Nat /\ Worth(q) \in Nat /\ pos \in Kinds
  BY DEF Inv, TypeOK, Worth
<1>2. CASE pos = "orb"
  <2> DEFINE m == IF Worth(q) >= Target THEN PostTargetTrail(mem, q, s) ELSE Trail(mem, q, s)
             leave == s.closing \/ Worth(q) <= stop \/ s.against \/ ThetaBleed(q, s)
  <2>1. MemOK(m) /\ Follows(mem, m)
    BY <1>1, PostTargetTrailIsOK, TrailIsOK, PostTargetTrailFollows, TrailFollows
  <2>2. Evaluate(q, s) = IF leave THEN Exit(mem) ELSE Trailed(m, q)
    BY <1>2 DEF Evaluate, EvaluateOrb
  <2>3. ~leave => Worth(q) > stop
    BY <1>1
  <2> HIDE DEF m, leave
  <2> QED BY <2>1, <2>2, <2>3, ExitRatchets, TrailedRatchets
<1>3. CASE pos = "sweep"
  <2> DEFINE m == Trail(mem, q, s)
             leave == \/ s.closing \/ Worth(q) <= stop \/ Worth(q) >= Target
                      \/ s.against /\ q > Entry
                      \/ ThetaBleed(q, s)
  <2>1. MemOK(m) /\ Follows(mem, m)
    BY <1>1, TrailIsOK, TrailFollows
  <2>2. Evaluate(q, s) = IF leave THEN Exit(mem) ELSE Trailed(m, q)
    BY <1>3 DEF Evaluate, EvaluateSweep
  <2>3. ~leave => Worth(q) > stop
    BY <1>1
  <2> HIDE DEF m, leave
  <2> QED BY <2>1, <2>2, <2>3, ExitRatchets, TrailedRatchets
<1>4. CASE pos = "adopted"
  <2> DEFINE d == EvaluateAdopted(q, s)
  <2>1. Evaluate(q, s) = d
    BY <1>4 DEF Evaluate
  <2>2. /\ d.stop \in Nat /\ MemOK(d.mem)
        /\ d.mem.active => d.stop = d.mem.trail
        /\ mem.active => d.stop >= stop
        /\ ~d.mem.active => d.mem = mem /\ d.stop = stop
    BY <1>4, AdoptedIsSound
  <2> HIDE DEF d
  <2>3. ~mem.active => mem.trail = NoTrail
    BY <1>4 DEF Inv, TradeOK
  <2> QED BY <1>1, <2>1, <2>2, <2>3 DEF Ratchets, Leads, MemOK, Memory
<1> QED BY <1>1, <1>2, <1>3, <1>4 DEF Kinds

LEMMA LeadsStep == Inv /\ Leads /\ [Next]_vars => Leads'
<1> SUFFICES ASSUME Inv, Leads, [Next]_vars PROVE Leads'
  OBVIOUS
<1>1. ASSUME NEW k \in Kinds, Opened(k) PROVE Leads'
  BY <1>1 DEF Opened, Leads, NoMem, NoTrail
<1>2. ASSUME NEW q \in Marks, NEW s \in Sights, Hold(q, s) \/ CloseFails(q, s) PROVE Leads'
  <2>1. pos # "none" /\ stop' = Evaluate(q, s).stop /\ mem' = Evaluate(q, s).mem
    BY <1>2 DEF Hold, CloseFails
  <2> QED BY <2>1, EvaluateRatchets DEF Ratchets, Leads
<1>3. ASSUME NEW q \in Marks, NEW s \in Sights, Close(q, s) PROVE Leads'
  BY <1>3 DEF Close, Leads
<1>4. CASE Crash
  BY <1>4 DEF Crash, Leads, NoMem, NoTrail
<1>5. CASE Recover \/ UNCHANGED vars
  BY <1>5 DEF Recover, vars, Leads
<1> QED BY <1>1, <1>2, <1>3, <1>4, <1>5 DEF Next

\* While the process lives the stop a trail has set falls only in the tick that
\* first arms the 50% trail (TrailsRatchet).
THEOREM StopsRatchet == Spec => TrailsRatchet
<1> DEFINE Ratchet == /\ pos # "none" /\ pos' = pos /\ mem.trail # NoTrail
                      /\ mem.active \/ ~mem'.active
                      => stop' >= stop
<1>1. Init => Leads
  BY DEF Init, Leads
<1>2. Inv /\ Leads /\ [Next]_vars => [Ratchet]_vars
  <2> SUFFICES ASSUME Inv, Leads, Next, pos # "none", pos' = pos, mem.trail # NoTrail,
                      mem.active \/ ~mem'.active
               PROVE  stop' >= stop
    OBVIOUS
  <2>1. stop \in Nat
    BY DEF Inv, TypeOK
  <2>2. ASSUME NEW q \in Marks, NEW s \in Sights, Hold(q, s) \/ CloseFails(q, s)
        PROVE  stop' >= stop
    <3>1. stop' = Evaluate(q, s).stop /\ mem' = Evaluate(q, s).mem
      BY <2>2 DEF Hold, CloseFails
    <3> QED BY <3>1, EvaluateRatchets DEF Ratchets
  <2>3. ASSUME NEW q \in Marks, NEW s \in Sights PROVE ~Close(q, s)
    BY DEF Close
  <2>4. ASSUME NEW k \in Kinds PROVE ~Opened(k)
    BY DEF Opened
  <2>5. CASE Crash \/ Recover
    BY <2>1, <2>5 DEF Crash, Recover
  <2> QED BY <2>2, <2>3, <2>4, <2>5 DEF Next
<1> QED BY <1>1, <1>2, LeadsStep, Invariance, PTL DEF Spec, TrailsRatchet

=============================================================================
