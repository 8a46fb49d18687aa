--------------------------- MODULE NeutralProofs ----------------------------
(* NeutralTypeOK, RolledIsRiskFree, RollsInRange, FlyRowIsFilled,            *)
(* FlyFillsBounded and FlyIsCalm for every chain, band, wing and budget and  *)
(* any number of orders and kills; the shape of a condor, as an invariant    *)
(* and as a refinement of CondorStructure; and WithinBudget for every chain  *)
(* nobody can arbitrage.                                                     *)
EXTENDS NeutralProperties, FiniteSetTheorems, SequenceTheorems, WellFoundedInduction, TLAPS

-----------------------------------------------------------------------------
(* Numbers.                                                                *)

\* The least-number principle, for a set.
LEMMA LeastNumber ==
  ASSUME NEW S \in SUBSET Nat, S # {}
  PROVE  \E m \in S : \A n \in S : m <= n
<1> DEFINE less == {p \in Nat \X Nat : p[1] < p[2]}
<1>1. IsWellFoundedOn(less, Nat)
  BY NatLessThanWellFounded DEF OpToRel
<1>2. PICK m \in S : \A n \in S : <<n, m>> \notin less
  <2> HIDE DEF less
  <2> QED BY <1>1, WFMin
<1>3. ASSUME NEW n \in S
      PROVE  m <= n
  <2>1. <<n, m>> \in Nat \X Nat /\ <<n, m>>[1] = n /\ <<n, m>>[2] = m
    OBVIOUS
  <2> QED BY <1>2, <2>1
<1> QED BY <1>3

LEMMA Quotient ==
  ASSUME NEW a \in Nat, NEW b \in Nat \ {0}
  PROVE  a \div b \in Nat /\ b * (a \div b) <= a
  OBVIOUS

LEMMA DistanceIsNatural ==
  ASSUME NEW a \in Int, NEW b \in Int
  PROVE  Distance(a, b) \in Nat
  BY DEF Distance

-----------------------------------------------------------------------------
(* The chain.                                                              *)

\* Some strike is nearest, and the lower of two that are.
LEMMA NearestIsOne ==
  ASSUME NEW S \in SUBSET Strikes, S # {}, NEW x \in Int
  PROVE  Nearest(S, x) \in S
<1>1. S \subseteq Nat
  BY ChainAssumption DEF ChainAssumption
<1>2. ASSUME NEW k \in S PROVE Distance(k, x) \in Nat
  <2>1. k \in Int
    BY <1>1
  <2> QED BY <2>1, DistanceIsNatural
<1>3. PICK d \in S : \A j \in S : Distance(d, x) <= Distance(j, x)
  <2> DEFINE ds == {Distance(k, x) : k \in S}
  <2>1. ds \in SUBSET Nat /\ ds # {}
    BY <1>2
  <2>2. \E m \in ds : \A n \in ds : m <= n
    <3> HIDE DEF ds
    <3> QED BY <2>1, LeastNumber
  <2> QED BY <2>2
<1>4. PICK k \in {j \in S : Distance(j, x) = Distance(d, x)} :
        \A j \in {i \in S : Distance(i, x) = Distance(d, x)} : k <= j
  <2> DEFINE ks == {j \in S : Distance(j, x) = Distance(d, x)}
  <2>1. ks \in SUBSET Nat /\ ks # {}
    BY <1>1, <1>3
  <2>2. \E m \in ks : \A n \in ks : m <= n
    <3> HIDE DEF ks
    <3> QED BY <2>1, LeastNumber
  <2> QED BY <2>2
<1>5. \A j \in S : \/ Distance(k, x) < Distance(j, x)
                   \/ Distance(k, x) = Distance(j, x) /\ k <= j
  BY <1>2, <1>3, <1>4
<1> QED BY <1>4, <1>5 DEF Nearest

LEMMA ContractIsLiquid ==
  ASSUME NEW c, NEW s, NEW k \in Int, Liquid(c, s) # {}
  PROVE  Contract(c, s, k) \in Liquid(c, s)
<1>1. Liquid(c, s) \in SUBSET Strikes
  BY DEF Liquid
<1> QED BY <1>1, NearestIsOne DEF Contract

LEMMA MarksAreNumbers ==
  ASSUME NEW c \in Chain, NEW s \in Sides, NEW k \in Strikes
  PROVE  c[s][k] \in Nat
<1>1. c["call"] \in [Strikes -> Nat] /\ c["put"] \in [Strikes -> Nat]
  BY DEF Chain, Marks
<1>2. CASE s = "call"
  BY <1>1, <1>2
<1>3. CASE s = "put"
  BY <1>1, <1>3
<1> QED BY <1>2, <1>3 DEF Sides

LEMMA SpreadIsNumber ==
  ASSUME NEW c \in Chain, NEW s \in Sides, NEW short \in Strikes, NEW long \in Strikes
  PROVE  Spread(c, s, short, long) \in Int
<1>1. c[s][short] \in Nat /\ c[s][long] \in Nat
  BY MarksAreNumbers
<1> QED BY <1>1 DEF Spread

-----------------------------------------------------------------------------
(* The rows of the condor.                                                 *)

Typed(rs) == rs \in Seq(Row) /\ \A i \in DOMAIN rs : rs[i].lots > 0

\* RolledIsRiskFree, of rows that are there: the row i protects the row tested
\* and replaced the row from.
Covers(rs) ==
  \A i \in DOMAIN rs : rs[i].from # 0 =>
    /\ rs[i].from \in DOMAIN rs /\ rs[i].tested \in DOMAIN rs
    /\ ~rs[rs[i].from].open
    /\ rs[rs[i].tested].credit + rs[rs[i].from].credit - rs[rs[i].from].exit + rs[i].credit
         >= Distance(rs[rs[i].tested].short, rs[rs[i].tested].long)

\* What may become of a row: it is marked, made final or closed, and once
\* closed it keeps its result.
Held(r, q) ==
  /\ q.side = r.side /\ q.short = r.short /\ q.long = r.long /\ q.credit = r.credit
  /\ q.lots = r.lots /\ q.condor = r.condor /\ q.from = r.from /\ q.tested = r.tested
  /\ q.open => r.open
  /\ r.wing => q.wing
  /\ ~r.open => q.exit = r.exit

Kept(rs, new) == DOMAIN new = DOMAIN rs /\ \A i \in DOMAIN rs : Held(rs[i], new[i])

LEMMA RowsAreRows ==
  ASSUME NEW rs, Typed(rs)
  PROVE  /\ Len(rs) \in Nat /\ DOMAIN rs = 1..Len(rs)
         /\ \A i \in DOMAIN rs : rs[i] \in Row /\ rs[i].lots > 0
  BY DEF Typed

LEMMA RowsMapped ==
  ASSUME NEW rs, Typed(rs), Covers(rs), NEW new, DOMAIN new = DOMAIN rs,
         new = [i \in DOMAIN rs |-> new[i]],
         \A i \in DOMAIN rs : new[i] \in Row /\ Held(rs[i], new[i])
  PROVE  Typed(new) /\ Covers(new) /\ Len(new) = Len(rs)
<1>1. Len(rs) \in Nat /\ DOMAIN rs = 1..Len(rs)
  BY RowsAreRows
<1>2. new \in [1..Len(rs) -> Row]
  BY <1>1
<1>3. new \in Seq(Row) /\ Len(new) = Len(rs)
  BY <1>1, <1>2
<1>4. \A i \in DOMAIN new : new[i].lots > 0
  BY RowsAreRows DEF Held
<1>5. Covers(new)
  <2> SUFFICES ASSUME NEW i \in DOMAIN new, new[i].from # 0
               PROVE  /\ new[i].from \in DOMAIN new /\ new[i].tested \in DOMAIN new
                      /\ ~new[new[i].from].open
                      /\ new[new[i].tested].credit + new[new[i].from].credit
                           - new[new[i].from].exit + new[i].credit
                           >= Distance(new[new[i].tested].short, new[new[i].tested].long)
    BY DEF Covers
  <2>1. new[i].from = rs[i].from /\ new[i].tested = rs[i].tested /\ new[i].credit = rs[i].credit
    BY DEF Held
  <2>2. rs[i].from \in DOMAIN rs /\ rs[i].tested \in DOMAIN rs /\ ~rs[rs[i].from].open
    BY <2>1 DEF Covers
  <2>3. /\ Held(rs[rs[i].from], new[rs[i].from])
        /\ Held(rs[rs[i].tested], new[rs[i].tested])
    BY <2>2
  <2> QED BY <2>1, <2>2, <2>3 DEF Held, Covers
<1> QED BY <1>3, <1>4, <1>5 DEF Typed

LEMMA RowAppended ==
  ASSUME NEW rs, Typed(rs), Covers(rs), NEW r \in Row, r.lots > 0,
         r.from # 0 =>
           /\ r.from \in DOMAIN rs /\ r.tested \in DOMAIN rs /\ ~rs[r.from].open
           /\ rs[r.tested].credit + rs[r.from].credit - rs[r.from].exit + r.credit
                >= Distance(rs[r.tested].short, rs[r.tested].long)
  PROVE  /\ Typed(Append(rs, r)) /\ Covers(Append(rs, r))
         /\ Len(Append(rs, r)) = Len(rs) + 1
         /\ DOMAIN Append(rs, r) = DOMAIN rs \cup {Len(rs) + 1}
         /\ Append(rs, r)[Len(rs) + 1] = r
         /\ \A i \in DOMAIN rs : Append(rs, r)[i] = rs[i]
<1> DEFINE new == Append(rs, r)
<1>1. Len(rs) \in Nat /\ DOMAIN rs = 1..Len(rs) /\ rs \in Seq(Row)
  BY RowsAreRows DEF Typed
<1>2. /\ new \in Seq(Row) /\ Len(new) = Len(rs) + 1 /\ new[Len(rs) + 1] = r
      /\ \A i \in 1..Len(rs) : new[i] = rs[i]
  BY <1>1
<1>3. DOMAIN new = 1..(Len(rs) + 1)
  BY <1>1, <1>2
<1>4. DOMAIN new = DOMAIN rs \cup {Len(rs) + 1}
  BY <1>1, <1>3
<1> HIDE DEF new
<1>5. Typed(new)
  BY <1>1, <1>2, <1>4 DEF Typed
<1>6. Covers(new)
  <2> SUFFICES ASSUME NEW i \in DOMAIN new, new[i].from # 0
               PROVE  /\ new[i].from \in DOMAIN new /\ new[i].tested \in DOMAIN new
                      /\ ~new[new[i].from].open
                      /\ new[new[i].tested].credit + new[new[i].from].credit
                           - new[new[i].from].exit + new[i].credit
                           >= Distance(new[new[i].tested].short, new[new[i].tested].long)
    BY DEF Covers
  <2>1. CASE i \in DOMAIN rs
    <3>1. new[i] = rs[i]
      BY <1>1, <1>2, <2>1
    <3>2. rs[i].from \in DOMAIN rs /\ rs[i].tested \in DOMAIN rs
      BY <2>1, <3>1 DEF Covers
    <3>3. new[rs[i].from] = rs[rs[i].from] /\ new[rs[i].tested] = rs[rs[i].tested]
      BY <1>1, <1>2, <3>2
    <3> QED BY <1>4, <2>1, <3>1, <3>2, <3>3 DEF Covers
  <2>2. CASE i = Len(rs) + 1
    <3>1. new[i] = r
      BY <1>2, <2>2
    <3>2. r.from \in DOMAIN rs /\ r.tested \in DOMAIN rs
      BY <3>1
    <3>3. new[r.from] = rs[r.from] /\ new[r.tested] = rs[r.tested]
      BY <1>1, <1>2, <3>2
    <3> QED BY <1>4, <3>1, <3>2, <3>3
  <2> QED BY <1>4, <2>1, <2>2
<1> QED BY <1>1, <1>2, <1>4, <1>5, <1>6 DEF new

\* The record in memory of an open row.
Recorded(r) == {r, [r EXCEPT !.known = r.mark]}

LEMMA RecordedIsRow ==
  ASSUME NEW r \in Row, NEW m \in Recorded(r)
  PROVE  m \in Row /\ Held(r, m) /\ m.open = r.open
<1>1. CASE m = r
  BY <1>1 DEF Held
<1>2. CASE m = [r EXCEPT !.known = r.mark]
  BY <1>2 DEF Held, Row
<1> QED BY <1>1, <1>2 DEF Recorded

LEMMA ClosedIsHeld ==
  ASSUME NEW r \in Row, r.open, NEW m \in Recorded(r), NEW p \in Int
  PROVE  Closed(m, p) \in Row /\ Held(r, Closed(m, p)) /\ ~Closed(m, p).open /\ Closed(m, p).exit = p
<1>1. m \in Row /\ Held(r, m)
  BY RecordedIsRow
<1> DEFINE shut == [m EXCEPT !.open = FALSE, !.exit = p]
<1>2. shut \in Row
  BY <1>1 DEF Row
<1>3. Closed(m, p) = [shut EXCEPT !.mark = 0, !.known = 0]
  BY DEF Closed
<1> HIDE DEF shut
<1>4. [shut EXCEPT !.mark = 0, !.known = 0] \in Row
  <2> DEFINE blank == [shut EXCEPT !.mark = 0]
  <2>1. blank \in Row
    BY <1>2 DEF Row
  <2>2. [shut EXCEPT !.mark = 0, !.known = 0] = [blank EXCEPT !.known = 0]
    OBVIOUS
  <2> HIDE DEF blank
  <2>3. [blank EXCEPT !.known = 0] \in Row
    BY <2>1 DEF Row
  <2> QED BY <2>2, <2>3
<1>5. Closed(m, p) \in Row
  BY <1>3, <1>4
<1> QED BY <1>1, <1>5 DEF Closed, Row, Held

LEMMA MarkedIsHeld ==
  ASSUME NEW r \in Row, NEW m \in Recorded(r), NEW p \in Int
  PROVE  /\ [m EXCEPT !.mark = p] \in Row /\ Held(r, [m EXCEPT !.mark = p])
         /\ [m EXCEPT !.mark = p].open = r.open
<1>1. m \in Row /\ Held(r, m) /\ m.open = r.open
  BY RecordedIsRow
<1>2. [m EXCEPT !.mark = p] \in Row
  BY <1>1 DEF Row
<1> QED BY <1>1, <1>2 DEF Row, Held

LEMMA StandInIsNumber ==
  ASSUME NEW m \in Row, NEW quote \in Int
  PROVE  StandIn(m, quote) \in Int
  BY DEF StandIn, Row

LEMMA PremiumIsNumber ==
  ASSUME NEW c \in Chain, NEW m \in Row, NEW quote \in Int
  PROVE  Premium(c, m, quote) \in Int
<1>1. m.side \in Sides
  BY DEF Row
<1>2. Priced(c, m.side, {m.short, m.long}) => m.short \in Strikes /\ m.long \in Strikes
  BY DEF Priced, Liquid
<1>3. Priced(c, m.side, {m.short, m.long}) => Spread(c, m.side, m.short, m.long) \in Int
  BY <1>1, <1>2, SpreadIsNumber
<1> QED BY <1>3, StandInIsNumber DEF Premium

LEMMA ManagedIsHeld ==
  ASSUME NEW c \in Chain, NEW regime, NEW r \in Row, r.open, NEW m \in Recorded(r),
         NEW quote \in Int, NEW i, NEW refused
  PROVE  /\ Managed(c, regime, m, quote, i \in refused) \in Row
         /\ Held(r, Managed(c, regime, m, quote, i \in refused))
         /\ ~live /\ i \notin refused /\ Adverse(r.side, regime)
              => ~Managed(c, regime, m, quote, i \in refused).open
<1> DEFINE p == Premium(c, m, quote)
<1>1. m \in Row /\ Held(r, m) /\ p \in Int
  BY RecordedIsRow, PremiumIsNumber
<1>2. Mark(p) \in Int
  BY <1>1 DEF Mark
<1>3. Managed(c, regime, m, quote, i \in refused) \in {m, Closed(m, p), [m EXCEPT !.mark = Mark(p)]}
  BY DEF Managed
<1>4. ~live /\ i \notin refused /\ Adverse(r.side, regime) => Managed(c, regime, m, quote, i \in refused) = Closed(m, p)
  BY <1>1 DEF Managed, HasMark, LegExitIsDue, Held
<1> HIDE DEF p
<1>5. /\ Closed(m, p) \in Row /\ Held(r, Closed(m, p)) /\ ~Closed(m, p).open
      /\ [m EXCEPT !.mark = Mark(p)] \in Row /\ Held(r, [m EXCEPT !.mark = Mark(p)])
  BY <1>1, <1>2, ClosedIsHeld, MarkedIsHeld
<1> QED BY <1>1, <1>3, <1>4, <1>5

-----------------------------------------------------------------------------
(* The strikes, the leg and the roll.                                      *)

LEMMA LiquidIsStrikes ==
  ASSUME NEW c, NEW s
  PROVE  Liquid(c, s) \subseteq Strikes /\ \A k \in Strikes : k \in Nat \ {0} /\ k \in Int
  BY ChainAssumption DEF Liquid, ChainAssumption

LEMMA BandStrikeIsNumber ==
  ASSUME NEW s, NEW band \in Int, Liquid(chain, s) # {}
  PROVE  SelectByBand(s, band) \in Int
<1> DEFINE outside == {k \in Liquid(chain, s) : IF s = "call" THEN k >= band ELSE k <= band}
<1>1. outside \in SUBSET Strikes
  BY LiquidIsStrikes
<1>2. outside # {} => Nearest(outside, band) \in Strikes
  <2> HIDE DEF outside
  <2> QED BY <1>1, NearestIsOne
<1>3. Contract(chain, s, band) \in Strikes
  BY ContractIsLiquid, LiquidIsStrikes
<1>4. SelectByBand(s, band) \in Strikes
  BY <1>2, <1>3 DEF SelectByBand
<1> QED BY <1>4, LiquidIsStrikes

LEMMA PlanStrikesAreNumbers ==
  ASSUME NEW b \in [upper : Nat, lower : Nat], chain \in Chain, PlanIsUsable(b)
  PROVE  PlanStrikes(b) \in [Sides -> [short : Int, long : Int]]
<1>1. Liquid(chain, "call") # {} /\ Liquid(chain, "put") # {}
  BY DEF PlanIsUsable, ExpectedMove
<1>2. chain.price \in Int
  BY DEF Chain
<1>3. ExpectedMove \in Int
  <2>1. Contract(chain, "call", price) \in Strikes /\ Contract(chain, "put", price) \in Strikes
    BY <1>1, <1>2, ContractIsLiquid, LiquidIsStrikes DEF price, chain
  <2>2. "call" \in Sides /\ "put" \in Sides
    BY DEF Sides
  <2> QED BY <2>1, <2>2, MarksAreNumbers DEF ExpectedMove
<1>4. Upper(b) \in Int /\ Lower(b) \in Int
  BY <1>2, <1>3 DEF Upper, Lower, price, chain
<1>5. SelectByBand("call", Upper(b)) \in Int /\ SelectByBand("put", Lower(b)) \in Int
  BY <1>1, <1>4, BandStrikeIsNumber
<1>6. WingWidth \in Int
  BY CondorAssumption DEF CondorAssumption
<1> QED BY <1>5, <1>6 DEF PlanStrikes

LEMMA VerticalIsRow ==
  ASSUME NEW s \in Sides, NEW short \in Nat, NEW long \in Int, NEW credit \in Int, NEW lots \in Nat,
         NEW condor \in Nat
  PROVE  /\ Vertical(s, short, long, credit, lots, condor) \in Row
         /\ Vertical(s, short, long, credit, lots, condor).from = 0
  BY DEF Vertical, Row

LEMMA LegIsRow ==
  ASSUME NEW s \in Sides, chain \in Chain, LegCanFill(s), Len(rows) \in Nat, plan.condor \in Nat,
         strikes \in [Sides -> [short : Int, long : Int]]
  PROVE  LegOf(s) \in Row /\ LegOf(s).from = 0 /\ LegOf(s).lots > 0 /\ LegOf(s).open
<1> DEFINE short  == Contract(chain, s, strikes[s].short)
           long   == Contract(chain, s, strikes[s].long)
           credit == Spread(chain, s, short, long)
           lots   == LegLots(Distance(short, long), credit)
           condor == IF plan.state = "DECIDED" THEN Len(rows) + 1 ELSE plan.condor
<1>1. strikes[s].short \in Int /\ strikes[s].long \in Int
  OBVIOUS
<1>2. short \in Strikes /\ long \in Strikes
  BY <1>1, ContractIsLiquid, LiquidIsStrikes DEF LegCanFill
<1>3. short \in Nat /\ long \in Int /\ credit \in Int
  <2>1. credit \in Int
    BY <1>2, SpreadIsNumber
  <2> QED BY <1>2, <2>1, LiquidIsStrikes
<1>4. lots \in Nat
  <2>1. Distance(short, long) \in Nat
    BY <1>2, LiquidIsStrikes, DistanceIsNatural
  <2>2. ASSUME NEW w \in Nat, NEW cr \in Int PROVE LegLots(w, cr) \in Nat
    <3>1. CASE w <= cr
      BY <3>1 DEF LegLots
    <3>2. CASE ~(w <= cr)
      <4>1. Risk \in Nat /\ 2 * (w - cr) \in Nat \ {0}
        BY <3>2, CondorAssumption DEF CondorAssumption
      <4> QED BY <3>2, <4>1, Quotient DEF LegLots
    <3> QED BY <3>1, <3>2
  <2> QED BY <1>3, <2>1, <2>2
<1>5. condor \in Nat
  OBVIOUS
<1>6. LegOf(s) = Vertical(s, short, long, credit, lots, condor)
  BY DEF LegOf
<1>7. LegOf(s).lots >= 1
  BY DEF LegCanFill
<1> HIDE DEF short, long, credit, lots, condor
<1>8. LegOf(s) \in Row /\ LegOf(s).from = 0
  <2>1. /\ Vertical(s, short, long, credit, lots, condor) \in Row
        /\ Vertical(s, short, long, credit, lots, condor).from = 0
    BY <1>3, <1>4, <1>5, VerticalIsRow
  <2> QED BY <1>6, <2>1
<1> QED BY <1>6, <1>7, <1>8 DEF Vertical, Row

\* The rows of a roll, one by one.
Swapped(t, u, k) ==
  /\ DOMAIN rows' = DOMAIN rows \cup {Len(rows) + 1}
  /\ rows'[u] = Closed(rows[u], CloseCost(rows[u]))
  /\ rows'[t] = [rows[t] EXCEPT !.wing = TRUE]
  /\ rows'[Len(rows) + 1] = Rolled(t, u, k)
  /\ \A i \in DOMAIN rows : Held(rows[i], rows'[i]) /\ (i # u /\ i # t => rows'[i] = rows[i])

\* A roll closes one row, makes another final, and appends the row that the
\* three credits pay for.
LEMMA RollIsCovered ==
  ASSUME Typed(rows), Covers(rows), chain \in Chain,
         NEW t \in Open, NEW u \in Open, t # u, NEW k \in Strikes, IsRoll(rows[t], rows[u], k),
         ExecuteRoll(t, u, k)
  PROVE  /\ Typed(rows') /\ Covers(rows') /\ Len(rows') = Len(rows) + 1
         /\ listed' \subseteq Open'
         /\ Swapped(t, u, k)
<1> DEFINE cost == CloseCost(rows[u])
           held == [rows EXCEPT ![u] = Closed(@, CloseCost(@)), ![t].wing = TRUE]
           new  == Rolled(t, u, k)
<1>1. /\ t \in DOMAIN rows /\ u \in DOMAIN rows /\ rows[t].open /\ rows[u].open
      /\ rows[t] \in Row /\ rows[u] \in Row /\ Len(rows) \in Nat /\ DOMAIN rows = 1..Len(rows)
  BY RowsAreRows DEF Open
<1>2. /\ rows[u].side \in Sides /\ rows[u].short \in Strikes /\ rows[u].long \in Strikes
      /\ RolledLong(rows[u], k) \in Strikes
      /\ RollCredit(rows[u], k) > 0
      /\ rows[t].credit + rows[u].credit + RollCredit(rows[u], k) - cost >= Width(rows[t])
  BY <1>1 DEF IsRoll, RiskFree, Priced, Liquid, Row
<1>3. cost \in Int /\ RollCredit(rows[u], k) \in Int
  <2>1. Spread(chain, rows[u].side, rows[u].short, rows[u].long) \in Int
    BY <1>2, SpreadIsNumber
  <2>2. RollCredit(rows[u], k) \in Int
    BY <1>2, SpreadIsNumber DEF RollCredit
  <2> QED BY <2>1, <2>2 DEF CloseCost
<1>4. /\ DOMAIN held = DOMAIN rows /\ held = [i \in DOMAIN rows |-> held[i]]
      /\ held[u] = Closed(rows[u], cost) /\ held[t] = [rows[t] EXCEPT !.wing = TRUE]
      /\ \A i \in DOMAIN rows : i # u /\ i # t => held[i] = rows[i]
  BY <1>1
<1>5. \A i \in DOMAIN rows : held[i] \in Row /\ Held(rows[i], held[i])
  <2>1. Closed(rows[u], cost) \in Row /\ Held(rows[u], Closed(rows[u], cost))
    <3>1. rows[u] \in Recorded(rows[u])
      BY DEF Recorded
    <3> HIDE DEF cost
    <3> QED BY <1>1, <1>3, <3>1, ClosedIsHeld
  <2>2. [rows[t] EXCEPT !.wing = TRUE] \in Row /\ Held(rows[t], [rows[t] EXCEPT !.wing = TRUE])
    <3>1. [rows[t] EXCEPT !.wing = TRUE] \in Row
      BY <1>1 DEF Row
    <3> QED BY <1>1, <3>1 DEF Row, Held
  <2>3. \A i \in DOMAIN rows : i # u /\ i # t => held[i] \in Row /\ Held(rows[i], held[i])
    BY <1>4, RowsAreRows DEF Held
  <2> HIDE DEF held, cost
  <2> QED BY <1>4, <2>1, <2>2, <2>3
<1>6. Typed(held) /\ Covers(held) /\ Len(held) = Len(rows)
  <2> HIDE DEF held
  <2> QED BY <1>4, <1>5, RowsMapped
<1>7. /\ new \in Row /\ new.lots > 0 /\ new.from = u /\ new.tested = t
      /\ new.credit = RollCredit(rows[u], k) /\ new.open
  <2> DEFINE flat == Vertical(rows[u].side, k, RolledLong(rows[u], k), RollCredit(rows[u], k),
                              rows[u].lots, rows[u].condor)
  <2>1. /\ k \in Nat /\ RolledLong(rows[u], k) \in Int /\ rows[u].lots \in Nat /\ rows[u].condor \in Nat
        /\ rows[u].lots > 0
    BY <1>1, <1>2, LiquidIsStrikes, RowsAreRows DEF Row
  <2>2. flat \in Row /\ flat.lots > 0 /\ flat.credit = RollCredit(rows[u], k) /\ flat.open
    BY <1>2, <1>3, <2>1, VerticalIsRow DEF Vertical
  <2>3. new = [flat EXCEPT !.wing = TRUE, !.from = u, !.tested = t]
    BY DEF Rolled
  <2>4. u \in Nat /\ t \in Nat
    BY <1>1
  <2> HIDE DEF flat, new
  <2>5. [flat EXCEPT !.wing = TRUE, !.from = u, !.tested = t] \in Row
    BY <2>2, <2>4 DEF Row
  <2> QED BY <2>2, <2>3, <2>5 DEF Row
<1>8. /\ held[t].credit + held[u].credit - held[u].exit + new.credit
           >= Distance(held[t].short, held[t].long)
      /\ ~held[u].open
  <2>1. held[u].exit = cost /\ ~held[u].open /\ held[u].credit = rows[u].credit
    <3>1. rows[u] \in Recorded(rows[u])
      BY DEF Recorded
    <3> HIDE DEF cost
    <3>2. Closed(rows[u], cost).exit = cost /\ ~Closed(rows[u], cost).open
      BY <1>1, <1>3, <3>1, ClosedIsHeld
    <3> HIDE DEF held
    <3> QED BY <1>1, <1>4, <1>5, <3>2 DEF Held
  <2>2. held[t].credit = rows[t].credit /\ held[t].short = rows[t].short /\ held[t].long = rows[t].long
    <3> HIDE DEF held
    <3> QED BY <1>1, <1>5 DEF Held
  <2>3. rows[t].credit \in Int /\ rows[u].credit \in Int /\ Width(rows[t]) \in Nat
    <3>1. rows[t].short \in Int /\ rows[t].long \in Int
      BY <1>1 DEF Row
    <3> QED BY <1>1, <3>1, DistanceIsNatural DEF Width, Row
  <2> HIDE DEF held, new, cost
  <2> QED BY <1>2, <1>3, <1>7, <2>1, <2>2, <2>3 DEF Width
<1>9. rows' = Append(held, new) /\ listed' = {t, Len(rows) + 1}
  BY DEF ExecuteRoll
<1> HIDE DEF held, new, cost
<1>10. /\ Typed(Append(held, new)) /\ Covers(Append(held, new))
       /\ Len(Append(held, new)) = Len(held) + 1
       /\ DOMAIN Append(held, new) = DOMAIN held \cup {Len(held) + 1}
       /\ Append(held, new)[Len(held) + 1] = new
       /\ \A i \in DOMAIN held : Append(held, new)[i] = held[i]
  <2>1. new.from \in DOMAIN held /\ new.tested \in DOMAIN held
    BY <1>1, <1>4, <1>7
  <2> QED BY <1>6, <1>7, <1>8, <2>1, RowAppended
<1>11. held[t].open
  BY <1>1, <1>4 DEF Row
<1>12. t \in Open' /\ Len(rows) + 1 \in Open'
  BY <1>1, <1>4, <1>6, <1>7, <1>9, <1>10, <1>11 DEF Open
<1>13. /\ DOMAIN rows' = DOMAIN rows \cup {Len(rows) + 1}
       /\ \A i \in DOMAIN rows : rows'[i] = held[i]
       /\ rows'[Len(rows) + 1] = new
  BY <1>4, <1>6, <1>9, <1>10
<1>14. Swapped(t, u, k)
  BY <1>1, <1>4, <1>5, <1>13 DEF Swapped, new, cost
<1> QED BY <1>6, <1>9, <1>10, <1>12, <1>14

-----------------------------------------------------------------------------
(* The plan, the rows and the market.                                      *)

PlanOK ==
  /\ plan \in PlanType(1..Len(rows)) /\ planDate \in {0, 1}
  /\ strikes \in [Sides -> [short : Int, long : Int]]

RowsOK == Typed(rows) /\ Covers(rows) /\ listed \subseteq Open

MarketOK ==
  /\ market \in [chain : Chains \cup {NoMarket.chain}, regime : Regimes \cup {"UNKNOWN"}]
  /\ pc \in {"idle", "leg", "roll", "entry", "place", "cancel"}

\* Why RollsInRange holds: after the pass over the positions, and after a leg
\* that is only sold in a range, nothing listed is threatened.
Unthreatened ==
  ~live /\ pc \in {"leg", "roll"} => \A i \in listed : ~Adverse(rows[i].side, market.regime)

LEMMA MarketHasChain ==
  ASSUME MarketOK
  PROVE  chain \in Chain
<1>1. NoMarket.chain \in Chain
  BY DEF NoMarket, Chain, Marks
<1>2. Chains \subseteq Chain
  BY DayAssumption DEF DayAssumption
<1> QED BY <1>1, <1>2 DEF MarketOK, chain

LEMMA MarketKept ==
  ASSUME MarketOK, [Next]_vars
  PROVE  MarketOK'
<1>1. /\ market' \in {market, NoMarket} \cup [chain : Chains, regime : Regimes]
      /\ pc' \in {pc, "idle", "leg", "roll", "entry", "place", "cancel"}
  BY DEF Next, vars, condorVars, flyVars, Refresh, NothingOpen, Manage, ThenRoll, EndTick, LegStage, Roll,
         NoRoll, EnterFly, EnterCondor, PaperFly, PlaceFly, PlaceFails, CancelFly, BookFly, NoFill,
         BrokerFills, Flatten, Advance, Restart
<1> QED BY <1>1 DEF MarketOK, NoMarket

\* Nothing the triggers do is done to an old row.
LEMMA TriggersKeepRows ==
  ASSUME PlanOK, RowsOK, MarketOK, CheckLegTriggers
  PROVE  /\ PlanOK' /\ RowsOK'
         /\ \/ rows' = rows /\ listed' = listed
            \/ /\ market.regime = "RANGING"
               /\ listed' = listed \cup {Len(rows) + 1}
               /\ Len(rows') = Len(rows) + 1 /\ rows'[Len(rows')].from = 0
<1>1. Len(rows) \in Nat /\ DOMAIN rows = 1..Len(rows)
  BY RowsAreRows DEF RowsOK
<1>2. /\ plan \in [state : PlanStates, leg1 : Sides, condor : (1..Len(rows)) \cup {0}]
      /\ plan.condor \in Nat /\ PendingSide \in Sides
  BY <1>1 DEF PlanOK, PlanType, PendingSide, Other, Sides
<1>3. CASE DropLeg
  <2>1. plan' \in PlanType(1..Len(rows)) /\ planDate' = planDate /\ UNCHANGED <<strikes, rows, listed>>
    BY <1>2, <1>3 DEF DropLeg, DropPendingLeg, NoPlan, PlanType, PlanStates, Sides
  <2> QED BY <2>1 DEF PlanOK, RowsOK, Open
<1>4. CASE Leg
  <2>1. LegCanFill(PendingSide) /\ FillLeg /\ market.regime = "RANGING" /\ UNCHANGED strikes
    BY <1>4 DEF Leg, LegTriggered, PendingLegDropped
  <2>2. LegOf(PendingSide) \in Row /\ LegOf(PendingSide).from = 0 /\ LegOf(PendingSide).lots > 0
        /\ LegOf(PendingSide).open
    BY <1>1, <1>2, <2>1, MarketHasChain, LegIsRow DEF PlanOK
  <2>3. rows' = Append(rows, LegOf(PendingSide)) /\ listed' = listed \cup {Len(rows) + 1}
    BY <2>1 DEF FillLeg
  <2>4. /\ Typed(rows') /\ Covers(rows') /\ Len(rows') = Len(rows) + 1
        /\ DOMAIN rows' = DOMAIN rows \cup {Len(rows) + 1}
        /\ rows'[Len(rows) + 1] = LegOf(PendingSide)
        /\ \A i \in DOMAIN rows : rows'[i] = rows[i]
    BY <2>2, <2>3, RowAppended DEF RowsOK
  <2>5. listed' \subseteq Open'
    BY <2>2, <2>3, <2>4 DEF RowsOK, Open
  <2>6. plan' \in PlanType(1..(Len(rows) + 1)) /\ planDate' = planDate
    <3>1. /\ \A x \in (1..Len(rows)) \cup {0} : x \in (1..(Len(rows) + 1)) \cup {0}
          /\ Len(rows) + 1 \in 1..(Len(rows) + 1)
      BY <1>1
    <3>2. /\ plan' = [plan EXCEPT !.state = "LEG1_FILLED", !.condor = Len(rows) + 1]
             \/ plan' = [plan EXCEPT !.state = "COMPLETE"]
          /\ planDate' = planDate
      BY <2>1 DEF FillLeg, NotifyLegFilled
    <3> QED BY <1>2, <3>1, <3>2 DEF PlanType, PlanStates
  <2> QED BY <2>1, <2>2, <2>3, <2>4, <2>5, <2>6 DEF PlanOK, RowsOK
<1>5. CASE LegWaits
  BY <1>5 DEF LegWaits, condorVars, PlanOK, RowsOK, Open
<1> QED BY <1>3, <1>4, <1>5 DEF CheckLegTriggers

LEMMA CondorKept ==
  ASSUME PlanOK, RowsOK, UNCHANGED condorVars
  PROVE  PlanOK' /\ RowsOK' /\ rows' = rows /\ listed' = listed
  BY DEF PlanOK, RowsOK, Open, condorVars

LEMMA InUseIsOpen ==
  ASSUME RowsOK
  PROVE  /\ InUse \subseteq Open
         /\ \A i \in InUse : /\ i \in DOMAIN rows /\ rows[i] \in Row /\ rows[i].open
                             /\ Records[i] \in Recorded(rows[i])
<1>1. InUse \subseteq Open
  BY DEF InUse, RowsOK
<1>2. ASSUME NEW i \in InUse
      PROVE  /\ i \in DOMAIN rows /\ rows[i] \in Row /\ rows[i].open
             /\ Records[i] \in Recorded(rows[i])
  <2>1. i \in DOMAIN rows /\ rows[i].open
    BY <1>1 DEF Open
  <2>2. rows[i] \in Row
    BY <2>1, RowsAreRows DEF RowsOK
  <2> QED BY <2>1, <2>2 DEF Records, Loaded, Recorded
<1> QED BY <1>1, <1>2

\* The pass over the positions.
LEMMA ManageKeepsRows ==
  ASSUME PlanOK, RowsOK, Manage
  PROVE  PlanOK' /\ RowsOK' /\ Unthreatened' /\ Len(rows') = Len(rows) /\ Kept(rows, rows')
<1>1. PICK m \in [chain : Chains, regime : Regimes], quote \in [InUse -> Quotes], refused \in Refusals :
        /\ rows' = [i \in DOMAIN rows |->
                      IF i \in InUse
                      THEN Managed(m.chain, m.regime, Records[i], quote[i], i \in refused)
                      ELSE rows[i]]
        /\ listed' = {i \in InUse : rows'[i].open}
        /\ market' = m \/ pc' = "idle"
        /\ UNCHANGED <<plan, planDate, strikes, live>>
  BY DEF Manage, ThenRoll, EndTick
<1>2. m.chain \in Chain /\ \A i \in InUse : quote[i] \in Int
  <2>1. Chains \subseteq Chain /\ Quotes \subseteq Int
    BY DayAssumption DEF DayAssumption
  <2> QED BY <2>1
<1>3. \A i \in InUse : /\ rows'[i] \in Row /\ Held(rows[i], rows'[i])
                       /\ ~live /\ i \notin refused /\ Adverse(rows[i].side, m.regime) => ~rows'[i].open
  <2> SUFFICES ASSUME NEW i \in InUse
               PROVE  /\ rows'[i] \in Row /\ Held(rows[i], rows'[i])
                      /\ ~live /\ i \notin refused /\ Adverse(rows[i].side, m.regime) => ~rows'[i].open
    OBVIOUS
  <2>1. i \in DOMAIN rows /\ rows[i] \in Row /\ rows[i].open /\ Records[i] \in Recorded(rows[i])
    BY InUseIsOpen
  <2>2. rows'[i] = Managed(m.chain, m.regime, Records[i], quote[i], i \in refused)
    BY <1>1, <2>1
  <2>3. quote[i] \in Int
    BY <1>2
  <2> QED BY <1>2, <2>1, <2>2, <2>3, ManagedIsHeld
<1>4. \A i \in DOMAIN rows : i \notin InUse => rows'[i] \in Row /\ Held(rows[i], rows'[i])
  BY <1>1, RowsAreRows DEF RowsOK, Held
<1>5. DOMAIN rows' = DOMAIN rows /\ rows' = [i \in DOMAIN rows |-> rows'[i]]
  BY <1>1
<1>6. Typed(rows') /\ Covers(rows') /\ Len(rows') = Len(rows)
  BY <1>3, <1>4, <1>5, RowsMapped DEF RowsOK
<1>7. listed' \subseteq Open'
  BY <1>1, <1>5, InUseIsOpen DEF Open
<1>8. Unthreatened'
  <2>1. ~live => refused = {}
    BY DEF Refusals
  <2>2. \A i \in InUse : rows'[i].side = rows[i].side
    BY <1>3 DEF Held
  <2>3. ASSUME ~live, market' = m, NEW i \in listed' PROVE ~Adverse(rows'[i].side, market'.regime)
    BY <1>1, <1>3, <2>1, <2>2, <2>3
  <2> QED BY <1>1, <2>3 DEF Unthreatened
<1>9. Kept(rows, rows')
  BY <1>3, <1>4, <1>5 DEF Kept
<1> QED BY <1>1, <1>6, <1>7, <1>8, <1>9 DEF PlanOK, RowsOK

\* The forced close.
LEMMA FlattenKeepsRows ==
  ASSUME PlanOK, RowsOK, Flatten
  PROVE  PlanOK' /\ RowsOK' /\ Len(rows') = Len(rows) /\ Kept(rows, rows')
<1>1. PICK quote \in [InUse -> Quotes], refused \in Refusals :
        rows' = [i \in DOMAIN rows |->
                   IF i \in InUse \ refused
                   THEN LET p == StandIn(Records[i], quote[i])
                        IN Closed(rows[i], IF p > 0 THEN p ELSE rows[i].credit)
                   ELSE rows[i]]
  BY DEF Flatten
<1>2. listed' = {i \in InUse : rows'[i].open} /\ UNCHANGED <<plan, planDate, strikes>>
  BY DEF Flatten
<1>3. \A i \in DOMAIN rows : rows'[i] \in Row /\ Held(rows[i], rows'[i])
  <2> SUFFICES ASSUME NEW i \in DOMAIN rows
               PROVE  rows'[i] \in Row /\ Held(rows[i], rows'[i])
    OBVIOUS
  <2>1. CASE i \in InUse \ refused
    <3> DEFINE p == StandIn(Records[i], quote[i])
               x == IF p > 0 THEN p ELSE rows[i].credit
    <3>1. rows[i] \in Row /\ rows[i].open /\ Records[i] \in Recorded(rows[i])
      BY <2>1, InUseIsOpen
    <3>2. p \in Int
      <4>1. Quotes \subseteq Int
        BY DayAssumption DEF DayAssumption
      <4>2. quote[i] \in Int
        BY <2>1, <4>1
      <4> QED BY <3>1, <4>2, RecordedIsRow, StandInIsNumber
    <3>3. x \in Int
      BY <3>1, <3>2 DEF Row
    <3>4. rows'[i] = Closed(rows[i], x)
      BY <1>1, <2>1
    <3>5. rows[i] \in Recorded(rows[i])
      BY DEF Recorded
    <3> HIDE DEF x, p
    <3> QED BY <3>1, <3>3, <3>4, <3>5, ClosedIsHeld
  <2>2. CASE i \notin InUse \ refused
    BY <1>1, <2>2, RowsAreRows DEF RowsOK, Held
  <2> QED BY <2>1, <2>2
<1>4. DOMAIN rows' = DOMAIN rows /\ rows' = [i \in DOMAIN rows |-> rows'[i]]
  BY <1>1
<1>5. Typed(rows') /\ Covers(rows') /\ Len(rows') = Len(rows)
  BY <1>3, <1>4, RowsMapped DEF RowsOK
<1>6. listed' \subseteq Open'
  BY <1>2, <1>4, InUseIsOpen DEF Open
<1> QED BY <1>2, <1>3, <1>4, <1>5, <1>6 DEF PlanOK, RowsOK, Kept

\* A start reads the rows back.
LEMMA RestartKeepsRows ==
  ASSUME PlanOK, RowsOK, Restart
  PROVE  PlanOK' /\ RowsOK' /\ Len(rows') = Len(rows) /\ Kept(rows, rows')
<1>1. rows' = [i \in DOMAIN rows |-> [rows[i] EXCEPT !.known = rows[i].mark]] /\ listed' = Open
  BY DEF Restart, Loaded
<1>2. \A i \in DOMAIN rows : rows'[i] \in Row /\ Held(rows[i], rows'[i]) /\ rows'[i].open = rows[i].open
  <2> SUFFICES ASSUME NEW i \in DOMAIN rows
               PROVE  rows'[i] \in Row /\ Held(rows[i], rows'[i]) /\ rows'[i].open = rows[i].open
    OBVIOUS
  <2>1. rows[i] \in Row /\ rows'[i] \in Recorded(rows[i])
    BY <1>1, RowsAreRows DEF RowsOK, Recorded
  <2> QED BY <2>1, RecordedIsRow
<1>3. DOMAIN rows' = DOMAIN rows /\ rows' = [i \in DOMAIN rows |-> rows'[i]]
  BY <1>1
<1>4. Typed(rows') /\ Covers(rows') /\ Len(rows') = Len(rows)
  BY <1>2, <1>3, RowsMapped DEF RowsOK
<1>5. listed' \subseteq Open'
  BY <1>1, <1>2, <1>3 DEF Open
<1>6. NoPlan \in PlanType(1..Len(rows')) /\ NoStrikes \in [Sides -> [short : Int, long : Int]]
  BY DEF NoPlan, PlanType, PlanStates, Sides, NoStrikes, NoStrike
<1>7. plan' = NoPlan /\ planDate' = 0 /\ strikes' = NoStrikes
  BY DEF Restart
<1> QED BY <1>2, <1>3, <1>4, <1>5, <1>6, <1>7 DEF PlanOK, RowsOK, Kept

\* The plan of the day.
LEMMA EnterCondorKeepsRows ==
  ASSUME PlanOK, RowsOK, MarketOK, EnterCondor
  PROVE  /\ PlanOK' /\ RowsOK'
         /\ rows' = rows \/ (Len(rows') = Len(rows) + 1 /\ rows'[Len(rows')].from = 0)
<1>1. CASE HasActivePlan
  <2>1. CheckLegTriggers
    BY <1>1 DEF EnterCondor
  <2> QED BY <2>1, TriggersKeepRows
<1>2. CASE ~HasActivePlan /\ market.regime = "RANGING"
  <2>1. PICK b \in Bands :
          /\ Decide(market.regime, slot, 1,
                    IF Calm /\ PlanIsUsable(b) THEN FirstSide(PlanStrikes(b)) ELSE "none")
          /\ strikes' = IF (Calm /\ PlanIsUsable(b)) /\ plan'.state = "DECIDED"
                        THEN PlanStrikes(b) ELSE strikes
          /\ UNCHANGED <<rows, listed>>
    BY <1>2 DEF EnterCondor
  <2>2. planDate' = 1 /\ plan' \in {plan, NoPlan, [NoPlan EXCEPT !.state = "DECIDED", !.leg1 = "call"],
                                   [NoPlan EXCEPT !.state = "DECIDED", !.leg1 = "put"]}
    BY <2>1 DEF Decide, PlanAfterReset, Sides
  <2>3. plan' \in PlanType(1..Len(rows))
    <3>1. plan \in PlanType(1..Len(rows))
      BY DEF PlanOK
    <3>2. NoPlan \in PlanType(1..Len(rows))
      BY DEF PlanType, PlanStates, NoPlan, Sides
    <3>3. \A s \in Sides : [NoPlan EXCEPT !.state = "DECIDED", !.leg1 = s] \in PlanType(1..Len(rows))
      BY <3>2 DEF PlanType, PlanStates
    <3> QED BY <2>2, <3>1, <3>2, <3>3 DEF Sides
  <2>4. strikes' \in [Sides -> [short : Int, long : Int]]
    <3>1. b \in [upper : Nat, lower : Nat]
      BY DayAssumption DEF DayAssumption
    <3>2. PlanIsUsable(b) => PlanStrikes(b) \in [Sides -> [short : Int, long : Int]]
      BY <3>1, MarketHasChain, PlanStrikesAreNumbers
    <3> QED BY <2>1, <3>2 DEF PlanOK
  <2> QED BY <2>1, <2>2, <2>3, <2>4 DEF PlanOK, RowsOK, Open
<1>3. CASE ~HasActivePlan /\ market.regime # "RANGING"
  BY <1>3, CondorKept DEF EnterCondor
<1> QED BY <1>1, <1>2, <1>3

LEMMA EnterFlyKeepsRows ==
  ASSUME PlanOK, RowsOK, MarketOK, EnterFly
  PROVE  /\ PlanOK' /\ RowsOK'
         /\ rows' = rows \/ (Len(rows') = Len(rows) + 1 /\ rows'[Len(rows')].from = 0)
<1>1. CASE HasActivePlan
  <2>1. CheckLegTriggers
    BY <1>1 DEF EnterFly
  <2> QED BY <2>1, TriggersKeepRows
<1>2. CASE ~HasActivePlan
  BY <1>2, CondorKept DEF EnterFly
<1> QED BY <1>1, <1>2

\* The rows through any step: which are appended with what, and that a roll
\* needs nothing threatened.
LEMMA CondorStep ==
  ASSUME PlanOK, RowsOK, MarketOK, Unthreatened, live \in BOOLEAN, [Next]_vars
  PROVE  /\ PlanOK' /\ RowsOK' /\ Unthreatened'
         /\ ~live /\ Len(rows') > Len(rows) /\ rows'[Len(rows')].from # 0 => market.regime \notin Trends
<1>1. Len(rows) \in Nat
  BY RowsAreRows DEF RowsOK
<1>2. ASSUME pc' \notin {"leg", "roll"} PROVE Unthreatened'
  BY <1>2 DEF Unthreatened
<1>3. CASE Manage
  BY <1>1, <1>3, ManageKeepsRows
<1>4. CASE LegStage
  <2>1. CheckLegTriggers /\ UNCHANGED live /\ (market' = market \/ pc' = "idle") /\ pc = "leg"
    BY <1>4 DEF LegStage, ThenRoll, EndTick
  <2>2. /\ PlanOK' /\ RowsOK'
        /\ \/ rows' = rows /\ listed' = listed
           \/ /\ market.regime = "RANGING"
              /\ listed' = listed \cup {Len(rows) + 1}
              /\ Len(rows') = Len(rows) + 1 /\ rows'[Len(rows')].from = 0
    BY <2>1, TriggersKeepRows
  <2>3. ~Adverse("call", "RANGING") /\ ~Adverse("put", "RANGING")
    BY DEF Adverse
  <2>4. \A i \in listed' : rows'[i].side \in {"call", "put"}
    <3>1. \A i \in Open' : rows'[i] \in Row
      BY <2>2, RowsAreRows DEF RowsOK, Typed, Open
    <3> QED BY <2>2, <3>1 DEF RowsOK, Row, Sides
  <2>5. market.regime = "RANGING" /\ market' = market => \A i \in listed' : ~Adverse(rows'[i].side, market'.regime)
    BY <2>3, <2>4
  <2>6. Unthreatened'
    BY <2>1, <2>2, <2>5 DEF Unthreatened
  <2> QED BY <1>1, <2>2, <2>6
<1>5. CASE Roll
  <2>1. PICK t \in listed, u \in listed, k \in Strikes :
          MayRoll(t, u) /\ IsRoll(rows[t], rows[u], k) /\ ExecuteRoll(t, u, k)
    BY <1>5 DEF Roll
  <2>2. t \in Open /\ u \in Open /\ t # u
    BY <2>1 DEF MayRoll, RowsOK
  <2>3. Typed(rows') /\ Covers(rows') /\ Len(rows') = Len(rows) + 1 /\ listed' \subseteq Open'
    BY <2>1, <2>2, MarketHasChain, RollIsCovered DEF RowsOK
  <2>4. UNCHANGED <<plan, planDate, strikes>> /\ pc' = "idle" /\ pc = "roll"
    BY <1>5 DEF Roll, EndTick
  <2>5. PlanOK'
    <3>1. \A x \in (1..Len(rows)) \cup {0} : x \in (1..(Len(rows) + 1)) \cup {0}
      BY <1>1
    <3> QED BY <2>3, <2>4, <3>1 DEF PlanOK, PlanType
  <2>6. ~live => market.regime \notin Trends
    <3>1. rows[t] \in Row /\ rows[u] \in Row
      BY <2>2, RowsAreRows DEF RowsOK, Open
    <3>2. rows[t].side \in {"call", "put"} /\ rows[u].side \in {"call", "put"}
      BY <3>1 DEF Row, Sides
    <3>3. rows[t].side # rows[u].side
      BY <2>1, <3>2 DEF MayRoll, Other
    <3>4. ~live => ~Adverse("call", market.regime) /\ ~Adverse("put", market.regime)
      BY <2>4, <3>2, <3>3 DEF Unthreatened
    <3> QED BY <3>4 DEF Adverse, Trends
  <2> QED BY <1>2, <2>3, <2>4, <2>5, <2>6 DEF RowsOK
<1>6. CASE EnterFly
  <2>1. pc' \notin {"leg", "roll"}
    BY <1>6 DEF EnterFly, EndTick
  <2> QED BY <1>1, <1>2, <1>6, <2>1, EnterFlyKeepsRows
<1>7. CASE EnterCondor
  <2>1. pc' \notin {"leg", "roll"}
    BY <1>7 DEF EnterCondor, EndTick
  <2> QED BY <1>1, <1>2, <1>7, <2>1, EnterCondorKeepsRows
<1>8. CASE Flatten
  <2>1. pc' \notin {"leg", "roll"}
    BY <1>8 DEF Flatten
  <2> QED BY <1>1, <1>2, <1>8, <2>1, FlattenKeepsRows
<1>9. CASE Restart
  <2>1. pc' \notin {"leg", "roll"}
    BY <1>9 DEF Restart, EndTick
  <2> QED BY <1>1, <1>2, <1>9, <2>1, RestartKeepsRows
<1>10. CASE PaperFly \/ PlaceFly \/ PlaceFails \/ CancelFly
  <2>1. UNCHANGED <<plan, planDate, strikes, rows>> /\ listed' \in {listed, {}}
    BY <1>10 DEF PaperFly, PlaceFly, PlaceFails, CancelFly, BookFly, NoFill
  <2>2. pc' \notin {"leg", "roll"}
    BY <1>10 DEF PaperFly, PlaceFly, PlaceFails, CancelFly, BookFly, NoFill, EndTick
  <2> QED BY <1>1, <1>2, <2>1, <2>2 DEF PlanOK, RowsOK, Open
<1>11. CASE Refresh \/ NothingOpen \/ NoRoll \/ BrokerFills \/ Advance \/ UNCHANGED vars
  <2>1. UNCHANGED condorVars
    BY <1>11 DEF Refresh, NothingOpen, NoRoll, BrokerFills, Advance, vars
  <2>2. \/ pc' \notin {"leg", "roll"}
        \/ UNCHANGED <<market, pc, live>>
    BY <1>11 DEF Refresh, NothingOpen, NoRoll, BrokerFills, Advance, vars, EndTick
  <2>3. PlanOK' /\ RowsOK' /\ rows' = rows /\ listed' = listed
    BY <2>1, CondorKept
  <2>4. Unthreatened'
    BY <1>2, <2>2, <2>3 DEF Unthreatened
  <2> QED BY <1>1, <2>3, <2>4
<1> QED
  BY <1>3, <1>4, <1>5, <1>6, <1>7, <1>8, <1>9, <1>10, <1>11 DEF Next

-----------------------------------------------------------------------------
(* The macro snapshot and the signal it sizes.                             *)

ClockOK == live \in BOOLEAN /\ slot \in Slots /\ crashes \in 0..MaxCrashes

\* A calm VIX was read.
MacroOK ==
  /\ fedDay \in BOOLEAN /\ macro \in Snapshot \cup {NoSnapshot}
  /\ macro.vix \in {"low", "normal"} => macro.read = macro.vix

\* FlyIsCalm of one signal or order, sized under the snapshot m.
SizedBy(o, m) ==
  /\ m.read \in {"low", "normal"}
  /\ 2 * o.lots * o.debit * (IF m.read = "normal" THEN 2 ELSE 1)
       <= FlyRisk * IF o.grade = "A" THEN 3 ELSE 2

LEMMA MacroKept ==
  ASSUME MacroOK, ClockOK, [Next]_vars
  PROVE  MacroOK'
<1>1. CASE Refresh
  <2>1. PICK ok \in BOOLEAN, calendar \in BOOLEAN, level \in Levels : Fetch(slot, ok, level, calendar)
    BY <1>1 DEF Refresh
  <2>2. level \in VixBands /\ slot \in Slots /\ fedDay' = fedDay
    BY <1>1, MacroAssumption DEF MacroAssumption, ClockOK, Refresh
  <2>3. /\ Vix(ok, level) \in VixBands
        /\ Vix(ok, level) \in {"low", "normal"} =>
             Vix(ok, level) = IF ok THEN level ELSE macro.read
    BY <2>2 DEF Vix, MacroOK, Snapshot, VixBands
  <2>4. (IF ok THEN level ELSE macro.read) \in VixBands \cup {"none"}
    BY <2>2 DEF MacroOK, Snapshot, NoSnapshot
  <2>5. macro' \in Snapshot
    BY <2>1, <2>2, <2>3, <2>4 DEF Fetch, Snapshot, MacroOK
  <2> QED BY <2>1, <2>2, <2>3, <2>5 DEF Fetch, MacroOK
<1>2. CASE Restart
  BY <1>2 DEF Restart, MacroOK, NoSnapshot
<1>3. CASE UNCHANGED <<fedDay, macro>>
  BY <1>3 DEF MacroOK
<1> QED
  BY <1>1, <1>2, <1>3 DEF Next, vars, NothingOpen, Manage, LegStage, Roll, NoRoll, EnterFly, EnterCondor,
     PaperFly, PlaceFly, PlaceFails, CancelFly, BrokerFills, Flatten, Advance

LEMMA ClockKept ==
  ASSUME ClockOK, [Next]_vars
  PROVE  ClockOK'
<1>1. MaxCrashes \in Nat
  BY DayAssumption DEF DayAssumption
<1>2. CASE Advance
  BY <1>2 DEF Advance, ClockOK, Slots, PreOpen, AfterHours
<1>3. CASE Restart
  BY <1>1, <1>3 DEF Restart, ClockOK
<1>4. CASE UNCHANGED <<live, slot, crashes>>
  BY <1>4 DEF ClockOK
<1> QED
  BY <1>2, <1>3, <1>4 DEF Next, vars, Refresh, NothingOpen, Manage, LegStage, Roll, NoRoll, EnterFly,
     EnterCondor, PaperFly, PlaceFly, PlaceFails, CancelFly, BrokerFills, Flatten

LEMMA WingsAreStrikes ==
  ASSUME NEW c, NEW s, NEW pin \in Strikes, Liquid(c, s) # {}
  PROVE  Wings(c, s, pin) \in [lower : Strikes, center : Strikes, upper : Strikes]
<1>1. pin \in Int /\ pin - FlyWidth \in Int /\ pin + FlyWidth \in Int
  BY LiquidIsStrikes, FlyAssumption DEF FlyAssumption
<1>2. /\ Contract(c, s, pin - FlyWidth) \in Strikes /\ Contract(c, s, pin) \in Strikes
      /\ Contract(c, s, pin + FlyWidth) \in Strikes
  BY <1>1, ContractIsLiquid, LiquidIsStrikes
<1> QED BY <1>2 DEF Wings

LEMMA FlyValueIsNumber ==
  ASSUME NEW c \in Chain, NEW s \in Sides, NEW w, {w.lower, w.center, w.upper} \subseteq Strikes
  PROVE  FlyValue(c, s, w) \in Int
<1>1. c[s][w.lower] \in Nat /\ c[s][w.center] \in Nat /\ c[s][w.upper] \in Nat
  BY MarksAreNumbers
<1> QED BY <1>1 DEF FlyValue

\* The quotient that sizes a butterfly keeps to the budget of its grade.
LEMMA LotsAreWithinRisk ==
  ASSUME NEW debit \in Nat \ {0}, NEW grade \in {"A", "B"}, NEW m, m.read \in {"low", "normal"}
  PROVE  /\ FlyLots(debit, grade, m.read = "normal") \in Nat
         /\ 2 * FlyLots(debit, grade, m.read = "normal") * debit * (IF m.read = "normal" THEN 2 ELSE 1)
              <= FlyRisk * IF grade = "A" THEN 3 ELSE 2
<1> DEFINE g == IF grade = "A" THEN 3 ELSE 2
           h == IF m.read = "normal" THEN 2 ELSE 1
           a == FlyRisk * g
           b == 2 * h * debit
           q == a \div b
<1>1. a \in Nat /\ b \in Nat \ {0} /\ h \in {1, 2}
  BY FlyAssumption DEF FlyAssumption
<1>2. FlyLots(debit, grade, m.read = "normal") = q
  BY DEF FlyLots
<1> HIDE DEF a
<1>3. q \in Nat /\ b * q <= a
  <2> HIDE DEF b
  <2> QED BY <1>1, Quotient
<1> HIDE DEF q, h
<1>4. 2 * q * debit * h = b * q
  BY <1>1, <1>3
<1> QED BY <1>2, <1>3, <1>4 DEF a, h

LEMMA SignalIsSized ==
  ASSUME MacroOK, MarketOK, FlyWindow, NEW s \in Leans, NEW pin \in Pins, NEW grade \in Grades,
         FlySignal(chain, s, pin), Signal(s, pin, grade) # NoSignal
  PROVE  Signal(s, pin, grade) \in FlySignals /\ SizedBy(Signal(s, pin, grade), macro)
<1> DEFINE w     == Wings(chain, s, pin)
           debit == FlyValue(chain, s, w)
           half  == macro.read = "normal"
           sig   == Signal(s, pin, grade)
<1>1. s \in Sides /\ pin \in Strikes /\ grade \in {"A", "B", "none"}
  BY DayAssumption DEF DayAssumption
<1>2. w \in [lower : Strikes, center : Strikes, upper : Strikes] /\ chain \in Chain
  BY <1>1, WingsAreStrikes, MarketHasChain DEF FlySignal
<1>3. debit \in Nat \ {0} /\ MaxProfit(chain, s, w) \in Nat \ {0}
  <2>1. debit \in Int
    <3> HIDE DEF w
    <3> QED BY <1>1, <1>2, FlyValueIsNumber
  <2>2. debit > 0 /\ MaxProfit(chain, s, w) > 0
    BY DEF FlySignal
  <2>3. MaxProfit(chain, s, w) = (w.upper - w.center) - debit
    BY DEF MaxProfit
  <2>4. w.upper \in Int /\ w.center \in Int
    <3> HIDE DEF w
    <3> QED BY <1>2, LiquidIsStrikes
  <2> HIDE DEF w, debit
  <2> QED BY <2>1, <2>2, <2>3, <2>4
<1>4. /\ macro.vix \in {"low", "normal"} /\ macro.read = macro.vix /\ macro # NoSnapshot
  BY DEF FlyWindow, ButterflyAllowed, Calm, MacroOK, NoSnapshot
<1>5. HalfSize <=> half
  BY <1>4 DEF HalfSize
<1>6. /\ grade # "none"
      /\ sig = [lots |-> FlyLots(debit, grade, HalfSize), side |-> s, wings |-> w, debit |-> debit,
                grade |-> grade, profit |-> MaxProfit(chain, s, w)]
      /\ FlyLots(debit, grade, HalfSize) # 0
  BY DEF Signal
<1>7. FlyLots(debit, grade, HalfSize) = FlyLots(debit, grade, half)
  BY <1>5 DEF FlyLots
<1> HIDE DEF debit, w, sig
<1>8. /\ FlyLots(debit, grade, half) \in Nat
      /\ 2 * FlyLots(debit, grade, half) * debit * (IF half THEN 2 ELSE 1)
           <= FlyRisk * IF grade = "A" THEN 3 ELSE 2
  BY <1>1, <1>3, <1>4, <1>6, LotsAreWithinRisk
<1>9. sig \in FlySignals
  BY <1>1, <1>2, <1>3, <1>6, <1>7, <1>8 DEF FlySignals
<1>10. SizedBy(sig, macro)
  <2>1. sig.lots = FlyLots(debit, grade, half) /\ sig.debit = debit /\ sig.grade = grade
    BY <1>6, <1>7
  <2> QED BY <1>4, <1>8, <2>1 DEF SizedBy
<1> QED BY <1>9, <1>10 DEF sig

-----------------------------------------------------------------------------
(* The signal, the orders and the butterfly.                               *)

SignalOK ==
  /\ attempt \in {1, 2} /\ signal \in FlySignals \cup {NoSignal}
  /\ signal # NoSignal <=> pc \in {"place", "cancel"}
  /\ signal # NoSignal => SizedBy(signal, macro)

OrdersOK ==
  orders \in Seq(Order) /\ \A i \in DOMAIN orders : SizedBy(orders[i], orders[i].macro)

FlyOK ==
  /\ fly \in Flies \cup {NoFly}
  /\ live /\ fly.open => /\ fly.order \in DOMAIN orders /\ orders[fly.order].status = "filled"
                         /\ orders[fly.order].lots = fly.lots

\* How many orders one life of the process has sent: the flag is set before the
\* first, and there are two attempts.
Sent == IF ~fired THEN 0
        ELSE IF pc = "place" THEN attempt - 1 ELSE IF pc = "cancel" THEN attempt ELSE 2

CountOK ==
  /\ fired \in BOOLEAN /\ (pc \in {"place", "cancel"} => fired)
  /\ Len(orders) <= 2 * crashes + Sent

LEMMA NoSignalIsNone ==
  ASSUME NEW x \in FlySignals
  PROVE  x # NoSignal
  BY DEF FlySignals, NoSignal

LEMMA SignalKept ==
  ASSUME SignalOK, MacroOK, MarketOK, [Next]_vars
  PROVE  SignalOK'
<1>1. CASE EnterFly
  <2>1. PICK s \in Leans, pin \in Pins, grade \in Grades :
          FlySignal(chain, s, pin) /\ signal' = Signal(s, pin, grade)
    BY <1>1 DEF EnterFly
  <2>2. /\ FlyWindow /\ attempt' = 1 /\ UNCHANGED <<macro, fedDay>>
        /\ pc' = IF signal' = NoSignal THEN "idle" ELSE "place"
    BY <1>1 DEF EnterFly, EndTick
  <2>3. signal' # NoSignal => signal' \in FlySignals /\ SizedBy(signal', macro)
    BY <2>1, <2>2, SignalIsSized
  <2> QED BY <2>2, <2>3 DEF SignalOK
<1>2. CASE PaperFly \/ PlaceFly \/ PlaceFails \/ CancelFly
  <2>1. /\ UNCHANGED <<macro, fedDay>> /\ attempt' \in {1, 2} /\ pc \in {"place", "cancel"}
        /\ \/ signal' = signal /\ pc' \in {"place", "cancel"}
           \/ signal' = NoSignal /\ pc' = "idle"
    BY <1>2 DEF PaperFly, PlaceFly, PlaceFails, CancelFly, BookFly, NoFill, EndTick, SignalOK
  <2> QED BY <2>1 DEF SignalOK
<1>3. CASE Restart
  BY <1>3 DEF Restart, EndTick, SignalOK
<1>4. CASE Refresh
  BY <1>4 DEF Refresh, flyVars, SignalOK
<1>5. CASE \/ NothingOpen \/ Manage \/ LegStage \/ Roll \/ NoRoll \/ EnterCondor \/ Flatten
           \/ BrokerFills \/ Advance \/ UNCHANGED vars
  <2>1. UNCHANGED <<signal, attempt, macro, fedDay>>
    BY <1>5 DEF NothingOpen, Manage, LegStage, Roll, NoRoll, EnterCondor, Flatten, BrokerFills, Advance,
       vars, flyVars
  <2>2. pc' = pc \/ (pc \notin {"place", "cancel"} /\ pc' \notin {"place", "cancel"})
    BY <1>5 DEF NothingOpen, Manage, LegStage, Roll, NoRoll, EnterCondor, Flatten, BrokerFills, Advance,
       vars, ThenRoll, EndTick, MayTick
  <2> QED BY <2>1, <2>2 DEF SignalOK
<1> QED BY <1>1, <1>2, <1>3, <1>4, <1>5 DEF Next

\* An order carries the size and the snapshot of its signal.
LEMMA OrderIsSized ==
  ASSUME SignalOK, MacroOK, signal # NoSignal, NEW status \in {"filled", "working"}
  PROVE  /\ OrderOf(status) \in Order /\ SizedBy(OrderOf(status), OrderOf(status).macro)
         /\ OrderOf(status).status = status /\ OrderOf(status).lots = signal.lots
<1>1. signal \in FlySignals /\ SizedBy(signal, macro)
  BY DEF SignalOK
<1>2. macro \in Snapshot
  BY <1>1 DEF SizedBy, MacroOK, NoSnapshot
<1>3. /\ signal.lots \in Nat \ {0} /\ signal.debit \in Nat \ {0} /\ signal.grade \in {"A", "B"}
  BY <1>1 DEF FlySignals
<1>4. Limit \in Nat
  <2>1. Improve \in Nat /\ attempt \in {1, 2}
    BY FlyAssumption DEF FlyAssumption, SignalOK
  <2> QED BY <1>3, <2>1 DEF Limit
<1>5. OrderOf(status) \in Order
  BY <1>2, <1>3, <1>4 DEF OrderOf, Order
<1>6. SizedBy(OrderOf(status), OrderOf(status).macro)
  BY <1>1 DEF OrderOf, SizedBy
<1> QED BY <1>5, <1>6 DEF OrderOf

\* What the steps do to the orders: one is appended for the signal, or some
\* that still work are filled or gone.
Placed(status) == signal # NoSignal /\ orders' = Append(orders, OrderOf(status))

Settles ==
  /\ DOMAIN orders' = DOMAIN orders /\ orders' = [i \in DOMAIN orders |-> orders'[i]]
  /\ \A i \in DOMAIN orders :
       \/ orders'[i] = orders[i]
       \/ /\ orders[i].status = "working"
          /\ \E x \in {"filled", "gone"} : orders'[i] = [orders[i] EXCEPT !.status = x]

LEMMA OrdersMove ==
  ASSUME OrdersOK, SignalOK, MarketOK, [Next]_vars
  PROVE  /\ fedDay' = fedDay
         /\ orders' = orders \/ (\E x \in {"filled", "working"} : Placed(x)) \/ Settles
<1>1. fedDay' = fedDay
  BY DEF Next, vars, condorVars, flyVars, Refresh, NothingOpen, Manage, LegStage, Roll, NoRoll, EnterFly,
     EnterCondor, PaperFly, PlaceFly, PlaceFails, CancelFly, BrokerFills, Flatten, Advance, Restart
<1>2. orders \in Seq(Order) /\ DOMAIN orders = 1..Len(orders) /\ Len(orders) \in Nat
  BY DEF OrdersOK
<1>3. CASE PlaceFly \/ PlaceFails
  <2>1. signal # NoSignal
    BY <1>3 DEF PlaceFly, PlaceFails, SignalOK
  <2>2. orders' = orders \/ \E x \in {"filled", "working"} : orders' = Append(orders, OrderOf(x))
    BY <1>3 DEF PlaceFly, PlaceFails
  <2> QED BY <1>1, <2>1, <2>2 DEF Placed
<1>4. CASE CancelFly
  <2>1. \/ orders' = orders
        \/ /\ orders[Len(orders)].status = "working"
           /\ orders' = [orders EXCEPT ![Len(orders)].status = "gone"]
    BY <1>4 DEF CancelFly
  <2> QED BY <1>1, <1>2, <2>1 DEF Settles
<1>5. CASE BrokerFills
  <2>1. PICK i \in DOMAIN orders : /\ orders[i].status = "working"
                                   /\ orders' = [orders EXCEPT ![i].status = "filled"]
    BY <1>5 DEF BrokerFills
  <2> QED BY <1>1, <1>2, <2>1 DEF Settles
<1>6. CASE Advance
  <2>1. \/ orders' = orders
        \/ orders' = [i \in DOMAIN orders |->
                        IF orders[i].status = "working" THEN [orders[i] EXCEPT !.status = "gone"]
                        ELSE orders[i]]
    BY <1>6 DEF Advance
  <2> QED BY <1>1, <1>2, <2>1 DEF Settles
<1>7. CASE \/ NothingOpen \/ Manage \/ LegStage \/ Roll \/ NoRoll \/ EnterCondor \/ EnterFly
           \/ PaperFly \/ Flatten \/ Refresh \/ Restart \/ UNCHANGED vars
  BY <1>1, <1>7 DEF NothingOpen, Manage, LegStage, Roll, NoRoll, EnterCondor, EnterFly, PaperFly, Flatten,
     Refresh, Restart, vars, flyVars
<1> QED BY <1>3, <1>4, <1>5, <1>6, <1>7 DEF Next

LEMMA SettlingKeepsOrders ==
  ASSUME OrdersOK, Settles, fedDay' = fedDay
  PROVE  OrdersOK' /\ Len(orders') = Len(orders)
<1>1. orders \in Seq(Order) /\ DOMAIN orders = 1..Len(orders) /\ Len(orders) \in Nat
  BY DEF OrdersOK
<1>2. ASSUME NEW i \in DOMAIN orders
      PROVE  orders'[i] \in Order /\ SizedBy(orders'[i], orders'[i].macro)
  <2>1. orders[i] \in Order /\ SizedBy(orders[i], orders[i].macro)
    BY <1>1 DEF OrdersOK
  <2>2. CASE orders'[i] = orders[i]
    BY <2>1, <2>2
  <2>3. ASSUME NEW x \in {"filled", "gone"}, orders'[i] = [orders[i] EXCEPT !.status = x]
        PROVE  orders'[i] \in Order /\ SizedBy(orders'[i], orders'[i].macro)
    <3>1. orders'[i] \in Order
      BY <2>1, <2>3 DEF Order
    <3>2. /\ orders'[i].lots = orders[i].lots /\ orders'[i].debit = orders[i].debit
          /\ orders'[i].grade = orders[i].grade /\ orders'[i].macro = orders[i].macro
      BY <2>1, <2>3 DEF Order
    <3> QED BY <2>1, <3>1, <3>2 DEF SizedBy
  <2> QED BY <2>2, <2>3 DEF Settles
<1>3. orders' \in [1..Len(orders) -> Order]
  BY <1>1, <1>2 DEF Settles
<1>4. orders' \in Seq(Order) /\ Len(orders') = Len(orders)
  BY <1>1, <1>3
<1> QED BY <1>2, <1>4 DEF OrdersOK, Settles

LEMMA PlacingKeepsOrders ==
  ASSUME OrdersOK, SignalOK, MacroOK, NEW status \in {"filled", "working"}, Placed(status), fedDay' = fedDay
  PROVE  /\ OrdersOK' /\ Len(orders') = Len(orders) + 1
         /\ orders'[Len(orders')].status = status /\ orders'[Len(orders')].lots = signal.lots
         /\ Len(orders') \in DOMAIN orders'
         /\ \A i \in DOMAIN orders : i \in DOMAIN orders' /\ orders'[i] = orders[i]
<1> DEFINE o == OrderOf(status)
<1>1. o \in Order /\ SizedBy(o, o.macro) /\ o.status = status /\ o.lots = signal.lots
  BY OrderIsSized DEF Placed
<1>2. orders \in Seq(Order) /\ DOMAIN orders = 1..Len(orders) /\ Len(orders) \in Nat
  BY DEF OrdersOK
<1>3. orders' = Append(orders, o)
  BY DEF Placed
<1> HIDE DEF o
<1>4. /\ orders' \in Seq(Order) /\ Len(orders') = Len(orders) + 1 /\ orders'[Len(orders) + 1] = o
      /\ DOMAIN orders' = 1..(Len(orders) + 1) /\ \A i \in 1..Len(orders) : orders'[i] = orders[i]
  BY <1>1, <1>2, <1>3
<1>5. \A i \in DOMAIN orders' : i \in DOMAIN orders \/ i = Len(orders) + 1
  BY <1>2, <1>4
<1> QED BY <1>1, <1>2, <1>4, <1>5 DEF OrdersOK

LEMMA OrdersKept ==
  ASSUME OrdersOK, SignalOK, MacroOK, MarketOK, [Next]_vars
  PROVE  /\ OrdersOK' /\ Len(orders') \in {Len(orders), Len(orders) + 1}
         /\ \A i \in DOMAIN orders : /\ i \in DOMAIN orders' /\ orders'[i].lots = orders[i].lots
                                     /\ orders[i].status = "filled" => orders'[i].status = "filled"
<1>1. /\ fedDay' = fedDay
      /\ orders' = orders \/ (\E x \in {"filled", "working"} : Placed(x)) \/ Settles
  BY OrdersMove
<1>2. CASE orders' = orders
  BY <1>1, <1>2 DEF OrdersOK
<1>3. ASSUME NEW x \in {"filled", "working"}, Placed(x)
      PROVE  /\ OrdersOK' /\ Len(orders') = Len(orders) + 1
             /\ \A i \in DOMAIN orders : i \in DOMAIN orders' /\ orders'[i] = orders[i]
  BY <1>1, <1>3, PlacingKeepsOrders
<1>4. CASE Settles
  <2>1. OrdersOK' /\ Len(orders') = Len(orders)
    BY <1>1, <1>4, SettlingKeepsOrders
  <2>2. ASSUME NEW i \in DOMAIN orders
        PROVE  /\ i \in DOMAIN orders' /\ orders'[i].lots = orders[i].lots
               /\ orders[i].status = "filled" => orders'[i].status = "filled"
    <3>1. orders[i] \in Order
      BY DEF OrdersOK
    <3> QED BY <1>4, <3>1 DEF Settles, Order
  <2> QED BY <2>1, <2>2
<1> QED BY <1>1, <1>2, <1>3, <1>4

LEMMA FlyMarked ==
  ASSUME FlyOK, NEW c \in Chain, NEW regime, NEW old
  PROVE  /\ ManagedFly(c, regime, old) \in Flies \cup {NoFly}
         /\ ManagedFly(c, regime, old).open =>
              /\ fly.open /\ ManagedFly(c, regime, old).order = fly.order
              /\ ManagedFly(c, regime, old).lots = fly.lots
<1> DEFINE m == Mark(FlyPremium(c))
<1>1. ManagedFly(c, regime, old) \in {fly, NoFly} \/ (fly.open /\ ManagedFly(c, regime, old) = [fly EXCEPT !.mark = m])
  BY DEF ManagedFly
<1>2. ASSUME fly.open, fly \in Flies
      PROVE  /\ [fly EXCEPT !.mark = m] \in Flies
             /\ [fly EXCEPT !.mark = m].order = fly.order /\ [fly EXCEPT !.mark = m].lots = fly.lots
  <2>1. /\ fly.side \in Sides /\ fly.debit \in Nat /\ fly.known \in Int
        /\ {fly.wings.lower, fly.wings.center, fly.wings.upper} \subseteq Strikes
    BY <1>2 DEF Flies
  <2>2. FlyValue(c, fly.side, fly.wings) \in Int
    BY <2>1, FlyValueIsNumber
  <2>3. m \in Int
    BY <2>1, <2>2 DEF Mark, FlyPremium
  <2> HIDE DEF m
  <2> QED BY <1>2, <2>3 DEF Flies
<1>3. ~NoFly.open
  BY DEF NoFly
<1> HIDE DEF m
<1> QED BY <1>1, <1>2, <1>3 DEF FlyOK

\* A butterfly that is kept: with the orders that are kept it stays what it is.
LEMMA FlyCarried ==
  ASSUME FlyOK, OrdersOK, SignalOK, MacroOK, MarketOK, [Next]_vars, live' = live,
         fly' \in Flies \cup {NoFly},
         fly'.open => fly.open /\ fly'.order = fly.order /\ fly'.lots = fly.lots
  PROVE  FlyOK'
<1>1. \A i \in DOMAIN orders : /\ i \in DOMAIN orders' /\ orders'[i].lots = orders[i].lots
                               /\ orders[i].status = "filled" => orders'[i].status = "filled"
  BY OrdersKept
<1>2. Len(orders) \in Nat /\ Len(orders') \in {Len(orders), Len(orders) + 1}
  BY OrdersKept DEF OrdersOK
<1>3. fly' \in Flies' \cup {NoFly}
  <2>1. \A x \in 0..Len(orders) : x \in 0..Len(orders')
    BY <1>2
  <2> QED BY <2>1 DEF Flies
<1>4. ASSUME live', fly'.open
      PROVE  /\ fly'.order \in DOMAIN orders' /\ orders'[fly'.order].status = "filled"
             /\ orders'[fly'.order].lots = fly'.lots
  <2>1. fly.order \in DOMAIN orders /\ orders[fly.order].status = "filled" /\ orders[fly.order].lots = fly.lots
    BY <1>4 DEF FlyOK
  <2>2. fly'.order = fly.order /\ fly'.lots = fly.lots
    BY <1>4
  <2>3. /\ fly.order \in DOMAIN orders' /\ orders'[fly.order].status = "filled"
        /\ orders'[fly.order].lots = fly.lots
    BY <1>1, <2>1
  <2> QED BY <2>2, <2>3
<1> QED BY <1>3, <1>4 DEF FlyOK

\* A butterfly that is booked, of the order that was just filled.
LEMMA FlyBooked ==
  ASSUME signal \in FlySignals, live' = live, NEW n \in 0..Len(orders'), fly' = FlyRow(n),
         live => /\ n \in DOMAIN orders' /\ orders'[n].status = "filled" /\ orders'[n].lots = signal.lots
  PROVE  FlyOK'
<1>1. FlyRow(n) \in Flies'
  BY DEF FlyRow, Flies, FlySignals
<1>2. FlyRow(n).order = n /\ FlyRow(n).lots = signal.lots
  BY DEF FlyRow
<1> QED BY <1>1, <1>2 DEF FlyOK

LEMMA LiveKept ==
  ASSUME [Next]_vars
  PROVE  live' = live
  BY DEF Next, vars, Refresh, NothingOpen, Manage, LegStage, Roll, NoRoll, EnterFly, EnterCondor,
     PaperFly, PlaceFly, PlaceFails, CancelFly, BrokerFills, Flatten, Advance, Restart

LEMMA FlyKept ==
  ASSUME FlyOK, OrdersOK, SignalOK, MacroOK, MarketOK, [Next]_vars
  PROVE  FlyOK'
<1>1. live' = live
  BY LiveKept
<1>2. fly \in Flies \cup {NoFly} /\ ~NoFly.open
  BY DEF FlyOK, NoFly
<1>3. CASE Manage
  <2>1. PICK m \in [chain : Chains, regime : Regimes], old \in {FALSE, slot = Afternoon} :
          fly' = ManagedFly(m.chain, m.regime, old)
    BY <1>3 DEF Manage
  <2>2. m.chain \in Chain
    <3>1. Chains \subseteq Chain
      BY DayAssumption DEF DayAssumption
    <3> QED BY <3>1
  <2> QED BY <1>1, <2>1, <2>2, FlyMarked, FlyCarried
<1>4. CASE Flatten
  <2>1. fly' \in {fly, NoFly}
    BY <1>4 DEF Flatten
  <2> QED BY <1>1, <1>2, <2>1, FlyCarried
<1>5. CASE Restart
  <2>1. fly' = [fly EXCEPT !.known = fly.mark]
    BY <1>5 DEF Restart
  <2>2. CASE fly = NoFly
    BY <1>1, <1>2, <2>1, <2>2, FlyCarried DEF NoFly
  <2>3. CASE fly \in Flies
    <3>1. fly' \in Flies /\ fly'.order = fly.order /\ fly'.lots = fly.lots /\ fly.open
      BY <2>1, <2>3 DEF Flies
    <3> QED BY <1>1, <3>1, FlyCarried
  <2> QED BY <1>2, <2>2, <2>3
<1>6. CASE PaperFly
  <2>1. /\ fly' = FlyRow(0) /\ orders' = orders /\ ~live /\ signal # NoSignal
    BY <1>6 DEF PaperFly, BookFly, SignalOK
  <2>2. signal \in FlySignals /\ 0 \in 0..Len(orders')
    BY <2>1 DEF SignalOK, OrdersOK
  <2> QED BY <1>1, <2>1, <2>2, FlyBooked
<1>7. CASE PlaceFly
  <2>1. PICK status \in {"filled", "working"} :
          /\ orders' = Append(orders, OrderOf(status))
          /\ \/ status = "filled" /\ fly' = FlyRow(Len(orders'))
             \/ fly' = fly
    BY <1>7 DEF PlaceFly, Booked, BookFly
  <2>2. signal # NoSignal /\ signal \in FlySignals /\ fedDay' = fedDay
    BY <1>7 DEF PlaceFly, SignalOK
  <2>3. Placed(status)
    BY <2>1, <2>2 DEF Placed
  <2>4. /\ OrdersOK' /\ Len(orders') \in DOMAIN orders'
        /\ orders'[Len(orders')].status = status /\ orders'[Len(orders')].lots = signal.lots
    BY <2>2, <2>3, PlacingKeepsOrders
  <2>5. Len(orders') \in 0..Len(orders')
    BY <2>4 DEF OrdersOK
  <2> QED BY <1>1, <1>2, <2>1, <2>2, <2>4, <2>5, FlyBooked, FlyCarried
<1>8. CASE \/ NothingOpen \/ LegStage \/ Roll \/ NoRoll \/ EnterCondor \/ EnterFly \/ PlaceFails
           \/ CancelFly \/ BrokerFills \/ Advance \/ Refresh \/ UNCHANGED vars
  <2>1. fly' = fly
    BY <1>8 DEF NothingOpen, LegStage, Roll, NoRoll, EnterCondor, EnterFly, PlaceFails, CancelFly, NoFill,
       BrokerFills, Advance, Refresh, vars, flyVars
  <2> QED BY <1>1, <1>2, <2>1, FlyCarried
<1> QED BY <1>3, <1>4, <1>5, <1>6, <1>7, <1>8 DEF Next

LEMMA CountKept ==
  ASSUME CountOK, OrdersOK, SignalOK, MacroOK, MarketOK, ClockOK, [Next]_vars
  PROVE  CountOK'
<1>1. Len(orders) \in Nat /\ crashes \in Nat /\ attempt \in {1, 2}
  <2>1. MaxCrashes \in Nat
    BY DayAssumption DEF DayAssumption
  <2> QED BY <2>1 DEF OrdersOK, ClockOK, SignalOK
<1>2. CASE EnterFly
  <2>1. /\ fired' = TRUE /\ ~fired /\ attempt' = 1 /\ pc' \in {"idle", "place"}
        /\ UNCHANGED <<orders, crashes>>
    BY <1>2 DEF EnterFly, MarkFired, EndTick, FlyWindow
  <2> QED BY <1>1, <2>1 DEF CountOK, Sent
<1>3. CASE PaperFly
  <2>1. UNCHANGED <<orders, crashes, fired>> /\ pc' = "idle" /\ pc = "place"
    BY <1>3 DEF PaperFly, BookFly, EndTick
  <2> QED BY <1>1, <2>1 DEF CountOK, Sent
<1>4. CASE PlaceFly \/ PlaceFails
  <2>1. /\ UNCHANGED <<crashes, fired>> /\ pc = "place"
        /\ \/ pc' = "cancel" /\ attempt' = attempt
           \/ pc' = "idle"
           \/ attempt = 1 /\ attempt' = 2 /\ pc' = "place" /\ orders' = orders
    BY <1>4 DEF PlaceFly, PlaceFails, BookFly, NoFill, EndTick
  <2>2. Len(orders') \in {Len(orders), Len(orders) + 1}
    BY OrdersKept
  <2> QED BY <1>1, <2>1, <2>2 DEF CountOK, Sent
<1>5. CASE CancelFly
  <2>1. /\ UNCHANGED <<crashes, fired>> /\ pc = "cancel"
        /\ \/ attempt = 1 /\ attempt' = 2 /\ pc' = "place"
           \/ pc' = "idle"
    BY <1>5 DEF CancelFly, NoFill, EndTick
  <2>2. Len(orders') = Len(orders)
    <3>1. orders' = orders \/ orders' = [orders EXCEPT ![Len(orders)].status = "gone"]
      BY <1>5 DEF CancelFly
    <3>2. orders \in Seq(Order)
      BY DEF OrdersOK
    <3>3. Len([orders EXCEPT ![Len(orders)].status = "gone"]) = Len(orders)
      BY <3>2
    <3> QED BY <3>1, <3>3
  <2> QED BY <1>1, <2>1, <2>2 DEF CountOK, Sent
<1>6. CASE Restart
  <2>1. fired' = FALSE /\ crashes' = crashes + 1 /\ pc' = "idle" /\ orders' = orders
    BY <1>6 DEF Restart, EndTick
  <2>2. Sent \in 0..2
    BY <1>1 DEF Sent
  <2>3. Sent' = 0
    BY <2>1 DEF Sent
  <2>4. Len(orders) <= 2 * crashes + 2
    BY <1>1, <2>2 DEF CountOK
  <2>5. Len(orders') <= 2 * crashes' + Sent'
    BY <1>1, <2>1, <2>3, <2>4
  <2> QED BY <2>1, <2>5 DEF CountOK
<1>7. CASE BrokerFills \/ Advance
  <2>1. UNCHANGED <<crashes, fired, attempt, pc>>
    BY <1>7 DEF BrokerFills, Advance
  <2>2. Len(orders') = Len(orders)
    <3>1. DOMAIN orders' = DOMAIN orders
      BY <1>7 DEF BrokerFills, Advance
    <3>2. orders' \in Seq(Order) /\ orders \in Seq(Order)
      BY OrdersKept DEF OrdersOK
    <3> QED BY <3>1, <3>2
  <2> QED BY <2>1, <2>2 DEF CountOK, Sent
<1>8. CASE \/ NothingOpen \/ Manage \/ LegStage \/ Roll \/ NoRoll \/ EnterCondor \/ Flatten \/ Refresh
           \/ UNCHANGED vars
  <2>1. UNCHANGED <<crashes, fired, attempt, orders>>
    BY <1>8 DEF NothingOpen, Manage, LegStage, Roll, NoRoll, EnterCondor, Flatten, Refresh, vars, flyVars
  <2>2. pc' = pc \/ (pc \notin {"place", "cancel"} /\ pc' \notin {"place", "cancel"})
    BY <1>8 DEF NothingOpen, Manage, LegStage, Roll, NoRoll, EnterCondor, Flatten, Refresh, vars,
       ThenRoll, EndTick, MayTick
  <2> QED BY <2>1, <2>2 DEF CountOK, Sent
<1> QED BY <1>2, <1>3, <1>4, <1>5, <1>6, <1>7, <1>8 DEF Next

-----------------------------------------------------------------------------
(* The invariant and what it shows.                                        *)

Inv ==
  /\ PlanOK /\ RowsOK /\ MarketOK /\ Unthreatened
  /\ ClockOK /\ MacroOK /\ SignalOK /\ OrdersOK /\ FlyOK /\ CountOK

LEMMA InitInv == Init => Inv
<1> SUFFICES ASSUME Init PROVE Inv
  OBVIOUS
<1>1. rows = <<>> /\ orders = <<>> /\ listed = {} /\ pc = "idle"
  BY DEF Init
<1>2. PlanOK
  <2>1. plan = NoPlan /\ planDate = 0 /\ strikes = NoStrikes
    BY DEF Init, PlanInit
  <2>2. NoPlan \in PlanType(1..Len(rows)) /\ NoStrikes \in [Sides -> [short : Int, long : Int]]
    BY DEF NoPlan, PlanType, PlanStates, Sides, NoStrikes, NoStrike
  <2> QED BY <2>1, <2>2 DEF PlanOK
<1>3. RowsOK
  BY <1>1 DEF RowsOK, Typed, Covers
<1>4. MarketOK /\ Unthreatened
  BY <1>1 DEF Init, MarketOK, Unthreatened, NoMarket
<1>5. ClockOK
  <2>1. MaxCrashes \in Nat
    BY DayAssumption DEF DayAssumption
  <2> QED BY <2>1 DEF Init, ClockOK, Slots, PreOpen, Midday, AfterHours
<1>6. MacroOK
  BY DEF Init, MacroOK, NoSnapshot
<1>7. SignalOK /\ OrdersOK
  BY <1>1 DEF Init, SignalOK, OrdersOK
<1>8. FlyOK
  BY DEF Init, FlyOK, NoFly
<1>9. CountOK
  <2>1. fired = FALSE /\ crashes = 0 /\ Len(orders) = 0
    BY <1>1 DEF Init
  <2>2. Sent = 0
    BY <2>1 DEF Sent
  <2>3. Len(orders) <= 2 * crashes + Sent
    BY <2>1, <2>2
  <2>4. fired \in BOOLEAN /\ pc \notin {"place", "cancel"}
    BY <1>1, <2>1
  <2> QED BY <2>3, <2>4 DEF CountOK
<1> QED BY <1>2, <1>3, <1>4, <1>5, <1>6, <1>7, <1>8, <1>9 DEF Inv

LEMMA NextInv == Inv /\ [Next]_vars => Inv'
<1> SUFFICES ASSUME Inv, [Next]_vars PROVE Inv'
  OBVIOUS
<1>1. PlanOK' /\ RowsOK' /\ Unthreatened'
  BY CondorStep DEF Inv, ClockOK
<1>2. MarketOK' /\ ClockOK' /\ MacroOK' /\ SignalOK'
  BY MarketKept, ClockKept, MacroKept, SignalKept DEF Inv
<1>3. OrdersOK' /\ FlyOK' /\ CountOK'
  BY OrdersKept, FlyKept, CountKept DEF Inv
<1> QED BY <1>1, <1>2, <1>3 DEF Inv

LEMMA Invariance == Spec => []Inv
  BY InitInv, NextInv, PTL DEF Spec

\* The plan, the rows, the market, the macro snapshot, the signal, the orders
\* and the butterfly keep their types; what is listed is open and no row is
\* empty (iron_condor_strategy.py, butterfly_strategy.py, entry_engine.py).
THEOREM TypeCorrect == Spec => []NeutralTypeOK
<1>1. Inv => NeutralTypeOK
  <2> SUFFICES ASSUME Inv PROVE NeutralTypeOK
    OBVIOUS
  <2>1. /\ plan \in PlanType(1..Len(rows)) /\ planDate \in {0, 1}
        /\ strikes \in [Sides -> [short : Int, long : Int]]
    BY DEF Inv, PlanOK
  <2>2. rows \in Seq(Row) /\ (\A i \in DOMAIN rows : rows[i].lots > 0) /\ listed \subseteq Open
    BY DEF Inv, RowsOK, Typed
  <2>3. /\ market \in [chain : Chains \cup {NoMarket.chain}, regime : Regimes \cup {"UNKNOWN"}]
        /\ pc \in {"idle", "leg", "roll", "entry", "place", "cancel"}
    BY DEF Inv, MarketOK
  <2>4. fedDay \in BOOLEAN /\ macro \in Snapshot \cup {NoSnapshot}
    BY DEF Inv, MacroOK
  <2>5. fired \in BOOLEAN /\ attempt \in {1, 2} /\ orders \in Seq(Order)
    BY DEF Inv, CountOK, SignalOK, OrdersOK
  <2>6. signal \in FlySignals \cup {NoSignal} /\ (signal # NoSignal <=> pc \in {"place", "cancel"})
    BY DEF Inv, SignalOK
  <2>7. fly \in Flies \cup {NoFly} /\ live \in BOOLEAN /\ slot \in Slots /\ crashes \in 0..MaxCrashes
    BY DEF Inv, FlyOK, ClockOK
  <2> QED BY <2>1, <2>2, <2>3, <2>4, <2>5, <2>6, <2>7 DEF NeutralTypeOK
<1> QED BY <1>1, Invariance, PTL

\* However the chain moves, and whatever is closed, marked or read back after a
\* roll: the three credits, less the booked cost of the close, cover the tested
\* width (condor_roll.py, find_risk_free_roll and _execute_roll).
THEOREM RollsAreRiskFree == Spec => []RolledIsRiskFree
<1>1. Inv => RolledIsRiskFree
  BY DEF Inv, RowsOK, Covers, RolledIsRiskFree, Width
<1> QED BY <1>1, Invariance, PTL

\* On paper a condor is only rolled when the regime threatens neither side: the
\* pass over the positions comes first in every tick, and a leg that is sold in
\* between is sold in a range (main.py, manage_open_position before the roll).
THEOREM RollsStayInRange == Spec => RollsInRange
<1>1. Inv /\ [Next]_vars
        => [~live /\ Len(rows') > Len(rows) /\ rows'[Len(rows')].from # 0
              => market.regime \notin Trends]_vars
  BY CondorStep DEF Inv, ClockOK
<1> QED BY <1>1, Invariance, PTL DEF Spec, RollsInRange

\* A live butterfly in the list is an order the broker filled, of that size, for
\* any number of attempts, cancellations that come too late and restarts
\* (entry_engine.py, _place_butterfly).
THEOREM FliesAreFilled == Spec => []FlyRowIsFilled
<1>1. Inv => FlyRowIsFilled
  BY DEF Inv, FlyOK, FlyRowIsFilled
<1> QED BY <1>1, Invariance, PTL

\* At most two butterflies are filled for each life of the process: the flag is set
\* before the first order and a signal has two attempts.
THEOREM FliesAreBounded == Spec => []FlyFillsBounded
<1>1. Inv => FlyFillsBounded
  <2> SUFFICES ASSUME Inv PROVE FlyFillsBounded
    OBVIOUS
  <2>1. Len(orders) \in Nat /\ DOMAIN orders = 1..Len(orders)
    BY DEF Inv, OrdersOK
  <2>2. crashes \in Nat /\ Len(orders) <= 2 * (1 + crashes)
    <3>1. MaxCrashes \in Nat
      BY DayAssumption DEF DayAssumption
    <3>2. crashes \in Nat /\ Len(orders) <= 2 * crashes + Sent
      BY <3>1 DEF Inv, ClockOK, CountOK
    <3>3. Sent \in 0..2
      BY DEF Inv, SignalOK, Sent
    <3> QED BY <2>1, <3>2, <3>3
  <2>3. /\ IsFiniteSet(1..Len(orders)) /\ Cardinality(1..Len(orders)) = Len(orders)
    <3>1. 1 \in Int /\ Len(orders) \in Int
      BY <2>1
    <3>2. /\ IsFiniteSet(1..Len(orders))
          /\ Cardinality(1..Len(orders)) = IF 1 > Len(orders) THEN 0 ELSE Len(orders) - 1 + 1
      BY <3>1, FS_Interval
    <3> QED BY <2>1, <3>2
  <2>4. FilledLots \subseteq 1..Len(orders)
    BY <2>1 DEF FilledLots
  <2>5. Cardinality(FilledLots) \in Nat /\ Cardinality(FilledLots) <= Len(orders)
    BY <2>3, <2>4, FS_Subset, FS_CardinalityType
  <2> QED BY <2>1, <2>2, <2>5 DEF FlyFillsBounded
<1> QED BY <1>1, Invariance, PTL

\* No butterfly order is sized by a VIX that was never read or is above its
\* grade's risk (macro_data.py, risk_manager.py, compute_size).
THEOREM FliesAreCalm == Spec => []FlyIsCalm
<1>1. Inv => FlyIsCalm
  BY DEF Inv, OrdersOK, SizedBy, FlyIsCalm
<1> QED BY <1>1, Invariance, PTL

-----------------------------------------------------------------------------
(* The shape of a condor.                                                  *)

\* The row i took the place of an earlier one of its side and structure.
Replaces(rs, i) ==
  /\ rs[i].wing /\ rs[i].from \in DOMAIN rs
  /\ LET u == rs[rs[i].from]
     IN /\ u.from = 0 /\ ~u.open
        /\ u.side = rs[i].side /\ u.condor = rs[i].condor
        /\ u.lots = rs[i].lots /\ Width(u) = Width(rs[i])

\* Either side of a structure has one leg, and the structure one roll, after
\* which all that is open of it is final; what is open is one structure.
Shape(rs) ==
  /\ \A i \in DOMAIN rs : rs[i].condor \in DOMAIN rs
  /\ \A i \in DOMAIN rs : rs[i].from # 0 => Replaces(rs, i)
  /\ \A i, j \in DOMAIN rs :
       rs[i].condor = rs[j].condor =>
         /\ rs[i].from = 0 /\ rs[j].from = 0 /\ rs[i].side = rs[j].side => i = j
         /\ rs[i].from # 0 /\ rs[j].from # 0 => i = j
         /\ rs[i].from # 0 /\ rs[j].open => rs[j].wing
  /\ \A i, j \in DOMAIN rs : rs[i].open /\ rs[j].open => rs[i].condor = rs[j].condor

LEMMA ShapeKept ==
  ASSUME NEW rs, Shape(rs), NEW new, Kept(rs, new)
  PROVE  Shape(new)
<1>1. DOMAIN new = DOMAIN rs /\ \A i \in DOMAIN rs : Held(rs[i], new[i])
  BY DEF Kept
<1>2. \A i \in DOMAIN rs : new[i].condor = rs[i].condor /\ new[i].from = rs[i].from /\ new[i].side = rs[i].side
  BY <1>1 DEF Held
<1>3. \A i \in DOMAIN rs : (new[i].open => rs[i].open) /\ (rs[i].wing => new[i].wing)
  BY <1>1 DEF Held
<1>4. \A i \in DOMAIN new : new[i].from # 0 => Replaces(new, i)
  <2> SUFFICES ASSUME NEW i \in DOMAIN rs, new[i].from # 0 PROVE Replaces(new, i)
    BY <1>1
  <2>1. Replaces(rs, i) /\ rs[i].from \in DOMAIN rs
    BY <1>2 DEF Shape, Replaces
  <2>2. Held(rs[i], new[i]) /\ Held(rs[rs[i].from], new[rs[i].from])
    BY <1>1, <2>1
  <2> QED BY <1>1, <2>1, <2>2 DEF Replaces, Held, Width
<1>5. \A i, j \in DOMAIN new :
        new[i].condor = new[j].condor =>
          /\ new[i].from = 0 /\ new[j].from = 0 /\ new[i].side = new[j].side => i = j
          /\ new[i].from # 0 /\ new[j].from # 0 => i = j
          /\ new[i].from # 0 /\ new[j].open => new[j].wing
  BY <1>1, <1>2, <1>3 DEF Shape
<1>6. \A i, j \in DOMAIN new : new[i].open /\ new[j].open => new[i].condor = new[j].condor
  BY <1>1, <1>2, <1>3 DEF Shape
<1> QED BY <1>1, <1>2, <1>4, <1>5, <1>6 DEF Shape

\* A row more: what it needs, and that the others are what they were.
Appended(rs, new, r) ==
  /\ DOMAIN new = DOMAIN rs \cup {Len(rs) + 1} /\ Len(rs) + 1 \notin DOMAIN rs
  /\ new[Len(rs) + 1] = r /\ \A i \in DOMAIN rs : new[i] = rs[i]

LEMMA ReplacesKept ==
  ASSUME NEW rs, Shape(rs), NEW new, NEW r, Appended(rs, new, r), NEW i \in DOMAIN rs, rs[i].from # 0
  PROVE  Replaces(new, i)
<1>1. Replaces(rs, i) /\ rs[i].from \in DOMAIN rs
  BY DEF Shape, Replaces
<1>2. new[i] = rs[i] /\ new[rs[i].from] = rs[rs[i].from] /\ rs[i].from \in DOMAIN new
  BY <1>1 DEF Appended
<1> QED BY <1>1, <1>2 DEF Replaces

LEMMA ShapeOfLeg ==
  ASSUME NEW rs, Shape(rs), NEW r, r.from = 0, NEW new, Appended(rs, new, r),
         r.condor \in DOMAIN new,
         \A i \in DOMAIN rs : rs[i].condor = r.condor => rs[i].side # r.side /\ rs[i].from = 0,
         \A i \in DOMAIN rs : rs[i].open => rs[i].condor = r.condor
  PROVE  Shape(new)
<1>1. \A i \in DOMAIN new : (i \in DOMAIN rs /\ new[i] = rs[i]) \/ (i = Len(rs) + 1 /\ new[i] = r)
  BY DEF Appended
<1>2. \A i \in DOMAIN new : new[i].condor \in DOMAIN new
  BY <1>1 DEF Shape, Appended
<1>3. \A i \in DOMAIN new : new[i].from # 0 => Replaces(new, i)
  BY <1>1, ReplacesKept
<1>4. \A i, j \in DOMAIN new :
        new[i].condor = new[j].condor =>
          /\ new[i].from = 0 /\ new[j].from = 0 /\ new[i].side = new[j].side => i = j
          /\ new[i].from # 0 /\ new[j].from # 0 => i = j
          /\ new[i].from # 0 /\ new[j].open => new[j].wing
  BY <1>1 DEF Shape
<1>5. \A i, j \in DOMAIN new : new[i].open /\ new[j].open => new[i].condor = new[j].condor
  BY <1>1 DEF Shape
<1> QED BY <1>2, <1>3, <1>4, <1>5 DEF Shape

LEMMA ShapeOfRoll ==
  ASSUME NEW rs, Shape(rs), NEW r, r.from # 0, NEW new, Appended(rs, new, r),
         Replaces(new, Len(rs) + 1), r.condor \in DOMAIN rs,
         \A i \in DOMAIN rs : rs[i].condor = r.condor => rs[i].from = 0,
         \A i \in DOMAIN rs : rs[i].open => rs[i].condor = r.condor /\ rs[i].wing
  PROVE  Shape(new)
<1>1. \A i \in DOMAIN new : (i \in DOMAIN rs /\ new[i] = rs[i]) \/ (i = Len(rs) + 1 /\ new[i] = r)
  BY DEF Appended
<1>2. \A i \in DOMAIN new : new[i].condor \in DOMAIN new
  BY <1>1 DEF Shape, Appended
<1>3. \A i \in DOMAIN new : new[i].from # 0 => Replaces(new, i)
  BY <1>1, ReplacesKept
<1>4. r.wing
  BY DEF Replaces, Appended
<1>5. \A i, j \in DOMAIN new :
        new[i].condor = new[j].condor =>
          /\ new[i].from = 0 /\ new[j].from = 0 /\ new[i].side = new[j].side => i = j
          /\ new[i].from # 0 /\ new[j].from # 0 => i = j
          /\ new[i].from # 0 /\ new[j].open => new[j].wing
  BY <1>1, <1>4 DEF Shape
<1>6. \A i, j \in DOMAIN new : new[i].open /\ new[j].open => new[i].condor = new[j].condor
  BY <1>1 DEF Shape
<1> QED BY <1>2, <1>3, <1>5, <1>6 DEF Shape

-----------------------------------------------------------------------------
(* The plan and the rows.                                                  *)

\* Nothing is open when a plan is made or an entry looked for; a plan that waits
\* for its second leg has sold the first, and what is open belongs to it.
PlanShape ==
  /\ plan.state = "DECIDED" \/ pc = "entry" => Open = {}
  /\ pc = "leg" => plan.state = "LEG1_FILLED"
  /\ plan.state = "LEG1_FILLED" =>
       /\ plan.condor \in DOMAIN rows
       /\ \A i \in DOMAIN rows :
            rows[i].condor = plan.condor => rows[i].side = plan.leg1 /\ rows[i].from = 0
       /\ \A i \in Open : rows[i].condor = plan.condor

LEMMA LegIsVertical ==
  ASSUME NEW s
  PROVE  /\ LegOf(s).side = s /\ LegOf(s).from = 0 /\ LegOf(s).open
         /\ LegOf(s).condor = IF plan.state = "DECIDED" THEN Len(rows) + 1 ELSE plan.condor
  BY DEF LegOf, Vertical

\* The triggers leave the rows alone or append the pending leg.
LEMMA TriggersAppend ==
  ASSUME PlanOK, RowsOK, MarketOK, CheckLegTriggers
  PROVE  \/ rows' = rows /\ plan' \in {plan, NoPlan, [plan EXCEPT !.state = "COMPLETE"]}
         \/ /\ FillLeg /\ LegCanFill(PendingSide)
            /\ Appended(rows, rows', LegOf(PendingSide))
<1>1. Len(rows) \in Nat /\ DOMAIN rows = 1..Len(rows)
  BY RowsAreRows DEF RowsOK
<1>2. CASE DropLeg \/ LegWaits
  BY <1>2 DEF DropLeg, DropPendingLeg, LegWaits, condorVars
<1>3. CASE Leg
  <2>1. LegCanFill(PendingSide) /\ FillLeg
    BY <1>3 DEF Leg
  <2>2. LegOf(PendingSide) \in Row /\ LegOf(PendingSide).from = 0 /\ LegOf(PendingSide).lots > 0
    <3>1. plan.condor \in Nat /\ PendingSide \in Sides
      BY <1>1 DEF PlanOK, PlanType, PendingSide, Other, Sides
    <3> QED BY <1>1, <2>1, <3>1, MarketHasChain, LegIsRow DEF PlanOK
  <2>3. rows' = Append(rows, LegOf(PendingSide))
    BY <2>1 DEF FillLeg
  <2>4. Appended(rows, rows', LegOf(PendingSide))
    BY <1>1, <2>2, <2>3, RowAppended DEF RowsOK, Appended
  <2> QED BY <2>1, <2>4
<1> QED BY <1>2, <1>3 DEF CheckLegTriggers

LEMMA TriggersKeepShape ==
  ASSUME PlanOK, RowsOK, MarketOK, Shape(rows), PlanShape, HasActivePlan, CheckLegTriggers,
         pc' \notin {"leg", "entry"}
  PROVE  Shape(rows') /\ PlanShape'
<1> DEFINE r == LegOf(PendingSide)
<1>1. plan.leg1 \in Sides /\ plan.state \in PlanStates
  BY DEF PlanOK, PlanType
<1>2. CASE rows' = rows /\ plan' \in {plan, NoPlan, [plan EXCEPT !.state = "COMPLETE"]}
  <2>1. Open' = Open
    BY <1>2 DEF Open
  <2>2. plan' = plan \/ plan'.state \in {"NONE", "COMPLETE"}
    <3>1. plan \in [state : PlanStates, leg1 : Sides, condor : (1..Len(rows)) \cup {0}]
      BY DEF PlanOK, PlanType
    <3> QED BY <1>2, <3>1 DEF NoPlan
  <2> QED BY <1>2, <2>1, <2>2 DEF PlanShape
<1>3. CASE FillLeg /\ LegCanFill(PendingSide) /\ Appended(rows, rows', r)
  <2> HIDE DEF r
  <2>1. /\ r.side = PendingSide /\ r.from = 0 /\ r.open
        /\ r.condor = IF plan.state = "DECIDED" THEN Len(rows) + 1 ELSE plan.condor
    BY LegIsVertical DEF r
  <2>2. \A i \in DOMAIN rows' : (i \in DOMAIN rows /\ rows'[i] = rows[i]) \/ (i = Len(rows) + 1 /\ rows'[i] = r)
    BY <1>3 DEF Appended
  <2>3. CASE plan.state = "DECIDED"
    <3>1. Open = {} /\ r.condor = Len(rows) + 1 /\ r.side = plan.leg1
      BY <2>1, <2>3 DEF PlanShape, PendingSide
    <3>2. \A i \in DOMAIN rows : ~rows[i].open /\ rows[i].condor # r.condor
      BY <1>3, <3>1 DEF Open, Shape, Appended
    <3>3. r.condor \in DOMAIN rows'
      BY <1>3, <3>1 DEF Appended
    <3>4. Shape(rows')
      BY <1>3, <2>1, <3>2, <3>3, ShapeOfLeg
    <3>5. plan' = [plan EXCEPT !.state = "LEG1_FILLED", !.condor = Len(rows) + 1]
      BY <1>3, <2>3 DEF FillLeg, NotifyLegFilled
    <3>6. plan'.state = "LEG1_FILLED" /\ plan'.condor = r.condor /\ plan'.leg1 = plan.leg1
      <4>1. plan \in [state : PlanStates, leg1 : Sides, condor : (1..Len(rows)) \cup {0}]
        BY DEF PlanOK, PlanType
      <4> QED BY <3>1, <3>5, <4>1
    <3>7. \A i \in DOMAIN rows' :
            /\ rows'[i].condor = r.condor => rows'[i].side = plan.leg1 /\ rows'[i].from = 0
            /\ rows'[i].open => rows'[i].condor = r.condor
      BY <2>1, <2>2, <3>1, <3>2
    <3> QED BY <3>3, <3>4, <3>6, <3>7 DEF PlanShape, Open
  <2>4. CASE plan.state = "LEG1_FILLED"
    <3>1. r.condor = plan.condor /\ r.side = Other(plan.leg1) /\ Other(plan.leg1) # plan.leg1
      BY <1>1, <2>1, <2>4 DEF PendingSide, Other, Sides
    <3>2. \A i \in DOMAIN rows : rows[i].condor = r.condor => rows[i].side # r.side /\ rows[i].from = 0
      BY <2>4, <3>1 DEF PlanShape
    <3>3. \A i \in DOMAIN rows : rows[i].open => rows[i].condor = r.condor
      BY <2>4, <3>1 DEF PlanShape, Open
    <3>4. r.condor \in DOMAIN rows'
      BY <1>3, <2>4, <3>1 DEF PlanShape, Appended
    <3>5. Shape(rows')
      BY <1>3, <2>1, <3>2, <3>3, <3>4, ShapeOfLeg
    <3>6. plan'.state = "COMPLETE"
      <4>1. plan \in [state : PlanStates, leg1 : Sides, condor : (1..Len(rows)) \cup {0}]
        BY DEF PlanOK, PlanType
      <4> QED BY <1>3, <2>4, <4>1 DEF FillLeg, NotifyLegFilled
    <3> QED BY <3>5, <3>6 DEF PlanShape
  <2> QED BY <2>3, <2>4 DEF HasActivePlan
<1> QED BY <1>2, <1>3, TriggersAppend

\* What is open, or belongs to a structure, after rows were marked and closed.
LEMMA PlanShapeKept ==
  ASSUME PlanShape, Kept(rows, rows'), plan' = plan, pc' # "entry",
         pc' = "leg" => plan.state = "LEG1_FILLED"
  PROVE  PlanShape'
<1>1. DOMAIN rows' = DOMAIN rows /\ \A i \in DOMAIN rows : Held(rows[i], rows'[i])
  BY DEF Kept
<1>2. Open' \subseteq Open
  BY <1>1 DEF Open, Held
<1>3. \A i \in DOMAIN rows : /\ rows'[i].condor = rows[i].condor /\ rows'[i].side = rows[i].side
                             /\ rows'[i].from = rows[i].from
  BY <1>1 DEF Held
<1>4. \A i \in Open : i \in DOMAIN rows
  BY DEF Open
<1> QED BY <1>1, <1>2, <1>3, <1>4 DEF PlanShape

\* A plan that still waits for a leg is not rolled.
LEMMA RollNeedsBothSides ==
  ASSUME PlanOK, PlanShape, NEW t \in Open, NEW u \in Open, rows[t].side = Other(rows[u].side)
  PROVE  plan.state \notin {"DECIDED", "LEG1_FILLED"}
<1>1. Open # {} /\ t \in DOMAIN rows /\ u \in DOMAIN rows
  BY DEF Open
<1>2. plan.state # "DECIDED"
  BY <1>1 DEF PlanShape
<1>3. plan.leg1 \in Sides
  BY DEF PlanOK, PlanType
<1>4. plan.state # "LEG1_FILLED"
  BY <1>1, <1>3 DEF PlanShape, Other, Sides
<1> QED BY <1>2, <1>4

LEMMA RolledWidth ==
  ASSUME NEW u \in Row, NEW k \in Strikes
  PROVE  Distance(k, RolledLong(u, k)) = Width(u) /\ Width(u) \in Nat
<1> DEFINE w == Width(u)
<1>1. k \in Int /\ w \in Nat
  <2>1. u.short \in Int /\ u.long \in Int
    BY DEF Row
  <2> QED BY <2>1, LiquidIsStrikes, DistanceIsNatural DEF Width
<1>2. RolledLong(u, k) \in {k - w, k + w}
  BY DEF RolledLong
<1> HIDE DEF w
<1> QED BY <1>1, <1>2 DEF Distance, w

\* A roll puts a final row in the place of the one it closes, and of what is
\* open only that one and the tested row are there.
LEMMA RollKeepsShape ==
  ASSUME PlanOK, RowsOK, MarketOK, Shape(rows), NEW t \in Open, NEW u \in Open, MayRoll(t, u),
         NEW k \in Strikes, IsRoll(rows[t], rows[u], k), ExecuteRoll(t, u, k)
  PROVE  Shape(rows')
<1>1. /\ t \in DOMAIN rows /\ u \in DOMAIN rows /\ rows[t].open /\ rows[u].open /\ t # u
      /\ rows[t] \in Row /\ rows[u] \in Row /\ Len(rows) \in Nat /\ DOMAIN rows = 1..Len(rows)
  BY RowsAreRows DEF Open, RowsOK, MayRoll
<1>2. rows[t].side = Other(rows[u].side) /\ ~rows[t].wing /\ ~rows[u].wing
  BY DEF MayRoll
<1>3. /\ DOMAIN rows' = DOMAIN rows \cup {Len(rows) + 1}
      /\ rows'[u] = Closed(rows[u], CloseCost(rows[u]))
      /\ rows'[t] = [rows[t] EXCEPT !.wing = TRUE]
      /\ rows'[Len(rows) + 1] = Rolled(t, u, k)
      /\ \A i \in DOMAIN rows : Held(rows[i], rows'[i]) /\ (i # u /\ i # t => rows'[i] = rows[i])
  <2>1. Typed(rows) /\ Covers(rows) /\ chain \in Chain
    BY MarketHasChain DEF RowsOK
  <2>2. t # u
    BY <1>1
  <2>3. Swapped(t, u, k)
    BY <2>1, <2>2, RollIsCovered
  <2> QED BY <2>3 DEF Swapped
<1> DEFINE c   == rows[u].condor
           old == [i \in DOMAIN rows |-> rows'[i]]
           n   == Len(rows) + 1
<1>4. rows[t].condor = c /\ c \in DOMAIN rows
  BY <1>1 DEF Shape
<1>5. \A i \in DOMAIN rows : rows[i].condor = c => rows[i].from = 0
  BY <1>1, <1>2, <1>4 DEF Shape
<1>6. \A i \in DOMAIN rows : rows[i].open => rows[i].condor = c /\ i \in {t, u}
  <2> SUFFICES ASSUME NEW i \in DOMAIN rows, rows[i].open
               PROVE  rows[i].condor = c /\ i \in {t, u}
    OBVIOUS
  <2>1. rows[i].condor = c
    BY <1>1 DEF Shape
  <2>2. rows[i].from = 0 /\ rows[t].from = 0 /\ rows[u].from = 0
    BY <1>1, <1>4, <1>5, <2>1
  <2>3. rows[i].side = rows[u].side \/ rows[i].side = rows[t].side
    <3>1. rows[i].side \in Sides /\ rows[u].side \in Sides
      <4>1. rows[i] \in Row
        BY RowsAreRows DEF RowsOK
      <4> QED BY <1>1, <4>1 DEF Row
    <3> QED BY <1>2, <3>1 DEF Other, Sides
  <2> QED BY <1>1, <1>4, <2>1, <2>2, <2>3 DEF Shape
<1>7. Kept(rows, old)
  BY <1>3 DEF Kept
<1>8. Shape(old)
  <2> HIDE DEF old
  <2> QED BY <1>7, ShapeKept
<1>9. /\ Rolled(t, u, k).from = u /\ Rolled(t, u, k).wing /\ Rolled(t, u, k).side = rows[u].side
      /\ Rolled(t, u, k).condor = c /\ Rolled(t, u, k).lots = rows[u].lots
      /\ Rolled(t, u, k).short = k /\ Rolled(t, u, k).long = RolledLong(rows[u], k)
  BY DEF Rolled, Vertical
<1>10. Width(Rolled(t, u, k)) = Width(rows[u])
  BY <1>1, <1>9, RolledWidth DEF Width
<1>11. ~rows'[u].open /\ rows'[u].from = 0 /\ rows'[u].side = rows[u].side /\ rows'[u].condor = c
       /\ rows'[u].lots = rows[u].lots /\ Width(rows'[u]) = Width(rows[u])
  <2>1. Held(rows[u], rows'[u])
    BY <1>1, <1>3
  <2>2. ~rows'[u].open
    <3>1. Closed(rows[u], CloseCost(rows[u])).open = FALSE
      BY <1>1 DEF Closed, Row
    <3> QED BY <1>3, <3>1
  <2> QED BY <1>1, <1>5, <2>1, <2>2 DEF Held, Width
<1>12. Len(old) = Len(rows) /\ n \notin DOMAIN rows
  <2>1. \A i \in DOMAIN rows : old[i] \in Row
    <3>1. \A i \in DOMAIN rows' : rows'[i] \in Row
      BY <1>1, MarketHasChain, RollIsCovered, RowsAreRows DEF RowsOK
    <3> QED BY <1>3, <3>1
  <2>2. old \in Seq(Row) /\ Len(old) = Len(rows)
    <3>1. old \in [1..Len(rows) -> Row]
      BY <1>1, <2>1
    <3> HIDE DEF old
    <3> QED BY <1>1, <3>1
  <2> QED BY <1>1, <2>2
<1>13. Appended(old, rows', Rolled(t, u, k))
  BY <1>3, <1>12 DEF Appended
<1>14. Replaces(rows', n)
  BY <1>1, <1>3, <1>9, <1>10, <1>11 DEF Replaces
<1>15. \A i \in DOMAIN old : old[i].condor = c => old[i].from = 0
  BY <1>3, <1>5 DEF Held
<1>16. \A i \in DOMAIN old : old[i].open => old[i].condor = c /\ old[i].wing
  <2> SUFFICES ASSUME NEW i \in DOMAIN rows, rows'[i].open
               PROVE  rows'[i].condor = c /\ rows'[i].wing
    OBVIOUS
  <2>1. rows[i].open /\ rows'[i].condor = rows[i].condor
    BY <1>3 DEF Held
  <2>2. i = t
    BY <1>6, <1>11, <2>1
  <2>3. rows'[t].wing
    <3>1. [rows[t] EXCEPT !.wing = TRUE].wing
      BY <1>1 DEF Row
    <3> QED BY <1>3, <3>1
  <2> QED BY <1>4, <2>1, <2>2, <2>3
<1>17. Rolled(t, u, k).from # 0 /\ Rolled(t, u, k).condor = c /\ c \in DOMAIN old
  BY <1>1, <1>4, <1>9
<1> HIDE DEF old
<1> QED BY <1>8, <1>12, <1>13, <1>14, <1>15, <1>16, <1>17, ShapeOfRoll

LEMMA ShapeStep ==
  ASSUME PlanOK, RowsOK, MarketOK, Shape(rows), PlanShape, [Next]_vars
  PROVE  Shape(rows') /\ PlanShape'
<1>1. CASE Manage
  <2>1. Kept(rows, rows')
    BY <1>1, ManageKeepsRows
  <2>2. plan' = plan /\ pc' # "entry" /\ (pc' = "leg" => plan.state = "LEG1_FILLED")
    BY <1>1 DEF Manage, ThenRoll, EndTick
  <2> QED BY <2>1, <2>2, ShapeKept, PlanShapeKept
<1>2. CASE NothingOpen
  <2>1. Open = {}
    BY <1>2 DEF NothingOpen, InUse, IsEmpty
  <2>2. rows' = rows /\ plan' = plan /\ pc' = "entry" /\ Open' = Open
    BY <1>2 DEF NothingOpen, condorVars, Open
  <2> QED BY <2>1, <2>2 DEF PlanShape
<1>3. CASE LegStage
  <2>1. CheckLegTriggers /\ HasActivePlan /\ pc' \notin {"leg", "entry"}
    BY <1>3 DEF LegStage, PlanShape, HasActivePlan, ThenRoll, EndTick
  <2> QED BY <2>1, TriggersKeepShape
<1>4. CASE Roll
  <2>1. PICK t \in listed, u \in listed, k \in Strikes :
          MayRoll(t, u) /\ IsRoll(rows[t], rows[u], k) /\ ExecuteRoll(t, u, k)
    BY <1>4 DEF Roll
  <2>2. t \in Open /\ u \in Open /\ rows[t].side = Other(rows[u].side)
    BY <2>1 DEF MayRoll, RowsOK
  <2>3. Shape(rows')
    BY <2>1, <2>2, RollKeepsShape
  <2>4. plan' = plan /\ pc' = "idle"
    BY <1>4 DEF Roll, EndTick
  <2>5. plan.state \notin {"DECIDED", "LEG1_FILLED"}
    BY <2>2, RollNeedsBothSides
  <2> QED BY <2>3, <2>4, <2>5 DEF PlanShape
<1>5. CASE EnterFly
  <2>1. pc' \notin {"leg", "entry"}
    BY <1>5 DEF EnterFly, EndTick
  <2>2. CASE HasActivePlan
    <3>1. CheckLegTriggers
      BY <1>5, <2>2 DEF EnterFly
    <3> QED BY <2>1, <2>2, <3>1, TriggersKeepShape
  <2>3. CASE ~HasActivePlan
    <3>1. rows' = rows /\ plan' = plan /\ Open' = Open
      BY <1>5, <2>3 DEF EnterFly, condorVars, Open
    <3> QED BY <2>1, <3>1 DEF PlanShape
  <2> QED BY <2>2, <2>3
<1>6. CASE EnterCondor
  <2>1. pc' \notin {"leg", "entry"} /\ Open = {}
    BY <1>6 DEF EnterCondor, EndTick, PlanShape
  <2>2. CASE HasActivePlan
    <3>1. CheckLegTriggers
      BY <1>6, <2>2 DEF EnterCondor
    <3> QED BY <2>1, <2>2, <3>1, TriggersKeepShape
  <2>3. CASE ~HasActivePlan
    <3>1. rows' = rows /\ Open' = Open
      BY <1>6, <2>3 DEF EnterCondor, condorVars, Open
    <3>2. plan' = plan \/ plan'.state \in {"NONE", "DECIDED"}
      <4>1. CASE market.regime = "RANGING"
        <5>1. PICK s \in Sides \cup {"none"} : Decide(market.regime, slot, 1, s)
          <6>1. PICK b \in Bands :
                  Decide(market.regime, slot, 1,
                         IF Calm /\ PlanIsUsable(b) THEN FirstSide(PlanStrikes(b)) ELSE "none")
            BY <1>6, <2>3, <4>1 DEF EnterCondor
          <6>2. FirstSide(PlanStrikes(b)) \in Sides
            BY DEF FirstSide, Sides
          <6> QED BY <6>1, <6>2
        <5>2. [NoPlan EXCEPT !.state = "DECIDED", !.leg1 = s].state = "DECIDED" /\ NoPlan.state = "NONE"
          BY DEF NoPlan
        <5> QED BY <5>1, <5>2 DEF Decide, PlanAfterReset
      <4>2. CASE market.regime # "RANGING"
        BY <1>6, <2>3, <4>2 DEF EnterCondor, condorVars
      <4> QED BY <4>1, <4>2
    <3> QED BY <2>1, <3>1, <3>2 DEF PlanShape
  <2> QED BY <2>2, <2>3
<1>7. CASE Flatten
  <2>1. Kept(rows, rows')
    BY <1>7, FlattenKeepsRows
  <2>2. plan' = plan /\ pc' = "idle"
    BY <1>7 DEF Flatten
  <2> QED BY <2>1, <2>2, ShapeKept, PlanShapeKept
<1>8. CASE Restart
  <2>1. Kept(rows, rows')
    BY <1>8, RestartKeepsRows
  <2>2. plan'.state = "NONE" /\ pc' = "idle"
    BY <1>8 DEF Restart, NoPlan, EndTick
  <2> QED BY <2>1, <2>2, ShapeKept DEF PlanShape
<1>9. CASE \/ Refresh \/ NoRoll \/ PaperFly \/ PlaceFly \/ PlaceFails \/ CancelFly \/ BrokerFills \/ Advance
           \/ UNCHANGED vars
  <2>1. rows' = rows /\ plan' = plan /\ Open' = Open
    BY <1>9 DEF Refresh, NoRoll, PaperFly, PlaceFly, PlaceFails, CancelFly, BrokerFills, Advance, vars,
       condorVars, Open
  <2>2. pc' = pc \/ pc' \notin {"leg", "entry"}
    BY <1>9 DEF Refresh, NoRoll, PaperFly, PlaceFly, PlaceFails, CancelFly, BrokerFills, Advance, vars,
       BookFly, NoFill, EndTick
  <2> QED BY <2>1, <2>2 DEF PlanShape
<1> QED BY <1>1, <1>2, <1>3, <1>4, <1>5, <1>6, <1>7, <1>8, <1>9 DEF Next

-----------------------------------------------------------------------------
(* What a paper row may lose.                                              *)

\* Nothing a row is marked or booked at is above its width.
Bounded(r) ==
  r.credit <= Width(r) /\ r.exit <= Width(r) /\ r.mark <= Width(r) /\ r.known <= Width(r)

\* The most a leg can lose is its half of the risk.
Budgeted(r) == 2 * (r.lots * (Width(r) - r.credit)) <= Risk

\* A row that takes another's place was sold for at least what that one cost.
Solvent(rs) ==
  /\ \A i \in DOMAIN rs : Bounded(rs[i])
  /\ \A i \in DOMAIN rs : rs[i].from = 0 => Budgeted(rs[i])
  /\ \A i \in DOMAIN rs : rs[i].from # 0 => rs[rs[i].from].exit <= rs[i].credit

LEMMA SolventKept ==
  ASSUME NEW rs, Shape(rs), Solvent(rs), NEW new, Kept(rs, new), \A i \in DOMAIN new : Bounded(new[i])
  PROVE  Solvent(new)
<1>1. DOMAIN new = DOMAIN rs /\ \A i \in DOMAIN rs : Held(rs[i], new[i])
  BY DEF Kept
<1>2. ASSUME NEW i \in DOMAIN rs, new[i].from = 0 PROVE Budgeted(new[i])
  <2>1. Held(rs[i], new[i])
    BY <1>1
  <2> QED BY <1>2, <2>1 DEF Held, Solvent, Budgeted, Width
<1>3. ASSUME NEW i \in DOMAIN rs, new[i].from # 0 PROVE new[new[i].from].exit <= new[i].credit
  <2>1. Held(rs[i], new[i]) /\ new[i].from = rs[i].from /\ rs[i].from # 0
    BY <1>1, <1>3 DEF Held
  <2>2. rs[i].from \in DOMAIN rs /\ ~rs[rs[i].from].open
    BY <2>1 DEF Shape, Replaces
  <2>3. new[rs[i].from].exit = rs[rs[i].from].exit
    BY <1>1, <2>2 DEF Held
  <2> QED BY <2>1, <2>3 DEF Held, Solvent
<1> QED BY <1>1, <1>2, <1>3 DEF Solvent

LEMMA SolventAppended ==
  ASSUME NEW rs, Shape(rs), Solvent(rs), NEW r, NEW new, Appended(rs, new, r), Bounded(r),
         r.from = 0 => Budgeted(r),
         r.from # 0 => r.from \in DOMAIN rs /\ rs[r.from].exit <= r.credit
  PROVE  Solvent(new)
<1>1. \A i \in DOMAIN new : (i \in DOMAIN rs /\ new[i] = rs[i]) \/ (i = Len(rs) + 1 /\ new[i] = r)
  BY DEF Appended
<1>2. \A i \in DOMAIN new : Bounded(new[i]) /\ (new[i].from = 0 => Budgeted(new[i]))
  BY <1>1 DEF Solvent
<1>3. ASSUME NEW i \in DOMAIN new, new[i].from # 0 PROVE new[new[i].from].exit <= new[i].credit
  <2>1. CASE i \in DOMAIN rs /\ new[i] = rs[i]
    <3>1. rs[i].from \in DOMAIN rs
      BY <1>3, <2>1 DEF Shape, Replaces
    <3>2. new[rs[i].from] = rs[rs[i].from]
      BY <3>1 DEF Appended
    <3> QED BY <1>3, <2>1, <3>2 DEF Solvent
  <2>2. CASE new[i] = r
    <3>1. r.from \in DOMAIN rs /\ new[r.from] = rs[r.from]
      BY <1>3, <2>2 DEF Appended
    <3> QED BY <1>3, <2>2, <3>1
  <2> QED BY <1>1, <2>1, <2>2
<1> QED BY <1>2, <1>3 DEF Solvent

LEMMA MarketIsFair ==
  ASSUME FairChains, MarketOK
  PROVE  NoArbitrage(chain)
<1>1. NoArbitrage(NoMarket.chain)
  <2>1. ASSUME NEW s \in Sides PROVE Liquid(NoMarket.chain, s) = {}
    <3>1. CASE s = "call"
      BY <3>1 DEF NoMarket, Liquid
    <3>2. CASE s = "put"
      BY <3>2 DEF NoMarket, Liquid
    <3> QED BY <3>1, <3>2 DEF Sides
  <2> QED BY <2>1 DEF NoArbitrage
<1>2. market.chain \in Chains \cup {NoMarket.chain}
  BY DEF MarketOK
<1> QED BY <1>1, <1>2 DEF FairChains, chain

\* The mark of the pass over the positions.
LEMMA PremiumIsBounded ==
  ASSUME ~live, NEW c \in Chain, NoArbitrage(c), NEW m \in Row, Bounded(m), NEW quote
  PROVE  Premium(c, m, quote) <= Width(m)
<1>1. m.side \in Sides
  BY DEF Row
<1>2. Priced(c, m.side, {m.short, m.long}) => Spread(c, m.side, m.short, m.long) <= Width(m)
  BY <1>1 DEF Priced, NoArbitrage, Width
<1>3. StandIn(m, quote) <= Width(m)
  BY DEF StandIn, Bounded
<1> QED BY <1>2, <1>3 DEF Premium

LEMMA RecordedIsBounded ==
  ASSUME NEW r \in Row, Bounded(r), NEW m \in Recorded(r)
  PROVE  Bounded(m)
  BY DEF Recorded, Bounded, Width, Row

LEMMA ClosedIsBounded ==
  ASSUME NEW m \in Row, Bounded(m), NEW p \in Int, p <= Width(m)
  PROVE  Bounded(Closed(m, p))
<1>1. Width(m) \in Nat
  <2>1. m.short \in Int /\ m.long \in Int
    BY DEF Row
  <2> QED BY <2>1, DistanceIsNatural DEF Width
<1>2. /\ Closed(m, p).exit = p /\ Closed(m, p).mark = 0 /\ Closed(m, p).known = 0
      /\ Closed(m, p).short = m.short /\ Closed(m, p).long = m.long /\ Closed(m, p).credit = m.credit
  BY DEF Closed, Row
<1> QED BY <1>1, <1>2 DEF Bounded, Width

LEMMA ManagedIsBounded ==
  ASSUME ~live, NEW c \in Chain, NoArbitrage(c), NEW regime, NEW r \in Row, Bounded(r),
         NEW m \in Recorded(r), NEW quote \in Int, NEW refused
  PROVE  Bounded(Managed(c, regime, m, quote, refused))
<1> DEFINE p == Premium(c, m, quote)
<1>1. m \in Row /\ Bounded(m) /\ p \in Int /\ p <= Width(m)
  BY RecordedIsRow, RecordedIsBounded, PremiumIsNumber, PremiumIsBounded
<1>2. Managed(c, regime, m, quote, refused) \in {m, Closed(m, p), [m EXCEPT !.mark = p]}
  BY DEF Managed, Mark
<1> HIDE DEF p
<1>3. Bounded([m EXCEPT !.mark = p])
  BY <1>1 DEF Bounded, Width, Row
<1> QED BY <1>1, <1>2, <1>3, ClosedIsBounded

\* What is marked, closed, flattened or read back stays within its width.
LEMMA PassIsBounded ==
  ASSUME PlanOK, RowsOK, MarketOK, ~live, FairChains, \A i \in DOMAIN rows : Bounded(rows[i]),
         Manage \/ Flatten \/ Restart
  PROVE  \A i \in DOMAIN rows' : Bounded(rows'[i])
<1>1. \A i \in DOMAIN rows : rows[i] \in Row
  BY RowsAreRows DEF RowsOK
<1>2. CASE Manage
  <2>1. PICK m \in [chain : Chains, regime : Regimes], quote \in [InUse -> Quotes], refused \in Refusals :
          rows' = [i \in DOMAIN rows |->
                     IF i \in InUse
                     THEN Managed(m.chain, m.regime, Records[i], quote[i], i \in refused)
                     ELSE rows[i]]
    BY <1>2 DEF Manage
  <2>2. m.chain \in Chain /\ NoArbitrage(m.chain) /\ \A i \in InUse : quote[i] \in Int
    <3>1. Chains \subseteq Chain /\ Quotes \subseteq Int
      BY DayAssumption DEF DayAssumption
    <3> QED BY <3>1 DEF FairChains
  <2>3. ASSUME NEW i \in InUse
        PROVE  Bounded(Managed(m.chain, m.regime, Records[i], quote[i], i \in refused))
    <3>1. i \in DOMAIN rows /\ rows[i] \in Row /\ Records[i] \in Recorded(rows[i]) /\ Bounded(rows[i])
      BY InUseIsOpen
    <3> QED BY <2>2, <3>1, ManagedIsBounded
  <2> QED BY <2>1, <2>3
<1>3. CASE Flatten
  <2> DEFINE p(i, q) == LET x == StandIn(Records[i], q) IN IF x > 0 THEN x ELSE rows[i].credit
  <2>1. PICK quote \in [InUse -> Quotes], refused \in Refusals :
          rows' = [i \in DOMAIN rows |->
                     IF i \in InUse \ refused THEN Closed(rows[i], p(i, quote[i])) ELSE rows[i]]
    BY <1>3 DEF Flatten
  <2>2. ASSUME NEW i \in InUse, NEW q PROVE Bounded(Closed(rows[i], p(i, q)))
    <3>1. rows[i] \in Row /\ Records[i] \in Recorded(rows[i]) /\ Bounded(rows[i])
      BY InUseIsOpen
    <3>2. Records[i] \in Row /\ Bounded(Records[i]) /\ Width(Records[i]) = Width(rows[i])
      BY <3>1, RecordedIsRow, RecordedIsBounded DEF Held, Width
    <3>3. p(i, q) \in Int /\ p(i, q) <= Width(rows[i])
      BY <3>1, <3>2 DEF StandIn, Bounded, Row
    <3> HIDE DEF p
    <3> QED BY <3>1, <3>3, ClosedIsBounded
  <2> HIDE DEF p
  <2> QED BY <2>1, <2>2
<1>4. CASE Restart
  <2>1. rows' = [i \in DOMAIN rows |-> [rows[i] EXCEPT !.known = rows[i].mark]]
    BY <1>4 DEF Restart, Loaded
  <2>2. \A i \in DOMAIN rows : [rows[i] EXCEPT !.known = rows[i].mark] \in Recorded(rows[i])
    BY DEF Recorded
  <2> QED BY <1>1, <2>1, <2>2, RecordedIsBounded
<1> QED BY <1>2, <1>3, <1>4

\* A leg is sized so that its width, less its credit, stays within half the risk.
LEMMA LegIsBudgeted ==
  ASSUME NEW s \in Sides, chain \in Chain, LegCanFill(s), strikes \in [Sides -> [short : Int, long : Int]]
  PROVE  Bounded(LegOf(s)) /\ Budgeted(LegOf(s))
<1> DEFINE short  == Contract(chain, s, strikes[s].short)
           long   == Contract(chain, s, strikes[s].long)
           credit == Spread(chain, s, short, long)
           w      == Distance(short, long)
<1>1. short \in Strikes /\ long \in Strikes
  <2>1. strikes[s].short \in Int /\ strikes[s].long \in Int
    OBVIOUS
  <2> QED BY <2>1, ContractIsLiquid, LiquidIsStrikes DEF LegCanFill
<1>2. credit \in Int /\ w \in Nat
  <2>1. credit \in Int
    BY <1>1, SpreadIsNumber
  <2> QED BY <1>1, <2>1, LiquidIsStrikes, DistanceIsNatural
<1>3. /\ LegOf(s).short = short /\ LegOf(s).long = long /\ LegOf(s).credit = credit
      /\ LegOf(s).lots = LegLots(w, credit)
      /\ LegOf(s).exit = 0 /\ LegOf(s).mark = 0 /\ LegOf(s).known = 0
  BY DEF LegOf, Vertical
<1>4. LegOf(s).lots >= 1
  BY DEF LegCanFill
<1>5. Width(LegOf(s)) = w
  BY <1>3 DEF Width
<1> HIDE DEF short, long, credit, w
<1>6. ~(w <= credit) /\ LegLots(w, credit) = Risk \div (2 * (w - credit))
  BY <1>3, <1>4 DEF LegLots
<1> DEFINE b == 2 * (w - credit)
           q == Risk \div b
<1>7. q \in Nat /\ b * q <= Risk
  <2>1. b \in Nat \ {0} /\ Risk \in Nat
    BY <1>2, <1>6, CondorAssumption DEF CondorAssumption
  <2> HIDE DEF b
  <2> QED BY <2>1, Quotient
<1>8. 2 * (q * (w - credit)) = b * q
  <2> HIDE DEF q
  <2> QED BY <1>2, <1>7
<1>9. Budgeted(LegOf(s))
  <2>1. LegOf(s).lots = q
    BY <1>3, <1>6
  <2> HIDE DEF q, b
  <2> QED BY <1>3, <1>5, <1>7, <1>8, <2>1 DEF Budgeted
<1>10. Bounded(LegOf(s))
  BY <1>2, <1>3, <1>5, <1>6 DEF Bounded
<1> QED BY <1>9, <1>10

\* At marks nobody can arbitrage, what a roll sells is worth at least what it
\* buys back: the new vertical has the width of the old and is nearer the money.
LEMMA RollIsPaid ==
  ASSUME chain \in Chain, NoArbitrage(chain), NEW t, NEW u \in Row, NEW k \in Strikes, IsRoll(t, u, k)
  PROVE  /\ CloseCost(u) \in Int /\ CloseCost(u) <= RollCredit(u, k)
         /\ CloseCost(u) <= Width(u) /\ RollCredit(u, k) <= Width(u)
<1> DEFINE s  == u.side
           kl == RolledLong(u, k)
           w  == Width(u)
<1>1. s \in Sides /\ {u.short, u.long, k, kl} \subseteq Liquid(chain, s)
  BY DEF IsRoll, RiskFree, Priced, Row
<1>2. {u.short, u.long, k, kl} \subseteq Int
  BY <1>1, LiquidIsStrikes
<1>3. w \in Nat /\ RollCredit(u, k) > 0
  BY <1>2, DistanceIsNatural DEF Width, IsRoll, RiskFree
<1>4. /\ Spread(chain, s, u.short, u.long) \in Int /\ Spread(chain, s, k, kl) \in Int
  BY <1>1, SpreadIsNumber, LiquidIsStrikes
<1>5. RollCredit(u, k) = Spread(chain, s, k, kl)
  BY DEF RollCredit
<1>6. Beyond(s, u.short, k)
  BY <1>1, <1>2 DEF IsRoll, Toward, Beyond, Sides
<1>7. kl = IF s = "put" THEN k - w ELSE k + w
  BY DEF RolledLong
<1>8. Distance(k, kl) = w
  BY <1>2, <1>3, <1>7 DEF Distance
<1>9. RollCredit(u, k) <= w /\ Spread(chain, s, u.short, u.long) <= w
  BY <1>1, <1>5, <1>8 DEF NoArbitrage, Width
<1>10. Spread(chain, s, u.short, u.long) <= RollCredit(u, k)
  <2>1. CASE Beyond(s, u.long, u.short)
    <3>1. w > 0
      BY <1>2, <2>1 DEF Beyond, Width, Distance
    <3>2. Beyond(s, kl, k)
      BY <1>1, <1>2, <1>3, <1>7, <3>1 DEF Beyond, Sides
    <3> QED BY <1>1, <1>5, <1>6, <1>8, <2>1, <3>2 DEF NoArbitrage, Width
  <2>2. CASE ~Beyond(s, u.long, u.short)
    <3>1. u.long = u.short \/ Beyond(s, u.short, u.long)
      BY <1>2, <2>2 DEF Beyond
    <3>2. chain[s][u.short] <= chain[s][u.long]
      <4>1. chain[s][u.short] \in Nat /\ chain[s][u.long] \in Nat
        BY <1>1, LiquidIsStrikes, MarksAreNumbers
      <4> QED BY <1>1, <3>1, <4>1 DEF NoArbitrage
    <3>3. chain[s][u.short] \in Nat /\ chain[s][u.long] \in Nat
      BY <1>1, LiquidIsStrikes, MarksAreNumbers
    <3> QED BY <1>3, <1>4, <1>5, <3>2, <3>3 DEF Spread
  <2> QED BY <2>1, <2>2
<1>11. CloseCost(u) \in {0, Spread(chain, s, u.short, u.long)}
  BY DEF CloseCost
<1> HIDE DEF s, kl, w
<1> QED BY <1>3, <1>4, <1>5, <1>9, <1>10, <1>11 DEF w

LEMMA SolventStep ==
  ASSUME FairChains, PlanOK, RowsOK, MarketOK, Shape(rows), ~live => Solvent(rows), [Next]_vars, ~live
  PROVE  Solvent(rows')
<1>1. Solvent(rows) /\ \A i \in DOMAIN rows : Bounded(rows[i])
  BY DEF Solvent
<1>2. chain \in Chain /\ NoArbitrage(chain)
  BY MarketHasChain, MarketIsFair
<1>3. CASE Manage \/ Flatten \/ Restart
  <2>1. Kept(rows, rows')
    BY <1>3, ManageKeepsRows, FlattenKeepsRows, RestartKeepsRows
  <2> QED BY <1>1, <1>3, <2>1, PassIsBounded, SolventKept
<1>4. CASE Roll
  <2>1. PICK t \in listed, u \in listed, k \in Strikes :
          MayRoll(t, u) /\ IsRoll(rows[t], rows[u], k) /\ ExecuteRoll(t, u, k)
    BY <1>4 DEF Roll
  <2>2. t \in Open /\ u \in Open /\ t # u /\ Typed(rows) /\ Covers(rows)
    BY <2>1 DEF MayRoll, RowsOK
  <2>3. Swapped(t, u, k) /\ Typed(rows') /\ Len(rows') = Len(rows) + 1
    BY <1>2, <2>1, <2>2, RollIsCovered
  <2>4. /\ t \in DOMAIN rows /\ u \in DOMAIN rows /\ rows[t] \in Row /\ rows[u] \in Row
        /\ Len(rows) \in Nat /\ DOMAIN rows = 1..Len(rows)
    BY <2>2, RowsAreRows DEF Open
  <2>5. /\ CloseCost(rows[u]) \in Int /\ CloseCost(rows[u]) <= RollCredit(rows[u], k)
        /\ CloseCost(rows[u]) <= Width(rows[u]) /\ RollCredit(rows[u], k) <= Width(rows[u])
    BY <1>2, <2>1, <2>4, RollIsPaid
  <2> DEFINE old == [i \in DOMAIN rows |-> rows'[i]]
             r   == Rolled(t, u, k)
  <2>6. Kept(rows, old)
    BY <2>3 DEF Swapped, Kept
  <2>7. \A i \in DOMAIN rows : Bounded(rows'[i])
    <3>1. Bounded(rows'[u])
      BY <1>1, <2>3, <2>4, <2>5, ClosedIsBounded DEF Swapped
    <3>2. Bounded(rows'[t])
      BY <1>1, <2>3, <2>4 DEF Swapped, Bounded, Width, Row
    <3> QED BY <1>1, <2>3, <3>1, <3>2 DEF Swapped
  <2>8. Solvent(old) /\ Shape(old)
    <3>1. \A i \in DOMAIN old : Bounded(old[i])
      BY <2>7
    <3> HIDE DEF old
    <3> QED BY <1>1, <2>6, <3>1, SolventKept, ShapeKept
  <2>9. Appended(old, rows', r)
    <3>1. Len(old) = Len(rows)
      <4>1. old \in [1..Len(rows) -> Row]
        <5>1. \A i \in DOMAIN rows' : rows'[i] \in Row
          BY <2>3, RowsAreRows
        <5> QED BY <2>3, <2>4, <5>1 DEF Swapped
      <4> HIDE DEF old
      <4> QED BY <2>4, <4>1
    <3>2. Len(rows) + 1 \notin DOMAIN rows
      BY <2>4
    <3> QED BY <2>3, <3>1, <3>2 DEF Swapped, Appended
  <2>10. /\ r.credit = RollCredit(rows[u], k) /\ r.exit = 0 /\ r.mark = 0 /\ r.known = 0 /\ r.from = u
         /\ r.short = k /\ r.long = RolledLong(rows[u], k)
    BY DEF Rolled, Vertical
  <2>11. Width(r) = Width(rows[u]) /\ Width(rows[u]) \in Nat
    BY <2>1, <2>4, <2>10, RolledWidth DEF Width
  <2>12. old[u].exit = CloseCost(rows[u]) /\ u \in DOMAIN old /\ u # 0
    <3>1. Closed(rows[u], CloseCost(rows[u])).exit = CloseCost(rows[u])
      <4>1. rows[u] \in Recorded(rows[u]) /\ rows[u].open
        BY <2>2 DEF Recorded, Open
      <4> QED BY <2>4, <2>5, <4>1, ClosedIsHeld
    <3> QED BY <2>3, <2>4, <3>1 DEF Swapped
  <2>13. Bounded(r)
    BY <2>5, <2>10, <2>11 DEF Bounded
  <2> HIDE DEF old, r
  <2> QED BY <2>5, <2>8, <2>9, <2>10, <2>12, <2>13, SolventAppended
<1>5. CASE LegStage \/ EnterFly \/ EnterCondor
  <2>1. rows' = rows \/ CheckLegTriggers
    BY <1>5 DEF LegStage, EnterFly, EnterCondor, condorVars
  <2>2. CASE CheckLegTriggers
    <3>1. \/ rows' = rows
          \/ LegCanFill(PendingSide) /\ Appended(rows, rows', LegOf(PendingSide))
      BY <2>2, TriggersAppend
    <3>2. PendingSide \in Sides
      BY DEF PlanOK, PlanType, PendingSide, Other, Sides
    <3>3. LegCanFill(PendingSide) => Bounded(LegOf(PendingSide)) /\ Budgeted(LegOf(PendingSide))
      BY <1>2, <3>2, LegIsBudgeted DEF PlanOK
    <3>4. LegOf(PendingSide).from = 0
      BY LegIsVertical
    <3> QED BY <1>1, <3>1, <3>3, <3>4, SolventAppended
  <2> QED BY <1>1, <2>1, <2>2
<1>6. CASE \/ Refresh \/ NothingOpen \/ NoRoll \/ PaperFly \/ PlaceFly \/ PlaceFails \/ CancelFly
           \/ BrokerFills \/ Advance \/ UNCHANGED vars
  <2>1. rows' = rows
    BY <1>6 DEF Refresh, NothingOpen, NoRoll, PaperFly, PlaceFly, PlaceFails, CancelFly, BrokerFills, Advance,
       vars, condorVars
  <2> QED BY <1>1, <2>1
<1> QED BY <1>3, <1>4, <1>5, <1>6 DEF Next

-----------------------------------------------------------------------------
(* What a side loses.                                                      *)

\* A sum over the rows of a side, which are none, one or two.
LEMMA ResultOfNone ==
  ASSUME NEW c, NEW side, NEW p,
         {i \in DOMAIN rows : rows[i].condor = c /\ rows[i].side = side} = {}
  PROVE  Result(c, side, p) = 0
<1> DEFINE S == {i \in DOMAIN rows : rows[i].condor = c /\ rows[i].side = side}
<1>1. S = {}
  OBVIOUS
<1> HIDE DEF S
<1> DEFINE D(it, s) == IF s = {} THEN 0
                       ELSE LET x == CHOOSE x \in s : TRUE IN Settled(x, p) + it[s \ {x}]
           g    == [s \in SUBSET S |-> 0]
           iter == CHOOSE it : it = [s \in SUBSET S |-> D(it, s)]
<1>2. g = [s \in SUBSET S |-> D(g, s)]
  BY <1>1
<1>3. iter = [s \in SUBSET S |-> D(iter, s)]
  <2> HIDE DEF D, g
  <2> QED BY <1>2
<1>4. Result(c, side, p) = iter[S]
  BY DEF Result, S, MapThenSumSet, MapThenFoldSet
<1> HIDE DEF iter
<1>5. iter[{}] = 0
  BY <1>3
<1> QED BY <1>1, <1>4, <1>5

LEMMA ResultOfOne ==
  ASSUME NEW c, NEW side, NEW p, NEW a,
         {i \in DOMAIN rows : rows[i].condor = c /\ rows[i].side = side} = {a}
  PROVE  Result(c, side, p) = Settled(a, p) + 0
<1> DEFINE S == {i \in DOMAIN rows : rows[i].condor = c /\ rows[i].side = side}
<1>1. S = {a}
  OBVIOUS
<1> HIDE DEF S
<1> DEFINE D(it, s) == IF s = {} THEN 0
                       ELSE LET x == CHOOSE x \in s : TRUE IN Settled(x, p) + it[s \ {x}]
           g    == [s \in SUBSET S |-> IF s = {} THEN 0 ELSE Settled(a, p) + 0]
           iter == CHOOSE it : it = [s \in SUBSET S |-> D(it, s)]
<1>2. g = [s \in SUBSET S |-> D(g, s)]
  <2>1. ASSUME NEW s \in SUBSET S PROVE g[s] = D(g, s)
    <3>1. CASE s = {}
      BY <3>1
    <3>2. CASE s # {}
      <4>1. (CHOOSE x \in s : TRUE) = a /\ s \ {a} = {}
        BY <1>1, <3>2
      <4> QED BY <3>2, <4>1
    <3> QED BY <3>1, <3>2
  <2> HIDE DEF D
  <2> QED BY <2>1
<1>3. iter = [s \in SUBSET S |-> D(iter, s)]
  <2> HIDE DEF D, g
  <2> QED BY <1>2
<1>4. Result(c, side, p) = iter[S]
  BY DEF Result, S, MapThenSumSet, MapThenFoldSet
<1> HIDE DEF iter
<1>5. iter[{}] = 0
  BY <1>3
<1>6. iter[S] = Settled(a, p) + iter[{}]
  <2>1. (CHOOSE x \in S : TRUE) = a /\ S \ {a} = {} /\ S \in SUBSET S /\ S # {}
    BY <1>1
  <2> QED BY <1>3, <2>1
<1> QED BY <1>4, <1>5, <1>6

LEMMA ResultOfTwo ==
  ASSUME NEW c, NEW side, NEW p, NEW a, NEW b, a # b,
         {i \in DOMAIN rows : rows[i].condor = c /\ rows[i].side = side} = {a, b},
         Settled(a, p) \in Int, Settled(b, p) \in Int
  PROVE  Result(c, side, p) = Settled(a, p) + Settled(b, p)
<1> DEFINE S == {i \in DOMAIN rows : rows[i].condor = c /\ rows[i].side = side}
<1>1. S = {a, b}
  OBVIOUS
<1> HIDE DEF S
<1> DEFINE D(it, s) == IF s = {} THEN 0
                       ELSE LET x == CHOOSE x \in s : TRUE IN Settled(x, p) + it[s \ {x}]
           G(s) == IF s = {} THEN 0
                   ELSE IF s = {a} THEN Settled(a, p) + 0
                   ELSE IF s = {b} THEN Settled(b, p) + 0
                   ELSE Settled(a, p) + Settled(b, p)
           g    == [s \in SUBSET S |-> G(s)]
           iter == CHOOSE it : it = [s \in SUBSET S |-> D(it, s)]
<1>2. g = [s \in SUBSET S |-> D(g, s)]
  <2>1. ASSUME NEW s \in SUBSET S PROVE g[s] = D(g, s)
    <3>1. CASE s = {}
      BY <3>1
    <3>2. CASE s = {a}
      <4>1. (CHOOSE x \in s : TRUE) = a /\ s \ {a} = {} /\ {} \in SUBSET S
        BY <1>1, <3>2
      <4>2. g[{}] = 0 /\ g[s] = Settled(a, p) + 0
        BY <3>2, <4>1
      <4> HIDE DEF g, G
      <4> QED BY <3>2, <4>1, <4>2
    <3>3. CASE s = {b}
      <4>1. (CHOOSE x \in s : TRUE) = b /\ s \ {b} = {} /\ {} \in SUBSET S
        BY <1>1, <3>3
      <4>2. g[{}] = 0 /\ g[s] = Settled(b, p) + 0
        BY <3>3, <4>1
      <4> HIDE DEF g, G
      <4> QED BY <3>3, <4>1, <4>2
    <3>4. CASE s = {a, b}
      <4>1. \/ (CHOOSE x \in s : TRUE) = a /\ s \ {a} = {b}
            \/ (CHOOSE x \in s : TRUE) = b /\ s \ {b} = {a}
        BY <3>4
      <4>2. /\ {a} \in SUBSET S /\ {b} \in SUBSET S /\ g[{a}] = Settled(a, p) /\ g[{b}] = Settled(b, p)
            /\ g[s] = Settled(a, p) + Settled(b, p)
        BY <1>1, <3>4
      <4>3. s # {}
        BY <3>4
      <4> DEFINE y == CHOOSE x \in s : TRUE
      <4> HIDE DEF g, G
      <4>4. D(g, s) = Settled(y, p) + g[s \ {y}]
        BY <4>3
      <4> HIDE DEF y, D
      <4>5. CASE y = a /\ s \ {y} = {b}
        BY <4>2, <4>4, <4>5
      <4>6. CASE y = b /\ s \ {y} = {a}
        <5>1. D(g, s) = Settled(b, p) + Settled(a, p)
          BY <4>2, <4>4, <4>6
        <5>2. Settled(b, p) + Settled(a, p) = Settled(a, p) + Settled(b, p)
          OBVIOUS
        <5> QED BY <4>2, <5>1, <5>2
      <4>7. (y = a /\ s \ {y} = {b}) \/ (y = b /\ s \ {y} = {a})
        BY <4>1 DEF y
      <4> QED BY <4>5, <4>6, <4>7
    <3>5. s = {} \/ s = {a} \/ s = {b} \/ s = {a, b}
      BY <1>1
    <3> QED BY <3>1, <3>2, <3>3, <3>4, <3>5
  <2> HIDE DEF D
  <2> QED BY <2>1
<1>3. iter = [s \in SUBSET S |-> D(iter, s)]
  <2> HIDE DEF D, g
  <2> QED BY <1>2
<1>4. Result(c, side, p) = iter[S]
  BY DEF Result, S, MapThenSumSet, MapThenFoldSet
<1> HIDE DEF iter
<1>5. iter[{}] = 0
  BY <1>3
<1>6. ASSUME NEW s \in SUBSET S, s # {}
      PROVE  iter[s] = Settled(CHOOSE x \in s : TRUE, p) + iter[s \ {CHOOSE x \in s : TRUE}]
  BY <1>3, <1>6
<1>7. iter[{a}] = Settled(a, p) /\ iter[{b}] = Settled(b, p)
  <2>1. (CHOOSE x \in {a} : TRUE) = a /\ {a} \ {a} = {} /\ {a} \in SUBSET S /\ {a} # {}
    BY <1>1
  <2>2. (CHOOSE x \in {b} : TRUE) = b /\ {b} \ {b} = {} /\ {b} \in SUBSET S /\ {b} # {}
    BY <1>1
  <2>3. ASSUME NEW x, {x} \in SUBSET S PROVE iter[{x}] = Settled(x, p) + iter[{}]
    <3> DEFINE y == CHOOSE z \in {x} : TRUE
    <3>1. iter[{x}] = Settled(y, p) + iter[{x} \ {y}]
      BY <1>6, <2>3
    <3>2. y = x /\ {x} \ {y} = {}
      OBVIOUS
    <3> HIDE DEF y
    <3> QED BY <3>1, <3>2
  <2>4. iter[{a}] = Settled(a, p) + iter[{}] /\ iter[{b}] = Settled(b, p) + iter[{}]
    BY <2>1, <2>2, <2>3
  <2> QED BY <1>5, <2>4
<1>8. \/ iter[S] = Settled(a, p) + iter[{b}]
      \/ iter[S] = Settled(b, p) + iter[{a}]
  <2> DEFINE y == CHOOSE x \in S : TRUE
  <2>1. (y = a /\ S \ {y} = {b}) \/ (y = b /\ S \ {y} = {a})
    BY <1>1
  <2>2. iter[S] = Settled(y, p) + iter[S \ {y}]
    BY <1>1, <1>6
  <2> HIDE DEF y
  <2> QED BY <2>1, <2>2
<1> QED BY <1>4, <1>7, <1>8

\* A vertical settles for at most its width.
LEMMA PayoffIsBounded ==
  ASSUME NEW s, NEW short \in Int, NEW long \in Int, NEW p \in Int
  PROVE  /\ Payoff(s, short, p) - Payoff(s, long, p) \in Int
         /\ Payoff(s, short, p) - Payoff(s, long, p) <= Distance(short, long)
<1>1. CASE s = "call"
  BY <1>1 DEF Payoff, Distance
<1>2. CASE s # "call"
  BY <1>2 DEF Payoff, Distance
<1> QED BY <1>1, <1>2

LEMMA Scaled ==
  ASSUME NEW l \in Nat, NEW x \in Int, NEW y \in Int, y <= x
  PROVE  l * x \in Int /\ l * y \in Int /\ l * y <= l * x
  OBVIOUS

\* What a row costs in the end: its exit, or its payoff at expiry.
Cost(r, p) == IF r.open THEN Payoff(r.side, r.short, p) - Payoff(r.side, r.long, p) ELSE r.exit

LEMMA CostIsBounded ==
  ASSUME NEW r \in Row, Bounded(r), NEW p \in Int
  PROVE  Cost(r, p) \in Int /\ Cost(r, p) <= Width(r) /\ Width(r) \in Nat
<1>1. r.short \in Int /\ r.long \in Int /\ r.exit \in Int
  BY DEF Row
<1>2. Width(r) \in Nat
  BY <1>1, DistanceIsNatural DEF Width
<1> QED BY <1>1, <1>2, PayoffIsBounded DEF Cost, Bounded, Width

LEMMA SideWithinBudget ==
  ASSUME Typed(rows), Shape(rows), Solvent(rows), NEW i \in DOMAIN rows, NEW p \in Int
  PROVE  /\ Result(rows[i].condor, rows[i].side, p) \in Int
         /\ 2 * Result(rows[i].condor, rows[i].side, p) >= -Risk
<1> DEFINE a == IF rows[i].from = 0 THEN i ELSE rows[i].from
           S == {j \in DOMAIN rows : rows[j].condor = rows[i].condor /\ rows[j].side = rows[i].side}
           l == rows[a].lots
           w == Width(rows[a])
<1>1. /\ a \in DOMAIN rows /\ rows[a].from = 0 /\ rows[a].condor = rows[i].condor
      /\ rows[a].side = rows[i].side
  BY DEF Shape, Replaces
<1> HIDE DEF a
<1>2. rows[a] \in Row /\ l \in Nat /\ rows[a].credit \in Int /\ Bounded(rows[a]) /\ Budgeted(rows[a])
  <2>1. rows[a] \in Row
    BY <1>1, RowsAreRows
  <2> QED BY <1>1, <2>1 DEF Solvent, Row
<1>3. Cost(rows[a], p) \in Int /\ Cost(rows[a], p) <= w /\ w \in Nat
  BY <1>2, CostIsBounded
<1>4. \A j \in DOMAIN rows : Settled(j, p) = rows[j].lots * (rows[j].credit - Cost(rows[j], p))
  BY DEF Settled, Cost
<1>5. ASSUME NEW x \in Int, x >= l * (rows[a].credit - w) PROVE 2 * x >= -Risk
  <2>1. l * (w - rows[a].credit) = -(l * (rows[a].credit - w)) /\ l * (rows[a].credit - w) \in Int
    <3> HIDE DEF l, w
    <3> QED BY <1>2, <1>3
  <2>2. 2 * (l * (w - rows[a].credit)) <= Risk /\ Risk \in Nat
    BY <1>2, CondorAssumption DEF Budgeted, CondorAssumption
  <2> HIDE DEF l, w
  <2> QED BY <1>5, <2>1, <2>2
<1>6. a \in S /\ \A j \in S : rows[j].from = 0 => j = a
  BY <1>1 DEF Shape
<1>7. CASE \A j \in S : rows[j].from = 0
  <2>1. S = {a}
    BY <1>6, <1>7
  <2>2. Result(rows[i].condor, rows[i].side, p) = Settled(a, p) + 0
    BY <2>1, ResultOfOne
  <2>3. Settled(a, p) \in Int /\ Settled(a, p) >= l * (rows[a].credit - w)
    <3>1. Settled(a, p) = l * (rows[a].credit - Cost(rows[a], p))
      BY <1>1, <1>4
    <3> HIDE DEF l, w
    <3>2. rows[a].credit - w <= rows[a].credit - Cost(rows[a], p)
      BY <1>2, <1>3
    <3> QED BY <1>2, <1>3, <3>1, <3>2, Scaled
  <2> QED BY <1>5, <2>2, <2>3
<1>8. ASSUME NEW b \in S, rows[b].from # 0
      PROVE  /\ Result(rows[i].condor, rows[i].side, p) \in Int
             /\ 2 * Result(rows[i].condor, rows[i].side, p) >= -Risk
  <2>1. Replaces(rows, b) /\ b \in DOMAIN rows /\ a # b
    BY <1>1, <1>8 DEF Shape
  <2>2. rows[b].from = a
    <3>1. rows[b].from \in S /\ rows[rows[b].from].from = 0
      BY <2>1 DEF Replaces
    <3> QED BY <1>6, <3>1
  <2>3. S = {a, b}
    <3>1. \A j \in S : rows[j].from # 0 => j = b
      BY <1>8 DEF Shape
    <3> QED BY <1>6, <1>8, <3>1
  <2>4. ~rows[a].open /\ rows[b].lots = l /\ Width(rows[b]) = w
    BY <2>1, <2>2 DEF Replaces
  <2>5. rows[b] \in Row /\ rows[b].credit \in Int /\ Bounded(rows[b]) /\ rows[a].exit <= rows[b].credit
    <3>1. rows[b] \in Row
      BY <2>1, RowsAreRows
    <3> QED BY <1>8, <2>1, <2>2, <3>1 DEF Solvent, Row
  <2>6. Cost(rows[b], p) \in Int /\ Cost(rows[b], p) <= w
    BY <2>4, <2>5, CostIsBounded
  <2>7. Cost(rows[a], p) = rows[a].exit /\ rows[a].exit \in Int
    BY <1>2, <2>4 DEF Cost, Row
  <2>8. /\ Settled(a, p) = l * (rows[a].credit - Cost(rows[a], p))
        /\ Settled(b, p) = l * (rows[b].credit - Cost(rows[b], p))
    BY <1>1, <1>4, <2>1, <2>4
  <2> HIDE DEF l, w
  <2>9. /\ l * (rows[b].credit - w) <= l * (rows[b].credit - Cost(rows[b], p))
        /\ l * (rows[a].credit - rows[b].credit) <= l * (rows[a].credit - Cost(rows[a], p))
        /\ Settled(a, p) \in Int /\ Settled(b, p) \in Int
    <3>1. /\ rows[b].credit - w <= rows[b].credit - Cost(rows[b], p)
          /\ rows[a].credit - rows[b].credit <= rows[a].credit - Cost(rows[a], p)
      BY <1>2, <1>3, <2>5, <2>6, <2>7
    <3> QED BY <1>2, <1>3, <2>5, <2>6, <2>7, <2>8, <3>1, Scaled
  <2>10. l * (rows[b].credit - w) + l * (rows[a].credit - rows[b].credit) = l * (rows[a].credit - w)
    BY <1>2, <1>3, <2>5
  <2>11. Settled(a, p) + Settled(b, p) >= l * (rows[a].credit - w)
    <3>1. l * (rows[b].credit - w) \in Int /\ l * (rows[a].credit - rows[b].credit) \in Int
      BY <1>2, <1>3, <2>5
    <3> QED BY <2>8, <2>9, <2>10, <3>1
  <2>12. Result(rows[i].condor, rows[i].side, p) = Settled(a, p) + Settled(b, p)
    BY <2>1, <2>3, <2>9, ResultOfTwo
  <2> QED BY <1>5, <2>9, <2>11, <2>12
<1> QED BY <1>7, <1>8

CondorInv == Inv /\ Shape(rows) /\ PlanShape

LEMMA CondorInvariance == Spec => []CondorInv
<1>1. Init => CondorInv
  <2> SUFFICES ASSUME Init PROVE CondorInv
    OBVIOUS
  <2>1. rows = <<>> /\ plan = NoPlan /\ pc = "idle"
    BY DEF Init, PlanInit
  <2>2. DOMAIN rows = {}
    BY <2>1
  <2> QED BY <2>1, <2>2, InitInv DEF CondorInv, Shape, PlanShape, NoPlan
<1>2. CondorInv /\ [Next]_vars => CondorInv'
  BY NextInv, ShapeStep DEF CondorInv, Inv
<1> QED BY <1>1, <1>2, PTL DEF Spec

\* Live and on paper alike: either side of a structure has one leg, the
\* structure one roll, and after it all that is open of it is final; a second
\* structure waits until the first is flat (main.py, iron_condor_strategy.py,
\* condor_roll.py).
THEOREM OneCondorAtATime == Spec => []Shape(rows)
<1>1. CondorInv => Shape(rows)
  BY DEF CondorInv
<1> QED BY <1>1, CondorInvariance, PTL

PaperInv == ~live => Solvent(rows)

LEMMA PaperInvariance ==
  ASSUME FairChains
  PROVE  Spec => []PaperInv
<1>1. Init => PaperInv
  <2> SUFFICES ASSUME Init PROVE Solvent(rows)
    BY DEF PaperInv
  <2>1. DOMAIN rows = {}
    BY DEF Init
  <2> QED BY <2>1 DEF Solvent
<1>2. CondorInv /\ PaperInv /\ [Next]_vars => PaperInv'
  <2> SUFFICES ASSUME CondorInv, PaperInv, [Next]_vars, ~live' PROVE Solvent(rows')
    BY DEF PaperInv
  <2>1. PlanOK /\ RowsOK /\ MarketOK /\ Shape(rows)
    BY DEF CondorInv, Inv
  <2>2. ~live
    BY LiveKept
  <2> QED BY <2>1, <2>2, SolventStep DEF PaperInv
<1> QED BY <1>1, <1>2, CondorInvariance, PTL DEF Spec

\* Wherever the price goes, a side of a paper condor loses at most half the risk
\* of a trade, for any chains nobody can arbitrage and any number of legs, rolls,
\* exits and restarts (risk_manager.py, compute_condor_leg_size).
THEOREM SidesStayWithinBudget ==
  ASSUME FairChains
  PROVE  Spec => []WithinBudget
<1>1. CondorInv /\ PaperInv => WithinBudget
  <2> SUFFICES ASSUME CondorInv, PaperInv, ~live, NEW i \in DOMAIN rows, NEW p \in Strikes
               PROVE  2 * Result(rows[i].condor, rows[i].side, p) >= -Risk
    BY DEF WithinBudget
  <2>1. Typed(rows) /\ Shape(rows) /\ Solvent(rows)
    BY DEF CondorInv, Inv, RowsOK, PaperInv
  <2>2. p \in Int
    BY LiquidIsStrikes
  <2> QED BY <2>1, <2>2, SideWithinBudget
<1> QED BY <1>1, PaperInvariance, CondorInvariance, PTL

\* Nor does a whole paper condor, rolled or not, ever lose more than the risk of a
\* trade (risk_manager.py, compute_condor_leg_size).
THEOREM CondorsStayWithinRisk ==
  ASSUME FairChains
  PROVE  Spec => []CondorWithinRisk
<1>1. CondorInv /\ PaperInv => CondorWithinRisk
  <2> SUFFICES ASSUME CondorInv, PaperInv, ~live, NEW c \in DOMAIN rows, NEW p \in Strikes
               PROVE  Result(c, "call", p) + Result(c, "put", p) >= -Risk
    BY DEF CondorWithinRisk
  <2>1. Typed(rows) /\ Shape(rows) /\ Solvent(rows) /\ p \in Int /\ Risk \in Nat
    BY LiquidIsStrikes, CondorAssumption DEF CondorInv, Inv, RowsOK, PaperInv, CondorAssumption
  <2>2. ASSUME NEW side PROVE Result(c, side, p) \in Int /\ 2 * Result(c, side, p) >= -Risk
    <3>1. CASE {i \in DOMAIN rows : rows[i].condor = c /\ rows[i].side = side} = {}
      <4>1. Result(c, side, p) = 0
        BY <3>1, ResultOfNone
      <4> QED BY <2>1, <4>1
    <3>2. ASSUME NEW i \in DOMAIN rows, rows[i].condor = c, rows[i].side = side
          PROVE  Result(c, side, p) \in Int /\ 2 * Result(c, side, p) >= -Risk
      BY <2>1, <3>2, SideWithinBudget
    <3> QED BY <3>1, <3>2
  <2> QED BY <2>1, <2>2
<1> QED BY <1>1, PaperInvariance, CondorInvariance, PTL

-----------------------------------------------------------------------------
(* The refinement of CondorStructure.                                      *)

\* LegsOpen and WasRolled, of any rows.
FormIn(rs, s) ==
  IF \A i \in DOMAIN rs : rs[i].open => rs[i].side # s THEN "flat"
  ELSE IF \E i \in DOMAIN rs : rs[i].open /\ rs[i].side = s /\ rs[i].wing THEN "wing" ELSE "leg"

RolledIn(rs) == \E i, j \in DOMAIN rs : rs[i].open /\ rs[j].condor = rs[i].condor /\ rs[j].from # 0

LEMMA FormsAreSides ==
  /\ LegsOpen = [s \in Sides |-> FormIn(rows, s)] /\ WasRolled = RolledIn(rows)
  /\ LegsOpen' = [s \in Sides |-> FormIn(rows', s)] /\ WasRolled' = RolledIn(rows')
<1>1. \A s : /\ OnSide(s) = {i \in DOMAIN rows : rows[i].open /\ rows[i].side = s}
             /\ OnSide(s)' = {i \in DOMAIN rows' : rows'[i].open /\ rows'[i].side = s}
  BY DEF OnSide, Open
<1>2. \A s \in Sides :
        /\ FormIn(rows, s) = IF OnSide(s) = {} THEN "flat"
                             ELSE IF \E i \in OnSide(s) : rows[i].wing THEN "wing" ELSE "leg"
        /\ FormIn(rows', s) = IF OnSide(s)' = {} THEN "flat"
                              ELSE IF \E i \in OnSide(s)' : rows'[i].wing THEN "wing" ELSE "leg"
  BY <1>1 DEF FormIn
<1>3. WasRolled = RolledIn(rows) /\ WasRolled' = RolledIn(rows')
  BY DEF WasRolled, RolledIn, Open
<1> QED BY <1>2, <1>3 DEF LegsOpen

LEMMA OneOpenPerSide ==
  ASSUME NEW rs, Shape(rs), NEW i \in DOMAIN rs, NEW j \in DOMAIN rs,
         rs[i].open, rs[j].open, rs[i].side = rs[j].side
  PROVE  i = j
<1>1. rs[i].condor = rs[j].condor
  BY DEF Shape
<1>2. ASSUME NEW a \in DOMAIN rs, NEW b \in DOMAIN rs, rs[a].open, rs[b].open,
             rs[a].side = rs[b].side, rs[a].condor = rs[b].condor, rs[a].from # 0, rs[b].from = 0
      PROVE  FALSE
  <2>1. Replaces(rs, a)
    BY <1>2 DEF Shape
  <2>2. rs[a].from = b
    BY <1>2, <2>1 DEF Shape, Replaces
  <2> QED BY <1>2, <2>1, <2>2 DEF Replaces
<1> QED BY <1>1, <1>2 DEF Shape

\* The form of a side with a vertical is the form of that vertical.
LEMMA FormOfOne ==
  ASSUME NEW rs, Shape(rs), NEW i \in DOMAIN rs, rs[i].open
  PROVE  FormIn(rs, rs[i].side) = IF rs[i].wing THEN "wing" ELSE "leg"
BY OneOpenPerSide DEF FormIn

LEMMA SidesAreCondor == Condor!Side = Sides
BY DEF Condor!Side, Sides

\* Marking and closing leave the form of what stays open.
LEMMA PassKeepsWings ==
  ASSUME RowsOK, Manage \/ Flatten \/ Restart
  PROVE  \A i \in DOMAIN rows : rows'[i].wing = rows[i].wing
<1> SUFFICES ASSUME NEW i \in DOMAIN rows PROVE rows'[i].wing = rows[i].wing
  OBVIOUS
<1>1. rows[i] \in Row
  BY RowsAreRows DEF RowsOK
<1>2. ASSUME NEW m \in Recorded(rows[i]), NEW p
      PROVE  /\ m.wing = rows[i].wing /\ Closed(m, p).wing = rows[i].wing
             /\ [m EXCEPT !.mark = p].wing = rows[i].wing
  <2>1. m.wing = rows[i].wing /\ DOMAIN m = DOMAIN rows[i] /\ "wing" \in DOMAIN rows[i]
    BY <1>1, <1>2 DEF Recorded, Row
  <2> QED BY <2>1 DEF Closed
<1>3. rows[i] \in Recorded(rows[i])
  BY DEF Recorded
<1>4. CASE Manage
  <2>1. PICK m, quote, refused :
          rows' = [j \in DOMAIN rows |->
                     IF j \in InUse THEN Managed(m.chain, m.regime, Records[j], quote[j], j \in refused)
                     ELSE rows[j]]
    BY <1>4 DEF Manage
  <2>2. CASE i \in InUse
    <3> DEFINE p == Premium(m.chain, Records[i], quote[i])
    <3>1. rows'[i] \in {Records[i], Closed(Records[i], p), [Records[i] EXCEPT !.mark = Mark(p)]}
      BY <2>1, <2>2 DEF Managed
    <3>2. Records[i] \in Recorded(rows[i])
      BY <2>2, InUseIsOpen
    <3> HIDE DEF p
    <3> QED BY <1>2, <3>1, <3>2
  <2> QED BY <2>1, <2>2
<1>5. CASE Flatten
  <2>1. PICK quote \in [InUse -> Quotes], refused \in Refusals :
          rows' = [j \in DOMAIN rows |->
                     IF j \in InUse \ refused
                     THEN LET p == StandIn(Records[j], quote[j])
                          IN Closed(rows[j], IF p > 0 THEN p ELSE rows[j].credit)
                     ELSE rows[j]]
    BY <1>5 DEF Flatten
  <2>2. \E p : rows'[i] \in {rows[i], Closed(rows[i], p)}
    BY <2>1
  <2> QED BY <1>2, <1>3, <2>2
<1>6. CASE Restart
  <2>1. rows'[i] \in Recorded(rows[i])
    BY <1>6 DEF Restart, Loaded, Recorded
  <2> QED BY <1>2, <2>1
<1> QED BY <1>4, <1>5, <1>6

\* A step that opens nothing closes what is open on some sides, or on none.
LEMMA PassKeepsStructure ==
  ASSUME RowsOK, Shape(rows), Shape(rows'), Kept(rows, rows'),
         \A i \in DOMAIN rows : rows'[i].wing = rows[i].wing
  PROVE  [Condor!AtomicNext]_<<LegsOpen, WasRolled>>
<1> DEFINE F == LegsOpen
           G == LegsOpen'
           S == {s \in Sides : F[s] # "flat" /\ G[s] = "flat"}
<1>1. /\ F = [s \in Sides |-> FormIn(rows, s)] /\ WasRolled = RolledIn(rows)
      /\ G = [s \in Sides |-> FormIn(rows', s)] /\ WasRolled' = RolledIn(rows')
  BY FormsAreSides
<1>2. DOMAIN rows' = DOMAIN rows
      /\ \A i \in DOMAIN rows : /\ rows'[i].side = rows[i].side /\ rows'[i].condor = rows[i].condor
                                /\ rows'[i].from = rows[i].from /\ (rows'[i].open => rows[i].open)
  BY DEF Kept, Held
<1>3. \A s \in Sides : G[s] = "flat" \/ G[s] = F[s]
  <2> SUFFICES ASSUME NEW s \in Sides, G[s] # "flat" PROVE G[s] = F[s]
    OBVIOUS
  <2>1. PICK i \in DOMAIN rows : rows'[i].open /\ rows'[i].side = s
    BY <1>1, <1>2 DEF FormIn
  <2>2. FormIn(rows, s) = IF rows[i].wing THEN "wing" ELSE "leg"
    BY <1>2, <2>1, FormOfOne
  <2>3. FormIn(rows', s) = IF rows'[i].wing THEN "wing" ELSE "leg"
    BY <1>2, <2>1, FormOfOne
  <2> QED BY <1>1, <2>1, <2>2, <2>3
<1>4. \A s \in Sides : F[s] = "flat" => G[s] = "flat"
  BY <1>1, <1>2 DEF FormIn
<1>5. G = [s \in Sides |-> IF s \in S THEN "flat" ELSE F[s]]
  BY <1>1, <1>3, <1>4
<1>6. WasRolled' = (WasRolled /\ G # Condor!Flat)
  <2>1. G # Condor!Flat <=> \E s \in Sides : G[s] # "flat"
    BY <1>1, SidesAreCondor DEF Condor!Flat
  <2>2. (\E s \in Sides : G[s] # "flat") => \E i \in DOMAIN rows : rows'[i].open
    BY <1>1, <1>2 DEF FormIn
  <2>3. RolledIn(rows') => RolledIn(rows)
    BY <1>2 DEF RolledIn
  <2>4. RolledIn(rows) /\ (\E i \in DOMAIN rows : rows'[i].open) => RolledIn(rows')
    <3> SUFFICES ASSUME RolledIn(rows), NEW i \in DOMAIN rows, rows'[i].open PROVE RolledIn(rows')
      OBVIOUS
    <3>1. PICK a, j \in DOMAIN rows : rows[a].open /\ rows[j].condor = rows[a].condor /\ rows[j].from # 0
      BY DEF RolledIn
    <3>2. rows[a].condor = rows[i].condor
      BY <1>2, <3>1 DEF Shape
    <3> QED BY <1>2, <3>1, <3>2 DEF RolledIn
  <2>5. RolledIn(rows') => \E s \in Sides : G[s] # "flat"
    <3> SUFFICES ASSUME NEW i \in DOMAIN rows', rows'[i].open PROVE \E s \in Sides : G[s] # "flat"
      BY DEF RolledIn
    <3>1. rows'[i].side \in Sides
      <4>1. rows[i] \in Row
        BY <1>2, RowsAreRows DEF RowsOK
      <4> QED BY <1>2, <4>1 DEF Row
    <3>2. FormIn(rows', rows'[i].side) # "flat"
      BY DEF FormIn
    <3> QED BY <1>1, <3>1, <3>2
  <2>6. WasRolled' <=> WasRolled /\ G # Condor!Flat
    <3> HIDE DEF G, F
    <3> QED BY <1>1, <2>1, <2>2, <2>3, <2>4, <2>5
  <2>7. WasRolled' \in BOOLEAN
    BY DEF WasRolled
  <2> HIDE DEF G
  <2> QED BY <2>6, <2>7
<1>7. CASE S = {}
  <2>1. G = F
    <3>1. \A s \in Sides : (IF s \in S THEN "flat" ELSE F[s]) = F[s]
      BY <1>7
    <3>2. G = [s \in Sides |-> F[s]]
      BY <1>5, <3>1
    <3> QED BY <1>1, <3>2
  <2>2. WasRolled' = WasRolled
    <3>1. WasRolled => G # Condor!Flat
      <4> SUFFICES ASSUME NEW i \in DOMAIN rows, rows[i].open PROVE G # Condor!Flat
        BY <1>1 DEF RolledIn
      <4>1. rows[i].side \in Sides
        BY RowsAreRows DEF RowsOK, Row
      <4>2. F[rows[i].side] # "flat"
        BY <1>1, <4>1 DEF FormIn
      <4> QED BY <2>1, <4>1, <4>2, SidesAreCondor DEF Condor!Flat
    <3>2. WasRolled \in BOOLEAN
      BY DEF WasRolled
    <3> HIDE DEF G, F, S
    <3> QED BY <1>6, <3>1, <3>2
  <2> QED BY <2>1, <2>2
<1>8. CASE S # {}
  <2>1. S \in (SUBSET Condor!Side) \ {{}} /\ \A s \in S : F[s] # "flat"
    BY <1>8, SidesAreCondor
  <2>2. G = [s \in Condor!Side |-> IF s \in S THEN "flat" ELSE F[s]]
    BY <1>5, SidesAreCondor
  <2>3. Condor!CloseLegs(S)
    <3> HIDE DEF S
    <3> QED BY <1>6, <2>1, <2>2 DEF Condor!CloseLegs
  <2> HIDE DEF S
  <2> QED BY <2>1, <2>3 DEF Condor!AtomicNext
<1> QED BY <1>7, <1>8

\* A leg is sold on an empty side of a structure without a roll.
LEMMA LegKeepsStructure ==
  ASSUME RowsOK, Shape(rows), Shape(rows'), NEW r, Appended(rows, rows', r),
         r.open, ~r.wing, r.from = 0, r.side \in Sides
  PROVE  Condor!AtomicNext
<1> DEFINE F == LegsOpen
           G == LegsOpen'
           n == Len(rows) + 1
<1>1. /\ F = [s \in Sides |-> FormIn(rows, s)] /\ WasRolled = RolledIn(rows)
      /\ G = [s \in Sides |-> FormIn(rows', s)] /\ WasRolled' = RolledIn(rows')
  BY FormsAreSides
<1>2. /\ n \in DOMAIN rows' /\ n \notin DOMAIN rows /\ rows'[n] = r
      /\ DOMAIN rows' = DOMAIN rows \cup {n} /\ \A i \in DOMAIN rows : rows'[i] = rows[i]
  BY DEF Appended
<1> HIDE DEF n
<1>3. \A i \in DOMAIN rows : rows[i].open => rows[i].side # r.side
  BY <1>2, OneOpenPerSide
<1>4. F[r.side] = "flat"
  BY <1>1, <1>3 DEF FormIn
<1>5. G[r.side] = "leg"
  BY <1>1, <1>2, FormOfOne
<1>6. \A s \in Sides : s # r.side => G[s] = F[s]
  <2> SUFFICES ASSUME NEW s \in Sides, s # r.side PROVE FormIn(rows', s) = FormIn(rows, s)
    BY <1>1
  <2>1. (\A i \in DOMAIN rows' : rows'[i].open => rows'[i].side # s)
          <=> (\A i \in DOMAIN rows : rows[i].open => rows[i].side # s)
    BY <1>2
  <2>2. (\E i \in DOMAIN rows' : rows'[i].open /\ rows'[i].side = s /\ rows'[i].wing)
          <=> (\E i \in DOMAIN rows : rows[i].open /\ rows[i].side = s /\ rows[i].wing)
    BY <1>2
  <2> QED BY <2>1, <2>2 DEF FormIn
<1>7. G = [F EXCEPT ![r.side] = "leg"]
  BY <1>1, <1>5, <1>6
<1>8. ~RolledIn(rows')
  <2> SUFFICES ASSUME NEW i \in DOMAIN rows', NEW j \in DOMAIN rows', rows'[i].open,
                      rows'[j].condor = rows'[i].condor, rows'[j].from # 0
               PROVE  FALSE
    BY DEF RolledIn
  <2>1. rows'[n].condor = rows'[j].condor /\ rows'[n].open
    BY <1>2 DEF Shape
  <2> QED BY <1>2, <2>1 DEF Shape
<1>9. ~RolledIn(rows)
  BY <1>2, <1>8 DEF RolledIn
<1>10. WasRolled' = WasRolled
  <2>1. WasRolled \in BOOLEAN /\ WasRolled' \in BOOLEAN
    BY DEF WasRolled
  <2> QED BY <1>1, <1>8, <1>9, <2>1
<1>11. Condor!OpenLeg(r.side)
  BY <1>1, <1>4, <1>7, <1>9, <1>10 DEF Condor!OpenLeg
<1> QED BY <1>11, SidesAreCondor DEF Condor!AtomicNext

LEMMA RollKeepsStructure ==
  ASSUME PlanOK, RowsOK, MarketOK, Shape(rows), Shape(rows'), NEW t \in Open, NEW u \in Open,
         MayRoll(t, u), NEW k \in Strikes, IsRoll(rows[t], rows[u], k), ExecuteRoll(t, u, k)
  PROVE  Condor!AtomicNext
<1> DEFINE F == LegsOpen
           G == LegsOpen'
           n == Len(rows) + 1
<1>1. /\ F = [s \in Sides |-> FormIn(rows, s)] /\ WasRolled = RolledIn(rows)
      /\ G = [s \in Sides |-> FormIn(rows', s)] /\ WasRolled' = RolledIn(rows')
  BY FormsAreSides
<1>2. /\ t \in DOMAIN rows /\ u \in DOMAIN rows /\ rows[t].open /\ rows[u].open /\ t # u
      /\ rows[t] \in Row /\ rows[u] \in Row /\ Len(rows) \in Nat /\ DOMAIN rows = 1..Len(rows)
      /\ rows[t].side = Other(rows[u].side) /\ ~rows[t].wing /\ ~rows[u].wing
  BY RowsAreRows DEF Open, RowsOK, MayRoll
<1>3. Swapped(t, u, k)
  <2>1. Typed(rows) /\ Covers(rows) /\ chain \in Chain
    BY MarketHasChain DEF RowsOK
  <2> QED BY <1>2, <2>1, RollIsCovered
<1>4. \A s \in Sides : s = rows[t].side \/ s = rows[u].side
  BY <1>2 DEF Row, Other, Sides
<1>5. \A s \in Sides : F[s] = "leg"
  BY <1>1, <1>2, <1>4, FormOfOne
<1>6. ~RolledIn(rows)
  <2> SUFFICES ASSUME NEW i \in DOMAIN rows, NEW j \in DOMAIN rows, rows[i].open,
                      rows[j].condor = rows[i].condor, rows[j].from # 0
               PROVE  FALSE
    BY DEF RolledIn
  <2>1. rows[t].condor = rows[j].condor
    BY <1>2 DEF Shape
  <2> QED BY <1>2, <2>1 DEF Shape
<1>7. /\ n \in DOMAIN rows' /\ rows'[n].side = rows[u].side /\ rows'[n].open /\ rows'[n].wing
      /\ rows'[n].from = u /\ u # 0
  <2>1. rows'[n] = Rolled(t, u, k) /\ n \in DOMAIN rows'
    BY <1>3 DEF Swapped
  <2> QED BY <1>2, <2>1 DEF Rolled, Vertical
<1>8. t \in DOMAIN rows' /\ rows'[t].side = rows[t].side /\ rows'[t].open /\ rows'[t].wing
  <2>1. rows'[t] = [rows[t] EXCEPT !.wing = TRUE] /\ t \in DOMAIN rows'
    BY <1>2, <1>3 DEF Swapped
  <2> QED BY <1>2, <2>1 DEF Row
<1> HIDE DEF n
<1>9. \A s \in Sides : G[s] = "wing"
  BY <1>1, <1>4, <1>7, <1>8, FormOfOne
<1>10. G = [s \in Sides |-> "wing"]
  BY <1>1, <1>9
<1>11. RolledIn(rows')
  BY <1>7 DEF RolledIn
<1>12. ~WasRolled /\ WasRolled' = TRUE
  <2>1. WasRolled' \in BOOLEAN
    BY DEF WasRolled
  <2> QED BY <1>1, <1>6, <1>11, <2>1
<1>13. Condor!Adjust
  BY <1>5, <1>10, <1>12, SidesAreCondor DEF Condor!Adjust
<1> QED BY <1>13 DEF Condor!AtomicNext

LEMMA StructureStep ==
  ASSUME PlanOK, RowsOK, MarketOK, Shape(rows), Shape(rows'), [Next]_vars
  PROVE  [Condor!AtomicNext]_<<LegsOpen, WasRolled>>
<1>1. CASE Manage \/ Flatten \/ Restart
  <2>1. Kept(rows, rows')
    BY <1>1, ManageKeepsRows, FlattenKeepsRows, RestartKeepsRows
  <2> QED BY <1>1, <2>1, PassKeepsWings, PassKeepsStructure
<1>2. CASE Roll
  <2>1. PICK t \in listed, u \in listed, k \in Strikes :
          MayRoll(t, u) /\ IsRoll(rows[t], rows[u], k) /\ ExecuteRoll(t, u, k)
    BY <1>2 DEF Roll
  <2>2. t \in Open /\ u \in Open
    BY DEF RowsOK
  <2> QED BY <2>1, <2>2, RollKeepsStructure
<1>3. ASSUME rows' = rows PROVE UNCHANGED <<LegsOpen, WasRolled>>
  BY <1>3 DEF LegsOpen, OnSide, WasRolled, Open
<1>4. CASE LegStage \/ EnterFly \/ EnterCondor
  <2>1. rows' = rows \/ CheckLegTriggers
    BY <1>4 DEF LegStage, EnterFly, EnterCondor, condorVars
  <2>2. CASE CheckLegTriggers
    <3>1. rows' = rows \/ Appended(rows, rows', LegOf(PendingSide))
      BY <2>2, TriggersAppend
    <3>2. PendingSide \in Sides
      BY DEF PlanOK, PlanType, PendingSide, Other, Sides
    <3>3. /\ LegOf(PendingSide).open /\ LegOf(PendingSide).from = 0
          /\ LegOf(PendingSide).side \in Sides /\ ~LegOf(PendingSide).wing
      <4>1. ~LegOf(PendingSide).wing
        BY DEF LegOf, Vertical
      <4> QED BY <3>2, <4>1, LegIsVertical
    <3> QED BY <1>3, <3>1, <3>3, LegKeepsStructure
  <2> QED BY <1>3, <2>1, <2>2
<1>5. CASE \/ Refresh \/ NothingOpen \/ NoRoll \/ PaperFly \/ PlaceFly \/ PlaceFails \/ CancelFly
           \/ BrokerFills \/ Advance \/ UNCHANGED vars
  <2>1. rows' = rows
    BY <1>5 DEF Refresh, NothingOpen, NoRoll, PaperFly, PlaceFly, PlaceFails, CancelFly, BrokerFills, Advance,
       vars, condorVars
  <2> QED BY <1>3, <2>1
<1> QED BY <1>1, <1>2, <1>3, <1>4, <1>5 DEF Next

LEMMA InitIsFlat == Init => Condor!Init
<1> SUFFICES ASSUME Init PROVE Condor!Init
  OBVIOUS
<1>1. DOMAIN rows = {}
  BY DEF Init
<1>2. LegsOpen = [s \in Sides |-> FormIn(rows, s)] /\ WasRolled = RolledIn(rows)
  BY FormsAreSides
<1>3. LegsOpen = Condor!Flat
  BY <1>1, <1>2, SidesAreCondor DEF FormIn, Condor!Flat
<1>4. WasRolled = FALSE
  BY <1>1 DEF WasRolled
<1> QED BY <1>3, <1>4 DEF Condor!Init

\* Live and on paper, with refused orders, forced closes and restarts, every
\* step of the day is one step of CondorStructure, its roll as a whole, or none
\* of it (iron_condor_strategy.py, exit_engine.py, condor_roll.py).
THEOREM DayImplementsCondor == Spec => KeepsStructure
<1>1. Init => Condor!Init
  BY InitIsFlat
<1>2. CondorInv /\ CondorInv' /\ [Next]_vars => [Condor!AtomicNext]_<<LegsOpen, WasRolled>>
  BY StructureStep DEF CondorInv, Inv
<1> QED BY <1>1, <1>2, CondorInvariance, PTL DEF Spec, KeepsStructure, Condor!AtomicSpec, Condor!structure

=============================================================================
