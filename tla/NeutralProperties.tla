--------------------------- MODULE NeutralProperties ------------------------
(* What the neutral strategies promise of their money.                       *)
EXTENDS NeutralDay, FiniteSetsExt

FlySignals ==
  [lots : Nat \ {0}, side : Sides, debit : Nat \ {0}, profit : Nat \ {0}, grade : {"A", "B"},
   wings : [lower : Strikes, center : Strikes, upper : Strikes]]

Flies ==
  [open : {TRUE}, order : 0..Len(orders), lots : Nat \ {0}, mark : Int, known : Int, side : Sides,
   debit : Nat \ {0}, profit : Nat \ {0}, wings : [lower : Strikes, center : Strikes, upper : Strikes]]

\* Type invariant of the day: what the list holds is open in the table, a
\* signal exists exactly while its order is being placed, and no leg and no
\* butterfly is sized at nothing.
NeutralTypeOK ==
  /\ plan \in PlanType(1..Len(rows)) /\ planDate \in {0, 1}
  /\ strikes \in [Sides -> [short : Int, long : Int]]
  /\ rows \in Seq(Row) /\ \A i \in DOMAIN rows : rows[i].lots > 0
  /\ listed \subseteq Open
  /\ market \in [chain : Chains \cup {NoMarket.chain}, regime : Regimes \cup {"UNKNOWN"}]
  /\ fedDay \in BOOLEAN /\ macro \in Snapshot \cup {NoSnapshot}
  /\ fired \in BOOLEAN /\ attempt \in {1, 2} /\ orders \in Seq(Order)
  /\ signal \in FlySignals \cup {NoSignal} /\ (signal # NoSignal <=> pc \in {"place", "cancel"})
  /\ fly \in Flies \cup {NoFly}
  /\ live \in BOOLEAN /\ slot \in Slots /\ crashes \in 0..MaxCrashes
  /\ pc \in {"idle", "leg", "roll", "entry", "place", "cancel"}

-----------------------------------------------------------------------------
\* A structure rolled to a broken wing cannot lose on its tested side, per
\* share: the credits of the three verticals, less what buying back the old
\* one cost as it was booked, cover the tested width (condor_roll.py).
RolledIsRiskFree ==
  \A i \in DOMAIN rows : rows[i].from # 0 =>
    LET t == rows[rows[i].tested]
        u == rows[rows[i].from]
    IN /\ ~u.open
       /\ t.credit + u.credit - u.exit + rows[i].credit >= Width(t)

\* j is farther out of the money than k.
Beyond(s, j, k) == IF s = "call" THEN j > k ELSE j < k

\* A chain nobody can arbitrage at its marks: a vertical is worth no more than
\* its width, an option is worth no more than one nearer the money, and a vertical
\* no more than one of its width that is nearer the money.
NoArbitrage(c) ==
  \A s \in Sides : \A j, k \in Liquid(c, s) :
    /\ Spread(c, s, j, k) <= Distance(j, k)
    /\ Beyond(s, j, k) =>
         /\ c[s][j] <= c[s][k]
         /\ \A jl, kl \in Liquid(c, s) :
              /\ Beyond(s, jl, j) /\ Beyond(s, kl, k) /\ Distance(j, jl) = Distance(k, kl)
              => Spread(c, s, j, jl) <= Spread(c, s, k, kl)

FairChains == \A c \in Chains : NoArbitrage(c)

\* What a vertical has made, in ticks of one contract, if one still open is
\* held to expiry and the price is p.
Settled(i, p) ==
  LET r == rows[i]
  IN r.lots * (r.credit - IF r.open THEN Payoff(r.side, r.short, p) - Payoff(r.side, r.long, p)
                          ELSE r.exit)

Result(c, s, p) ==
  MapThenSumSet(LAMBDA i : Settled(i, p),
                {i \in DOMAIN rows : rows[i].condor = c /\ rows[i].side = s})

\* Either side of a condor is budgeted half the risk of a trade: whatever was
\* filled at fallback strikes, exited, rolled and restarted, and wherever the
\* price goes, it loses no more (risk_manager.py, compute_condor_leg_size).
WithinBudget ==
  ~live => \A i \in DOMAIN rows, p \in Strikes :
             2 * Result(rows[i].condor, rows[i].side, p) >= -Risk

\* The two sides of a condor together stay within the risk of a trade.
CondorWithinRisk ==
  ~live => \A c \in DOMAIN rows, p \in Strikes :
             Result(c, "call", p) + Result(c, "put", p) >= -Risk

\* On paper no condor is rolled in a trend: the pass over the positions has
\* closed the threatened side before the roll looks at it.
RollsInRange ==
  [][~live /\ Len(rows') > Len(rows) /\ rows'[Len(rows')].from # 0
       => market.regime \notin Trends]_vars

-----------------------------------------------------------------------------
(* Refinement: the open verticals are a CondorStructure, whose roll is one step. *)

OnSide(s) == {i \in Open : rows[i].side = s}

LegsOpen ==
  [s \in Sides |->
     IF OnSide(s) = {} THEN "flat"
     ELSE IF \E i \in OnSide(s) : rows[i].wing THEN "wing" ELSE "leg"]

WasRolled ==
  \E i \in Open, j \in DOMAIN rows : rows[j].condor = rows[i].condor /\ rows[j].from # 0

Condor == INSTANCE CondorStructure WITH legs <- LegsOpen, rolled <- WasRolled

\* On paper and live, through exits, forced closes, refused orders and restarts,
\* the verticals are what a condor promises (iron_condor_strategy.py, condor_roll.py).
KeepsStructure == Condor!AtomicSpec

-----------------------------------------------------------------------------
\* The butterfly that is managed live is one the broker filled, with its
\* contracts, whatever became of the other attempt.
FlyRowIsFilled ==
  live /\ fly.open => /\ orders[fly.order].status = "filled"
                      /\ orders[fly.order].lots = fly.lots

FilledLots == {i \in DOMAIN orders : orders[i].status = "filled"}

\* The butterfly of the day is filled at most twice, once for either attempt,
\* and as often again only after a restart.
FlyFillsBounded == Cardinality(FilledLots) <= 2 * (1 + crashes)

\* Every butterfly order was sized by a VIX that was really read and is below
\* 20, and costs at its debit no more than its grade allows, half of it from 15
\* on, although fetches fail and a restart forgets what was read.
FlyIsCalm ==
  \A i \in DOMAIN orders :
    LET o == orders[i]
    IN /\ o.macro.read \in {"low", "normal"}
       /\ 2 * o.lots * o.debit * (IF o.macro.read = "normal" THEN 2 ELSE 1)
            <= FlyRisk * IF o.grade = "A" THEN 3 ELSE 2

-----------------------------------------------------------------------------
\* A paper vertical that was ever priced is booked at the forced close at its
\* last mark (position_manager.py, _fetch_current_premium).
HardCloseBooksMark ==
  [][\A i \in DOMAIN rows :
       ~live /\ slot = Closing /\ rows[i].open /\ ~rows'[i].open /\ rows[i].mark # 0
         => rows'[i].exit = rows[i].mark]_vars

=============================================================================
