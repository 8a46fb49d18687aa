----------------------------- MODULE MCNeutralDay ---------------------------
(* Strikes from 100 to 1000 ticks, every 100.  A chain is its price, the     *)
(* height of its volatility and a strike that has no quote on one side.      *)
EXTENDS NeutralProperties

TenStrikes == {100 * k : k \in 1..10}

\* Time value by the distance to the price, in strikes.
High == <<239, 193, 153, 119, 91, 68, 50, 36, 25>>
Low  == <<80, 40, 17, 6, 2, 1, 1, 1, 1>>

ChainOf(p, value, missing) ==
  [price |-> p,
   call |-> [k \in TenStrikes |-> IF <<"call", k>> \in missing THEN 0
                                  ELSE value[Distance(k, p) \div 100 + 1] + Payoff("call", k, p)],
   put  |-> [k \in TenStrikes |-> IF <<"put", k>> \in missing THEN 0
                                  ELSE value[Distance(k, p) \div 100 + 1] + Payoff("put", k, p)]]

NoQuotes == {<<s, k>> : s \in Sides, k \in TenStrikes}

DayChains ==
  {ChainOf(500, High, {}), ChainOf(600, Low, {}), ChainOf(400, High, {<<"put", 200>>}),
   ChainOf(500, Low, NoQuotes)}

\* SidesStayWithinBudget assumes it of every chain.
ASSUME ChainsAreFair == \A c \in DayChains : NoArbitrage(c)

DayBands  == {[upper |-> 700, lower |-> 300]}
=============================================================================
