---------------------------- MODULE MCBrokerSync ----------------------------
(***************************************************************************)
(* Three calls and two puts: a condor of two verticals, a long option and  *)
(* a butterfly at strikes the call side of the condor uses as well.        *)
(***************************************************************************)
EXTENDS BrokerSync

CONSTANTS C0, C1, C2, P0, P1

CallLeg == [kind |-> "leg", short |-> {C1}, long |-> {C2}]
PutLeg  == [kind |-> "leg", short |-> {P1}, long |-> {P0}]
Single  == [kind |-> "signal", short |-> {}, long |-> {C1}]
Fly     == [kind |-> "signal", short |-> {C1}, long |-> {C0, C2}]

MCSymbols == {C0, C1, C2, P0, P1}
MCCondors == {<<CallLeg, PutLeg>>}
MCSignals == {Single, Fly}
MCSingles == {Single}
=============================================================================
