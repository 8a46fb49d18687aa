--------------------------- MODULE CondorStructure --------------------------
(***************************************************************************)
(* What an iron condor promises, whoever drives it: at most one vertical   *)
(* on each side; a broken-wing roll puts a final vertical on a flat side   *)
(* opposite a live one, once in the life of the structure; and nothing is  *)
(* added to a rolled structure until it is flat.                           *)
(***************************************************************************)
Side == {"call", "put"}

VARIABLES
  legs,     \* what is open on each side
  rolled    \* the structure has had its one adjustment

structure == <<legs, rolled>>

Opposite(s) == CHOOSE o \in Side : o # s

Flat == [s \in Side |-> "flat"]

Init == legs = Flat /\ rolled = FALSE

OpenLeg(s) ==
  /\ legs[s] = "flat" /\ ~rolled
  /\ legs' = [legs EXCEPT ![s] = "leg"]
  /\ UNCHANGED rolled

\* One vertical exits, or a sweep of expired rows closes several.
CloseLegs(S) ==
  /\ \A s \in S : legs[s] # "flat"
  /\ legs' = [s \in Side |-> IF s \in S THEN "flat" ELSE legs[s]]
  /\ rolled' = (rolled /\ legs' # Flat)

Roll(s) ==
  /\ legs[s] = "flat" /\ legs[Opposite(s)] = "leg" /\ ~rolled
  /\ legs' = [legs EXCEPT ![s] = "wing"]
  /\ rolled' = TRUE

\* The tested vertical becomes final too.
MakeFinal(s) ==
  /\ legs[s] = "leg" /\ rolled
  /\ legs' = [legs EXCEPT ![s] = "wing"]
  /\ UNCHANGED rolled

Next ==
  \/ \E s \in Side : OpenLeg(s) \/ Roll(s) \/ MakeFinal(s)
  \/ \E S \in (SUBSET Side) \ {{}} : CloseLegs(S)

Spec == Init /\ [][Next]_structure

-----------------------------------------------------------------------------
\* The same promise where nothing comes between the steps of a roll: one side
\* closed, rolled, and both final, which is CloseLegs, Roll and MakeFinal at once.
Adjust ==
  /\ \A s \in Side : legs[s] = "leg"
  /\ ~rolled
  /\ legs' = [s \in Side |-> "wing"]
  /\ rolled' = TRUE

AtomicNext ==
  \/ \E s \in Side : OpenLeg(s)
  \/ Adjust
  \/ \E S \in (SUBSET Side) \ {{}} : CloseLegs(S)

AtomicSpec == Init /\ [][AtomicNext]_structure

=============================================================================
