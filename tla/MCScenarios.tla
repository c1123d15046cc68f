--------------------------- MODULE MCScenarios ---------------------------
(***************************************************************************)
(* Small instances of Scenarios for TLC: a day of three hours, one         *)
(* scenario that may be redefined with another stage list and one that     *)
(* may not, two weather locations.                                         *)
(***************************************************************************)
EXTENDS Scenarios

CONSTANTS Spike, Belly, Home, Coast

St(from, to, cover, first, last) ==
  [from |-> from, to |-> to, cover |-> cover, bias_from |-> first, bias_to |-> last]

TwoScenarios == <<Spike, Belly>>
TwoDefinitions ==
  [s \in {Spike, Belly} |->
     IF s = Spike
     THEN { <<St(0, 1, 1, 20, 20), St(1, 3, Unset, 20, 80)>>, <<St(0, 2, 0, 80, 80)>> }
     ELSE { <<St(0, 2, 0, 20, 20), St(1, 3, 1, 80, 80)>>, << >> }]
=============================================================================
