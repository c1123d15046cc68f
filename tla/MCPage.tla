------------------------------- MODULE MCPage -------------------------------
(***************************************************************************)
(* The browser page for TLC.  Its parts, the gridpool panel (DrillDown),   *)
(* the tape with its filters (Tape) and the shell with the scenario panel  *)
(* (Shell), share no state and no request, so a behaviour of the page is   *)
(* one of each, side by side.  `part' is chosen at the start and the other *)
(* parts stand still: what one part may do is not multiplied by what the   *)
(* others are doing meanwhile.  Tape and Shell are taken in two halves     *)
(* each for the same reason: chips and storage without the passing of time *)
(* and the bars, the display zone without the scenarios.                   *)
(***************************************************************************)
EXTENDS DrillDown, Tape, Shell

CONSTANTS P, Q, H, N, U

VARIABLE part

vars == <<part, drillVars, tapeVars, shellVars>>
Parts == {"gridpools", "tape", "filters", "scenarios", "zone"}

(* A part that stands still starts in one way.                             *)
Init ==
  /\ part \in Parts /\ DrillInit /\ TapeInit /\ ShellInit
  /\ part # "filters" => stored = NothingStored
  /\ part # "scenarios" => \A s \in Scenario : stage[s] = Idle
  /\ part # "zone" => tzMode = "local"

(* The part that moves, and what the others leave alone.                   *)
GridpoolsMove ==
  part = "gridpools" /\ DrillNext /\ UNCHANGED <<part, tapeVars, shellVars>>
TapeMoves ==
  /\ part = "tape" /\ TapeNext /\ picks' <= 1
  /\ UNCHANGED <<part, activeAreas, showNeighbours, periodFilter, focused>>
  /\ UNCHANGED <<drillVars, shellVars>>
FiltersMove ==
  /\ part = "filters" /\ TapeNext
  /\ UNCHANGED <<part, now, open, window, drillVars, shellVars>>
ScenariosMove ==
  part = "scenarios" /\ ShellNext /\ UNCHANGED <<part, drillVars, tapeVars, zone>>
ZoneMoves ==
  part = "zone" /\ ShellNext /\ UNCHANGED <<part, drillVars, tapeVars, commands>>

Next == GridpoolsMove \/ TapeMoves \/ FiltersMove \/ ScenariosMove \/ ZoneMoves

Gridpools == part = "gridpools"
Commands == part = "scenarios"

(* The browser runs every effect and wakes the polls; the server answers.  *)
Fairness ==
  /\ WF_drillVars(Gridpools /\ OnSelected) /\ WF_drillVars(Gridpools /\ OnSelectedOrder)
  /\ WF_drillVars(Gridpools /\ OnOrders) /\ WF_drillVars(Gridpools /\ AskPools)
  /\ WF_drillVars(Gridpools /\ ServePools) /\ WF_drillVars(Gridpools /\ TakePools)
  /\ \A kind \in {"orders", "trades"} :
       WF_drillVars(Gridpools /\ Served(kind)) /\ WF_drillVars(Gridpools /\ Delivered(kind))
  /\ WF_shellVars(Commands /\ PollAsk) /\ WF_shellVars(Commands /\ PollServe)
  /\ WF_shellVars(Commands /\ PollTake)

Spec == Init /\ [][Next]_vars
FairSpec == Spec /\ Fairness

-----------------------------------------------------------------------------
(* An order of either gridpool, for two contracts.                         *)
TwoPools == [o \in {1, 2} |-> IF o = 1 THEN P ELSE Q]
TwoPeriods == [o \in {1, 2} |-> o]
(* A print sold abroad, one bought abroad, and one that never was at home. *)
ThreePrints == {[buy |-> H, sell |-> N, period |-> 1], [buy |-> N, sell |-> H, period |-> 2],
                [buy |-> N, sell |-> N, period |-> 1]}

(* Left to its polls, the page comes to show what the server holds: the    *)
(* selected gridpool's orders, the selected order's trades, and the        *)
(* scenarios as they run.                                                  *)
PageHeals ==
  /\ part = "gridpools" => PanesHeal
  /\ part = "scenarios" => ShownHeals
=============================================================================
