----------------------------- MODULE MCQuoting -----------------------------
(***************************************************************************)
(* Small instances of Quoting for TLC: prices of a few ticks around zero   *)
(* and above it, two recipes, the larger of them with two bands.           *)
(***************************************************************************)
EXTENDS Quoting

Valid ==
  { [spreads |-> <<2, 5>>, onGrid |-> TRUE, follow |-> 1],
    [spreads |-> <<2>>, onGrid |-> TRUE, follow |-> 2] }
OneOffGrid ==
  { [spreads |-> <<2>>, onGrid |-> TRUE, follow |-> 0],
    [spreads |-> <<2>>, onGrid |-> FALSE, follow |-> 1] }
NoTilt == {0}
SmallTilts == {4}
Up == {9, 16}
Below == {-12, 4}
Calls == {20}
NearZero == {-1, 5}
=============================================================================
