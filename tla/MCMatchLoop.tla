---------------------------- MODULE MCMatchLoop -----------------------------
(***************************************************************************)
(* Small instances of MatchLoop for TLC.                                   *)
(***************************************************************************)
EXTENDS MatchLoop

CONSTANTS A, B, D1

Rank == [h \in {A, B} |-> [a \in {A, B} |-> IF a = A THEN 0 ELSE 1]]

OrderIn(area, side, price, quantity, mode) ==
  [area |-> area, period |-> D1, side |-> side, price |-> price,
   quantity |-> quantity, mode |-> mode]

(* Both sides, equal and better prices on two books, and takers that need  *)
(* more than one maker.                                                    *)
SomeTakers ==
  { OrderIn(A, "Sell", 1, 1, "Resting"), OrderIn(A, "Sell", 2, 2, "Resting"),
    OrderIn(B, "Sell", 1, 2, "Resting"), OrderIn(B, "Sell", 2, 1, "Resting"),
    OrderIn(B, "Buy", 2, 3, "Resting"),  OrderIn(A, "Buy", 1, 1, "Resting"),
    OrderIn(A, "Buy", 2, 2, "FillOrKill"),
    OrderIn(B, "Buy", 2, 2, "ImmediateOrCancel") }

HomeOrAll == { {A}, {B}, {A, B} }
=============================================================================
