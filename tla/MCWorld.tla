------------------------------ MODULE MCWorld ------------------------------
(***************************************************************************)
(* Small instances of World for TLC.                                       *)
(***************************************************************************)
EXTENDS World, TLC

CONSTANTS A, B, P1, P2, D1, D2

OrdersOver(areas, periods, prices, quantities, options, validities) ==
  [area: areas, period: periods, side: Side, price: prices,
   quantity: quantities, option: options, valid_until: validities]

(* One area, one period: the book and the order lifecycle.                 *)
OneRank == [h \in {A} |-> [a \in {A} |-> 0]]
OneStart == [p \in {D1} |-> 1]
OnePoolAreas == [g \in {P1, P2} |-> {A}]
BothReject == [g \in {P1, P2} |-> "Reject"]
NoCoupling == [e \in {} |-> [gate_offset |-> 0, capacity |-> 0]]

Req(area, side, price, qty, option, valid) ==
  [area |-> area, period |-> D1, side |-> side, price |-> price,
   quantity |-> qty, option |-> option, valid_until |-> valid]

LifecycleRequests ==
  { Req(A, "Buy", 2, 2, "None", Never), Req(A, "Buy", 1, 1, "None", Never),
    Req(A, "Sell", 1, 2, "None", Never), Req(A, "Sell", 2, 1, "None", Never) }
LifecycleUpdates ==
  { [price |-> 2, quantity |-> 2, valid_until |-> Never],
    [price |-> 1, quantity |-> 1, valid_until |-> Never] }

PoolSymmetry == Permutations({P1, P2})

(* Two coupled areas, one period that starts at 2.                         *)
TwoRank == [h \in {A, B} |-> [a \in {A, B} |-> IF a = A THEN 0 ELSE 1]]
TwoStart == [p \in {D1} |-> 2]
TwoPoolAreas == [g \in {P1, P2} |-> IF g = P1 THEN {A, B} ELSE {A}]
RejectAllow == [g \in {P1, P2} |-> IF g = P1 THEN "Reject" ELSE "Allow"]
CappedEdge == [e \in {{A, B}} |-> [gate_offset |-> 1, capacity |-> 2]]
TightEdge == [e \in {{A, B}} |-> [gate_offset |-> 1, capacity |-> 1]]

CoupledRequests ==
  { Req(A, "Buy", 2, 2, "None", Never), Req(A, "Sell", 1, 2, "Fok", Never),
    Req(B, "Buy", 2, 2, "Fok", Never),  Req(B, "Sell", 1, 1, "None", 1),
    Req(A, "Buy", 2, 2, "Ioc", Never) }
CoupledCpRequests ==
  { Req(A, "Sell", 2, 1, "None", Never), Req(B, "Sell", 1, 1, "None", Never),
    Req(B, "Buy", 2, 1, "None", Never),  Req(B, "Sell", 2, 2, "Ioc", Never) }

(* An order whose validity is over when it is entered.                     *)
ExpiringRequests ==
  { Req(A, "Buy", 2, 2, "None", 1), Req(A, "Sell", 2, 1, "None", 0) }

(* Two orders of one level, of which the first is made smaller.            *)
PriorityRequests == { Req(A, "Buy", 2, 2, "None", Never) }
PriorityUpdates == { [price |-> 2, quantity |-> 1, valid_until |-> Never] }
=============================================================================
