----------------------------- MODULE MCService -----------------------------
(***************************************************************************)
(* A small instance of the trading service for TLC: the lists of a         *)
(* gridpool with the stream of its orders, or the calls with the stream of *)
(* public trades; each is checked by itself.                               *)
(***************************************************************************)
EXTENDS Listing, Calls

CONSTANT Parts   \* the parts a run checks

VARIABLE part

vars == <<part, listingVars, callsVars>>

(* Two processes: one places and modifies, at command line or not; the     *)
(* other cancels, looks on and watches.                                    *)
DE == [code |-> "DE", code_type |-> 1]
DERules == [currency |-> 1, durations |-> {15}, price_tick |-> 2, qty_step |-> 1]

Place(quarters, price, quantity, exec) ==
  [kind |-> "place", pool |-> 1, quarters |-> quarters, duration |-> 15,
   area |-> "DE", side |-> 1, price |-> price, quantity |-> quantity, exec |-> exec,
   tag |-> {}]
Modify(price, quantity) ==
  [kind |-> "modify", pool |-> 1, id |-> 1, price |-> price, quantity |-> quantity,
   tag |-> {}]

TypedHere == [c \in Client |->
  IF c = "C1"
  THEN {Place(0, 2, 2, {}), Place(1, 2, 1, {3}), Modify({4}, {}),
        [Place(0, 2, 1, {}) EXCEPT !.duration = 7]}
  ELSE {[kind |-> "cancel", pool |-> 1, id |-> 1], [kind |-> "cancel_all", pool |-> 1]}]

(* Of another make: orders of a gridpool there is not, one whose start has *)
(* parts of a second too many, an update of no amount, and a look.         *)
Malformed ==
  [PlacedOrder(Place(0, 2, 1, {}), 0) EXCEPT
     !.period = {[start |-> {[seconds |-> 900, nanos |-> Nanos]}, duration |-> 15]}]
WiresHere == [c \in Client |->
  IF c = "C1"
  THEN {[kind |-> "create", pool |-> 1, order |-> {Malformed}],
        [kind |-> "create", pool |-> 2, order |-> {PlacedOrder(Place(0, 2, 1, {}), 0)}],
        [kind |-> "update", pool |-> 1, id |-> 1,
         price |-> {[amount |-> {}, currency |-> 1]}, quantity |-> {},
         valid_until |-> {}, tag |-> {}]}
  ELSE {[kind |-> "get", pool |-> 1, id |-> 1], [kind |-> "cancel_all", pool |-> 2]}]
WantsHere == [c \in Client |-> IF c = "C1" THEN {} ELSE {{}, {0}}]

(* For a run of their own: a start half a second off its boundary, and an   *)
(* update whose price is in the other currency.                            *)
OddWires == [c \in Client |->
  {[kind |-> "create", pool |-> 1,
    order |-> {[PlacedOrder(Place(0, 2, 1, {}), 0) EXCEPT
                  !.period = {[start |-> {[seconds |-> 900, nanos |-> 1]},
                               duration |-> 15]}]}],
   [kind |-> "update", pool |-> 1, id |-> 1, price |-> {EncodePrice(4, 2)},
    quantity |-> {}, valid_until |-> {}, tag |-> {}]}]

FiltersHere ==
  [orders |-> {[states |-> {}, side |-> {1}], [states |-> {2}, side |-> {}],
               [states |-> {3}, side |-> {1}]},
   trades |-> {[states |-> {1}, side |-> {}], [states |-> {1}, side |-> {2}]}]

-----------------------------------------------------------------------------
Init ==
  /\ part \in Parts
  /\ ListingInit /\ CallsInit
  /\ part # "lists" => /\ list = CHOOSE l \in Lists : TRUE
                       /\ filter = CHOOSE f \in Filters[list] : TRUE

Next ==
  \/ part = "lists" /\ ListingNext /\ UNCHANGED <<part, callsVars>>
  \/ part = "calls" /\ CallsNext /\ UNCHANGED <<part, listingVars>>

Spec == Init /\ [][Next]_vars

(* The clock goes on, the service carries out what has arrived, its answer *)
(* is read, and the timer of a stream that is to close fires.              *)
FairSpec ==
  /\ Spec
  /\ WF_callsVars(part = "calls" /\ Tick)
  /\ \A c \in Client : /\ WF_callsVars(part = "calls" /\ Serve(c))
                       /\ WF_callsVars(part = "calls" /\ Return(c))
                       /\ WF_callsVars(part = "calls" /\ Close(c))
=============================================================================
