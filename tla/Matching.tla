------------------------------ MODULE Matching ------------------------------
(***************************************************************************)
(* What one sweep of the continuous matcher computes, as operators on a    *)
(* book.  A book is a function from the ids resting on it to entries       *)
(*   [area, period, side, price, qty]                                      *)
(* and `older' is the first-in-first-out order of its levels: <<j, i>> is  *)
(* in `older' iff j stands before i in the queue of one (area, period,     *)
(* side, price) level.  Quantities are counted in steps of the market's    *)
(* quantity grid.                                                          *)
(*                                                                         *)
(* The code consumes the front of the best level in a loop; here the       *)
(* outcome of the loop is given in closed form: a maker gives what is left *)
(* of the taker after everything ahead of it.  MatchLoop is the loop, and  *)
(* MatchLoopProofs proves that it computes this.                           *)
(***************************************************************************)
EXTENDS Integers, FiniteSets

CONSTANTS
  Area,         \* delivery areas
  AreaRank,     \* per area, the order in which it probes the coupled areas' books
  MaxQuantity   \* largest quantity of an order, in grid steps

ASSUME MatchingAssumption ==
  /\ MaxQuantity \in Nat \ {0}
  /\ AreaRank \in [Area -> [Area -> Nat]]
  /\ \A h, a, c \in Area : AreaRank[h][a] = AreaRank[h][c] => a = c

Side == {"Buy", "Sell"}

Mode == {"Resting", "ImmediateOrCancel", "FillOrKill"}

Opposite(side) == IF side = "Buy" THEN "Sell" ELSE "Buy"

WrongCrosses(side, limit, price) ==
  IF side = "Buy" THEN price < limit ELSE price > limit

(* A taker at `limit' may trade with an order resting at `price'.          *)
Crosses(side, limit, price) ==
  IF side = "Buy" THEN price <= limit ELSE price >= limit

(* For a taker on `side', resting price p is better than q.                *)
Better(side, p, q) ==
  IF side = "Buy" THEN p < q ELSE p > q

(* Books with the same best price: the taker's own area is probed first,   *)
(* then the coupled areas in the (fixed) order of its coupling map.        *)
ProbedBefore(home, a, c) ==
  /\ a # c /\ c # home
  /\ a = home \/ AreaRank[home][a] < AreaRank[home][c]

(* Last in, first out.                                                     *)
WrongPrecedes(b, older, t, j, i) ==
  \/ Better(t.side, b[j].price, b[i].price)
  \/ /\ b[j].price = b[i].price
     /\ \/ ProbedBefore(t.area, b[j].area, b[i].area)
        \/ /\ b[j].area = b[i].area
           /\ <<i, j>> \in older

(* Price-time priority, over all the books the taker can reach.            *)
Precedes(b, older, t, j, i) ==
  \/ Better(t.side, b[j].price, b[i].price)
  \/ /\ b[j].price = b[i].price
     /\ \/ ProbedBefore(t.area, b[j].area, b[i].area)
        \/ /\ b[j].area = b[i].area
           /\ <<j, i>> \in older

(* The resting orders a taker t may trade with, on the books of `areas'.   *)
Makers(b, t, areas) ==
  { i \in DOMAIN b : /\ b[i].area \in areas
                     /\ b[i].period = t.period
                     /\ b[i].side = Opposite(t.side)
                     /\ Crosses(t.side, t.price, b[i].price) }

(* The quantity resting in the orders S, counted lot by lot.               *)
Depth(b, S) ==
  Cardinality({ l \in S \X (1 .. MaxQuantity) : l[2] <= b[l[1]].qty })

Ahead(b, older, t, areas, i) ==
  { j \in Makers(b, t, areas) : Precedes(b, older, t, j, i) }

(* The makers a sweep of t's whole quantity comes to.                      *)
Reached(b, older, t, areas) ==
  { i \in Makers(b, t, areas) :
      Depth(b, Ahead(b, older, t, areas, i)) < t.quantity }

WrongKilled(b, t, areas) == FALSE

(* Fill-or-kill: the reachable depth is checked before anything is taken.  *)
Killed(b, t, areas) ==
  /\ t.mode = "FillOrKill"
  /\ Depth(b, Makers(b, t, areas)) < t.quantity

SmallerOf(m, n) == IF m <= n THEN m ELSE n

(* The outcome of a sweep: maker id |-> quantity taken from it.            *)
Sweep(b, older, t, areas) ==
  [ i \in IF Killed(b, t, areas) THEN {} ELSE Reached(b, older, t, areas) |->
      SmallerOf(b[i].qty,
                t.quantity - Depth(b, Ahead(b, older, t, areas, i))) ]

(* The taker's total over all fills of the sweep.                          *)
Executed(b, t, areas) ==
  IF Killed(b, t, areas) THEN 0
  ELSE SmallerOf(t.quantity, Depth(b, Makers(b, t, areas)))

(* The fills of a sweep as quantities of their own, and their total.       *)
Taken(fills) == [ i \in DOMAIN fills |-> [qty |-> fills[i]] ]

Total(fills) == Depth(Taken(fills), DOMAIN fills)

(* What is put on the taker's own book after the sweep.                    *)
Leftover(b, t, areas) ==
  IF t.mode = "Resting" THEN t.quantity - Executed(b, t, areas) ELSE 0

-----------------------------------------------------------------------------
(* The book operations.                                                    *)

(* An emptied entry stays in its queue.                                    *)
WrongConsumed(b, fills) == {}

Consumed(b, fills) == { i \in DOMAIN fills : fills[i] = b[i].qty }

Without(b, S) == [ i \in DOMAIN b \ S |-> b[i] ]

AfterFills(b, fills) ==
  [ i \in DOMAIN b \ Consumed(b, fills) |->
      IF i \in DOMAIN fills THEN [b[i] EXCEPT !.qty = @ - fills[i]]
                            ELSE b[i] ]

Entry(t, qty) ==
  [area |-> t.area, period |-> t.period, side |-> t.side,
   price |-> t.price, qty |-> qty]

(* A level is identified by everything but the quantity.                   *)
SameLevel(e, f) ==
  /\ e.area = f.area /\ e.period = f.period
  /\ e.side = f.side /\ e.price = f.price

WithEntry(b, id, e) ==
  [ i \in DOMAIN b \cup {id} |-> IF i = id THEN e ELSE b[i] ]

(* The queues once only the ids S are left on the books.                   *)
OlderWithin(older, S) == older \cap (S \X S)

(* ... and once id has been pushed on the tail of its level.               *)
OlderWith(b, older, id, e) ==
  older \cup { <<j, id>> : j \in { k \in DOMAIN b \ {id} : SameLevel(b[k], e) } }

(* The books after a sweep of t, whose leftover goes to the tail of its    *)
(* level on its own area's book.  b and ol are the books and the queues    *)
(* the sweep starts from.                                                  *)
BooksAfter(b, id, t, fills, rest) ==
  LET left == AfterFills(b, fills)
  IN IF rest > 0 THEN WithEntry(left, id, Entry(t, rest)) ELSE left

QueuesAfter(b, ol, id, t, fills, rest) ==
  LET left == AfterFills(b, fills)
      oldl == OlderWithin(ol, DOMAIN left)
  IN IF rest > 0 THEN OlderWith(left, oldl, id, Entry(t, rest)) ELSE oldl
=============================================================================
