------------------------------ MODULE PriceTime -----------------------------
(***************************************************************************)
(* What the matching engine promises its callers, who only ever see it     *)
(* between two write locks: an order that comes in trades at once, in      *)
(* price-time priority over the books it may reach, and its leftover       *)
(* rests; an order that rests can be withdrawn.                            *)
(***************************************************************************)
EXTENDS Matching

CONSTANTS
  Id,      \* order ids
  Takers,  \* incoming orders: [area, period, side, price, quantity, mode]
  Reach    \* the sets of areas an order may be matched over

VARIABLES
  book,    \* id |-> entry
  older,   \* who stands before whom
  fills    \* the outcome of the last sweep

Init ==
  /\ book = [ i \in {} |-> i ]
  /\ older = {}
  /\ fills = [ i \in {} |-> i ]

Submit(id, t, areas) ==
  /\ id \notin DOMAIN book
  /\ t.area \in areas
  /\ fills' = Sweep(book, older, t, areas)
  /\ book'  = BooksAfter(book, id, t, fills', Leftover(book, t, areas))
  /\ older' = QueuesAfter(book, older, id, t, fills', Leftover(book, t, areas))

Withdraw(id) ==
  /\ id \in DOMAIN book
  /\ book' = Without(book, {id})
  /\ older' = OlderWithin(older, DOMAIN book \ {id})
  /\ UNCHANGED fills

Next ==
  \/ \E id \in Id, t \in Takers, areas \in Reach : Submit(id, t, areas)
  \/ \E id \in Id : Withdraw(id)

Spec == Init /\ [][Next]_<<book, older, fills>>
=============================================================================
