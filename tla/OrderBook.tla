------------------------------ MODULE OrderBook -----------------------------
(***************************************************************************)
(* The data structure behind one contract's book: per side, a sorted map   *)
(* from price to the queue of the orders resting there, and an index from  *)
(* order id to (side, price).  A level is a non-empty sequence; a side is  *)
(* a function from its prices to levels.                                   *)
(***************************************************************************)
EXTENDS Matching, Sequences, SequencesExt

EmptyBook ==
  [levels |-> [side \in Side |-> [ p \in {} |-> << >> ]],
   by_id  |-> [ i \in {} |-> <<>> ]]

LevelAt(levels, price) ==
  IF price \in DOMAIN levels THEN levels[price] ELSE << >>

(* A level that has become empty is removed from the map. *)
SetLevel(levels, price, queue) ==
  IF queue = << >> THEN Without(levels, {price})
                   ELSE WithEntry(levels, price, queue)

Insert(b, side, price, r) ==
  IF r.id \in DOMAIN b.by_id THEN b
  ELSE [b EXCEPT !.levels[side] =
                   SetLevel(@, price, Append(LevelAt(@, price), r)),
                 !.by_id = WithEntry(@, r.id, <<side, price>>)]

(* Where an id stands in a queue that holds it. *)
PlaceIn(queue, id) == CHOOSE n \in DOMAIN queue : queue[n].id = id

Cancel(b, id) ==
  IF id \notin DOMAIN b.by_id THEN b
  ELSE LET side  == b.by_id[id][1]
           price == b.by_id[id][2]
           queue == b.levels[side][price]
       IN [b EXCEPT !.levels[side] =
                      SetLevel(@, price, RemoveAt(queue, PlaceIn(queue, id))),
                    !.by_id = Without(@, {id})]

OppositeIsEmpty(b, taker) == DOMAIN b.levels[Opposite(taker)] = {}

(* The best price a taker finds: the lowest ask, or the highest bid. *)
PeekOpposite(b, taker) ==
  CHOOSE p \in DOMAIN b.levels[Opposite(taker)] :
    \A q \in DOMAIN b.levels[Opposite(taker)] : ~Better(taker, q, p)

(* A maker that is used up is left at the head of its queue. *)
WrongConsumeFront(b, taker, max_qty) ==
  LET price == PeekOpposite(b, taker)
      queue == b.levels[Opposite(taker)][price]
      maker == Head(queue)
      taken == SmallerOf(max_qty, maker.open_qty)
  IN [book  |-> [b EXCEPT !.levels[Opposite(taker)][price][1].open_qty =
                            @ - taken],
      maker |-> maker.id, taken |-> taken]

(* Take up to max_qty from the front of the best opposite level. *)
ConsumeFront(b, taker, max_qty) ==
  LET price == PeekOpposite(b, taker)
      queue == b.levels[Opposite(taker)][price]
      maker == Head(queue)
      taken == SmallerOf(max_qty, maker.open_qty)
      gone  == taken = maker.open_qty
      after == IF gone THEN Tail(queue)
               ELSE <<[maker EXCEPT !.open_qty = @ - taken]>> \o Tail(queue)
  IN [book  |-> [b EXCEPT !.levels[Opposite(taker)] = SetLevel(@, price, after),
                          !.by_id = IF gone THEN Without(@, {maker.id}) ELSE @],
      maker |-> maker.id, taken |-> taken]

(* The entries a taker may come to, by price and place in the level.       *)
MarketableOrders(b, taker, limit) ==
  LET levels == b.levels[Opposite(taker)]
      reached == { p \in DOMAIN levels : Crosses(taker, limit, p) }
  IN [ x \in UNION { {p} \X DOMAIN levels[p] : p \in reached } |->
         [id |-> levels[x[1]][x[2]].id, price |-> x[1],
          qty |-> levels[x[1]][x[2]].open_qty] ]

MarketableDepth(b, taker, limit) ==
  LET orders == MarketableOrders(b, taker, limit)
  IN Depth(orders, DOMAIN orders)

(* match_limit, the matcher of one book: makers are taken from the front   *)
(* while the best price crosses and the taker wants more (each turn ends   *)
(* the taker or a maker, so there are no more turns than makers); what is  *)
(* left of an order that may rest goes on the same book.                   *)
Turn(s, side, price) ==
  IF \/ s.left = 0
     \/ OppositeIsEmpty(s.book, side)
     \/ ~Crosses(side, price, PeekOpposite(s.book, side))
  THEN s
  ELSE LET c == ConsumeFront(s.book, side, s.left)
       IN [book |-> c.book, left |-> s.left - c.taken,
           fills |-> WithEntry(s.fills, c.maker, c.taken)]

Turns(b, side, price, quantity) ==
  LET turns[n \in 0 .. Cardinality(DOMAIN b.by_id)] ==
        IF n = 0
        THEN [book |-> b, left |-> quantity, fills |-> [ i \in {} |-> i ]]
        ELSE Turn(turns[n - 1], side, price)
  IN turns

MatchLimit(b, id, side, price, quantity, mode) ==
  LET turns == Turns(b, side, price, quantity)
      swept == turns[Cardinality(DOMAIN b.by_id)]
  IN IF mode = "FillOrKill" /\ MarketableDepth(b, side, price) < quantity
     THEN turns[0]
     ELSE IF mode = "Resting" /\ swept.left > 0
     THEN [swept EXCEPT !.book = Insert(@, side, price,
                                        [id |-> id, open_qty |-> swept.left])]
     ELSE swept

-----------------------------------------------------------------------------
(* The invariants the structure documents: every id of the index is in     *)
(* exactly one queue, the one of its side and price, and nowhere else; no  *)
(* queue holds an id the index does not know, or an entry of nothing; no   *)
(* level is empty.                                                         *)
Occurrences(b, id) ==
  UNION { UNION { { <<side, p, n>> : n \in { m \in DOMAIN b.levels[side][p] :
                                               b.levels[side][p][m].id = id } } :
                  p \in DOMAIN b.levels[side] } :
          side \in Side }

IndexMatchesQueues(b) ==
  /\ \A id \in DOMAIN b.by_id :
       \E side \in Side : \E p \in DOMAIN b.levels[side] :
         /\ b.by_id[id] = <<side, p>>
         /\ \E n \in DOMAIN b.levels[side][p] :
              Occurrences(b, id) = {<<side, p, n>>}
  /\ \A side \in Side : \A p \in DOMAIN b.levels[side] :
       /\ b.levels[side][p] # << >>
       /\ \A n \in DOMAIN b.levels[side][p] :
            /\ b.levels[side][p][n].id \in DOMAIN b.by_id
            /\ b.levels[side][p][n].open_qty > 0
=============================================================================
