------------------------------ MODULE MatchLoop -----------------------------
(***************************************************************************)
(* The matcher as the code runs it: candidate books, the fill-or-kill      *)
(* check, one maker per turn of the loop, the leftover.  The loop runs     *)
(* under the write lock; what the other tasks can see of the books is      *)
(* `committed', the books when the lock was last free.                     *)
(*                                                                         *)
(* All the books here are of one delivery period: a sweep concerns one.    *)
(***************************************************************************)
EXTENDS OrderBook

CONSTANTS
  Id,        \* order ids
  Delivery,  \* the period of the books
  Takers,    \* incoming orders: [area, period, side, price, quantity, mode]
  Reach      \* the sets of areas an order may be matched over

ASSUME MatchLoopAssumption ==
  /\ Takers \subseteq [area : Area, period : {Delivery}, side : Side, price : Int,
                       quantity : 1 .. MaxQuantity, mode : Mode]
  /\ Reach \subseteq SUBSET Area /\ IsFiniteSet(Area)

VARIABLES
  books,      \* area |-> book
  pc,         \* "idle", "sweep" or "rest"
  taker,      \* the incoming order; its quantity is what is left of it
  id,         \* its id; 0 while the lock is free
  keys,       \* the areas of the candidate books, in probing order
  taken,      \* the fills so far: maker |-> quantity
  walk,       \* the makers the self-trade check came across
  committed,  \* the books between two write locks
  report      \* the fills of the last finished sweep

vars == <<books, pc, taker, id, keys, taken, walk, committed, report>>

NoFills == [ i \in {} |-> i ]

Init ==
  /\ books = [a \in Area |-> EmptyBook]
  /\ pc = "idle"
  /\ taker = << >>
  /\ id = 0
  /\ keys = << >>
  /\ taken = NoFills
  /\ walk = {}
  /\ committed = books
  /\ report = NoFills

(* candidate_keys: the home book first, then the coupled areas. *)
CandidateKeys(home, areas) ==
  <<home>> \o (CHOOSE ks \in SetToSeqs(areas \ {home}) :
                 \A i, j \in DOMAIN ks :
                   i < j => AreaRank[home][ks[i]] < AreaRank[home][ks[j]])

(* The marketable entries of all candidate books, by key, price and place. *)
Walked(t, ks) ==
  LET orders(k) == MarketableOrders(books[ks[k]], t.side, t.price)
  IN [ x \in UNION { {k} \X DOMAIN orders(k) : k \in DOMAIN ks } |->
         orders(x[1])[x[2]] ]

(* would_self_trade: they are sorted by price, each book's stay in their   *)
(* order and the books in theirs (the sort is stable), and walked until    *)
(* the quantity is covered.                                                *)
WrongSelfTradeWalk(t, ks) ==
  LET walked == Walked(t, ks)
      ahead(x) == { y \in DOMAIN walked :
                      Better(t.side, walked[y].price, walked[x].price) }
  IN { walked[x].id : x \in { y \in DOMAIN walked :
                                Depth(walked, ahead(y)) < t.quantity } }

SelfTradeWalk(t, ks) ==
  LET walked == Walked(t, ks)
      ahead(x) == { y \in DOMAIN walked :
                      \/ Better(t.side, walked[y].price, walked[x].price)
                      \/ /\ walked[y].price = walked[x].price
                         /\ \/ y[1] < x[1]
                            \/ y[1] = x[1] /\ y[2][2] < x[2][2] }
  IN { walked[x].id : x \in { y \in DOMAIN walked :
                                Depth(walked, ahead(y)) < t.quantity } }

(* The fill-or-kill check over all candidate books. *)
Infeasible(t, ks) ==
  LET walked == Walked(t, ks)
  IN t.mode = "FillOrKill" /\ Depth(walked, DOMAIN walked) < t.quantity

(* The write lock is given back. *)
Commit(bs, fills) ==
  /\ pc' = "idle"
  /\ taker' = << >> /\ id' = 0 /\ keys' = << >>
  /\ taken' = NoFills /\ walk' = {}
  /\ books' = bs
  /\ committed' = bs
  /\ report' = fills

(* The write lock is taken for order i. *)
Begin(i, t, areas) ==
  LET ks == CandidateKeys(t.area, areas)
  IN /\ pc = "idle"
     /\ \A a \in Area : i \notin DOMAIN books[a].by_id
     /\ t.area \in areas
     /\ IF Infeasible(t, ks)
        THEN Commit(books, NoFills)
        ELSE /\ pc' = "sweep"
             /\ taker' = t /\ id' = i /\ keys' = ks /\ taken' = NoFills
             /\ walk' = SelfTradeWalk(t, ks)
             /\ UNCHANGED <<books, committed, report>>

Marketable ==
  { k \in DOMAIN keys :
      /\ ~OppositeIsEmpty(books[keys[k]], taker.side)
      /\ Crosses(taker.side, taker.price,
                 PeekOpposite(books[keys[k]], taker.side)) }

(* The best of several areas is the last one probed. *)
WrongBestKey ==
  CHOOSE k \in Marketable : \A j \in Marketable \ {k} :
    LET p == PeekOpposite(books[keys[k]], taker.side)
        q == PeekOpposite(books[keys[j]], taker.side)
    IN Better(taker.side, p, q) \/ (p = q /\ k > j)

(* min_by over the candidates' best prices: the first of equal ones.       *)
BestKey ==
  CHOOSE k \in Marketable : \A j \in Marketable \ {k} :
    LET p == PeekOpposite(books[keys[k]], taker.side)
        q == PeekOpposite(books[keys[j]], taker.side)
    IN Better(taker.side, p, q) \/ (p = q /\ k < j)

(* One turn of the loop. *)
TakeBest ==
  /\ pc = "sweep"
  /\ Marketable # {}
  /\ LET a == keys[BestKey]
         c == ConsumeFront(books[a], taker.side, taker.quantity)
     IN /\ books' = [books EXCEPT ![a] = c.book]
        /\ taken' = WithEntry(taken, c.maker, c.taken)
        /\ taker' = [taker EXCEPT !.quantity = @ - c.taken]
        /\ pc' = IF taker'.quantity = 0 THEN "rest" ELSE "sweep"
  /\ UNCHANGED <<id, keys, walk, committed, report>>

NoneLeft ==
  /\ pc = "sweep"
  /\ Marketable = {}
  /\ pc' = "rest"
  /\ UNCHANGED <<books, taker, id, keys, taken, walk, committed, report>>

(* The leftover of a resting order goes on its own area's book. *)
Rested ==
  IF taker.mode = "Resting" /\ taker.quantity > 0
  THEN [books EXCEPT ![taker.area] =
          Insert(@, taker.side, taker.price,
                 [id |-> id, open_qty |-> taker.quantity])]
  ELSE books

Finish == pc = "rest" /\ Commit(Rested, taken)

(* A cancel, in a lock of its own. *)
Withdraw(i) ==
  /\ pc = "idle"
  /\ \E a \in Area :
       /\ i \in DOMAIN books[a].by_id
       /\ Commit([books EXCEPT ![a] = Cancel(@, i)], report)

Next ==
  \/ \E i \in Id, t \in Takers, areas \in Reach : Begin(i, t, areas)
  \/ TakeBest
  \/ NoneLeft
  \/ Finish
  \/ \E i \in Id : Withdraw(i)

Spec == Init /\ [][Next]_vars

(* The thread that holds the lock goes on. *)
FairSpec == Spec /\ WF_vars(TakeBest) /\ WF_vars(NoneLeft) /\ WF_vars(Finish)

-----------------------------------------------------------------------------
(* The structure's invariants hold on every book, in the loop as well, and *)
(* no order is on two books.                                               *)
BooksWellFormed ==
  /\ \A a \in Area : IndexMatchesQueues(books[a])
  /\ \A a, c \in Area : a # c =>
       DOMAIN books[a].by_id \cap DOMAIN books[c].by_id = {}

(* The self-trade check foresees exactly the makers the matcher then       *)
(* trades with: it refuses no order that would have been harmless, and     *)
(* lets none through that is not.                                          *)
WalkForeseesFills == pc = "rest" => DOMAIN taken = walk

(* The code has two matchers, one for a book of its own and one across     *)
(* areas.  Over its home book alone, the one across areas fills the same   *)
(* makers by the same quantities, leaves the same and keeps the same book. *)
MatchersAgree ==
  (pc = "rest" /\ keys = <<taker.area>>) =>
    LET alone == MatchLimit(committed[taker.area], id, taker.side, taker.price,
                            taker.quantity + Total(taken), taker.mode)
    IN /\ alone.fills = taken
       /\ alone.left = taker.quantity
       /\ alone.book = Rested[taker.area]

(* The code walks a book in three ways, and all come to the same makers:   *)
(* the check made before the match, the matcher of one book, the loop; and *)
(* they leave the structure they walk whole.                               *)
WalksAgree == BooksWellFormed /\ WalkForeseesFills /\ MatchersAgree

(* The lock is given back: every sweep ends. *)
SweepEnds == pc = "sweep" ~> pc = "idle"

-----------------------------------------------------------------------------
(* The engine implements the price-time market.  An entry is what the      *)
(* index and the queue say of an id; j is older than i iff it stands       *)
(* before it in a queue.                                                   *)
Resting(bs) == UNION { DOMAIN bs[a].by_id : a \in Area }
HomeOf(bs, i) == CHOOSE a \in Area : i \in DOMAIN bs[a].by_id

QueueOf(b, i) == b.levels[b.by_id[i][1]][b.by_id[i][2]]
PlaceOf(b, i) == PlaceIn(QueueOf(b, i), i)
OpenOf(b, i) == QueueOf(b, i)[PlaceOf(b, i)].open_qty
StandsBefore(b, j, i) == b.by_id[j] = b.by_id[i] /\ PlaceOf(b, j) < PlaceOf(b, i)

EntryAt(bs, i) ==
  LET a == HomeOf(bs, i)
  IN [area |-> a, period |-> Delivery, side |-> bs[a].by_id[i][1],
      price |-> bs[a].by_id[i][2], qty |-> OpenOf(bs[a], i)]

Entries(bs) == [ i \in Resting(bs) |-> EntryAt(bs, i) ]
Queues(bs) == { x \in Resting(bs) \X Resting(bs) :
                  /\ HomeOf(bs, x[1]) = HomeOf(bs, x[2])
                  /\ StandsBefore(bs[HomeOf(bs, x[1])], x[1], x[2]) }

MarketBook == Entries(committed)
MarketQueues == Queues(committed)

Market == INSTANCE PriceTime WITH
  book <- MarketBook, older <- MarketQueues, fills <- report

(* Seen from outside the lock, the loop over the queues is one price-time  *)
(* priority sweep.                                                         *)
ImplementsPriceTime == Market!Spec
=============================================================================
