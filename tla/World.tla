------------------------------- MODULE World -------------------------------
(***************************************************************************)
(* The exchange state behind the `RwLock<World>': every handler runs to    *)
(* its end under the write lock, so each is one action.                    *)
(*                                                                         *)
(* Requests rejected by the code change nothing; a rejection is a guard    *)
(* that keeps the action disabled.  Requests are on the price and quantity *)
(* grids, in the market's currency, LIMIT, and aligned: the remaining      *)
(* rejections of the validators are the ones that depend on the state.     *)
(***************************************************************************)
EXTENDS Matching

CONSTANTS
  Period,                \* delivery periods
  Start,                 \* the start time of each period: its gate closure
  Gridpool,              \* portfolios
  Counterparty,          \* the taker of an order that belongs to no gridpool
  PoolAreas,             \* the areas a gridpool may trade in
  SelfTradePolicy,       \* "Reject" or "Allow", per gridpool
  Coupling,              \* {a, c} |-> [gate_offset, capacity]
  Uncapped,              \* the capacity of an edge without a cap
  Never,                 \* valid_until of an order without one
  Price,                 \* limit prices; they may be negative
  Requests,              \* orders a gridpool may submit
  CounterpartyRequests,  \* orders a counterparty may submit
  Updates,               \* modifications a gridpool may ask for
  MaxOrders,             \* bound: order ids that are minted
  MaxTime                \* bound: the last instant

OrderId  == 1 .. MaxOrders
Quantity == 1 .. MaxQuantity
Time     == 0 .. MaxTime
Contract == Area \X Period
Validity == Time \cup {Never}
Option   == {"None", "Aon", "Fok", "Ioc"}
OrderState == {"Active", "Filled", "Canceled", "Expired", "Failed"}

Order == [area: Area, period: Period, side: Side, price: Price,
          quantity: Quantity, option: Option, valid_until: Validity]

OrderUpdate == [price: Price, quantity: Quantity, valid_until: Validity]

OrderDetail == [gridpool: Gridpool, area: Area, period: Period, side: Side,
                price: Price, quantity: Quantity, option: Option,
                valid_until: Validity, state: OrderState,
                open: 0 .. MaxQuantity, filled: 0 .. MaxQuantity]

BookEntry == [area: Area, period: Period, side: Side, price: Price,
              qty: Quantity]

Edge == DOMAIN Coupling

ASSUME WorldAssumption ==
  /\ MaxOrders \in Nat
  /\ MaxTime \in Nat
  /\ Price \subseteq Int
  /\ Start \in [Period -> Time]
  /\ Counterparty \notin Gridpool
  /\ PoolAreas \in [Gridpool -> SUBSET Area]
  /\ SelfTradePolicy \in [Gridpool -> {"Reject", "Allow"}]
  /\ Coupling \in [Edge -> [gate_offset: Nat, capacity: Nat \cup {Uncapped}]]
  /\ \A e \in Edge : \E a, c \in Area : a # c /\ e = {a, c}
  /\ Uncapped \notin Nat
  /\ Never \notin Nat
  /\ Requests \subseteq Order
  /\ CounterpartyRequests \subseteq Order
  /\ Updates \subseteq OrderUpdate

VARIABLES
  now,             \* the wall clock
  suspended,       \* the market_suspended flag
  next_order_id,
  next_trade_id,
  orders,          \* the gridpools' orders: id |-> detail
  owner,           \* order_to_gridpool: id of a resting pool order |-> pool
  book,            \* the books: id |-> entry
  older,           \* the queues of the books' levels
  coupling_fills,  \* quantity that has crossed each edge, per period
  tape,            \* public_trade_history
  trades,          \* each gridpool's private trades
  shown            \* the book a subscriber builds from the public book events

vars == <<now, suspended, next_order_id, next_trade_id, orders, owner, book,
          older, coupling_fills, tape, trades, shown>>

(* The function on no ids. *)
Empty == [ i \in {} |-> i ]

Init ==
  /\ now = 0
  /\ suspended = FALSE
  /\ next_order_id = 1
  /\ next_trade_id = 1
  /\ orders = Empty
  /\ owner = Empty
  /\ book = Empty
  /\ older = {}
  /\ coupling_fills = [x \in Edge \X Period |-> 0]
  /\ tape = {}
  /\ trades = [g \in Gridpool |-> {}]
  /\ shown = Empty

-----------------------------------------------------------------------------
IsTerminal(state) == state \in {"Filled", "Canceled", "Expired", "Failed"}

ExecMode(option) ==
  CASE option = "Fok" -> "FillOrKill"
    [] option = "Ioc" -> "ImmediateOrCancel"
    [] OTHER          -> "Resting"

Taker(o, qty, mode) ==
  [area |-> o.area, period |-> o.period, side |-> o.side, price |-> o.price,
   quantity |-> qty, mode |-> mode]

(* The gates are judged by the time a handler was given.                   *)
GateClosed(p, at) == Start[p] <= at

(* Never below 0: one sweep may overshoot the cap. *)
RemainingCapacity(e, p) ==
  IF coupling_fills[<<e, p>>] > Coupling[e].capacity THEN 0
  ELSE Coupling[e].capacity - coupling_fills[<<e, p>>]

(* The coupling between `home' and a is open for the period: its gate      *)
(* closes gate_offset before delivery (an offset of 0 has no gate of its   *)
(* own), and its capacity for the period is not used up.                   *)
EdgeOpen(home, a, p, at) ==
  /\ {home, a} \in Edge
  /\ LET c == Coupling[{home, a}]
     IN /\ c.gate_offset > 0 => at < Start[p] - c.gate_offset
        /\ c.capacity # Uncapped => RemainingCapacity({home, a}, p) > 0

WrongCandidateAreas(home, p, at) == {home}

WrongCandidateAreasNoGate(home, p, at) ==
  {home} \cup { a \in Area : {home, a} \in Edge }

(* The areas whose books an order of `home' is matched against; computed   *)
(* once, before the sweep.                                                 *)
CandidateAreas(home, p, at) ==
  {home} \cup { a \in Area : EdgeOpen(home, a, p, at) }

(* validate_common: what every order must satisfy, whoever submits it.     *)
ValidateCommon(o, at) ==
  /\ ~suspended
  /\ ~GateClosed(o.period, at)

(* Only the taker's own book is looked at.                                 *)
WrongWouldSelfTrade(g, o, areas) ==
  \E i \in Reached(book, older, Taker(o, o.quantity, ExecMode(o.option)),
                   {o.area}) :
    i \in DOMAIN owner /\ owner[i] = g

WouldSelfTrade(g, o, areas) ==
  \E i \in Reached(book, older, Taker(o, o.quantity, ExecMode(o.option)), areas) :
    i \in DOMAIN owner /\ owner[i] = g

-----------------------------------------------------------------------------
(* The parts of a handler.                                                 *)

(* emit_book_event for each id in `touched': a subscriber then has of it   *)
(* what is on the books after the step.                                    *)
EmitBookEvents(touched) ==
  shown' = [ i \in (DOMAIN shown \ touched) \cup (touched \cap DOMAIN book') |->
               IF i \in touched THEN book'[i] ELSE shown[i] ]

WrongTradeId(t, fills, i) == next_trade_id

(* Trade ids are minted one per fill, in the order of the fills.           *)
TradeId(t, fills, i) ==
  next_trade_id
    + Cardinality({ j \in DOMAIN fills : Precedes(book, older, t, j, i) })

PublicTrade(t, fills, i, at) ==
  [id |-> TradeId(t, fills, i),
   buy_area  |-> IF t.side = "Buy" THEN t.area ELSE book[i].area,
   sell_area |-> IF t.side = "Buy" THEN book[i].area ELSE t.area,
   period |-> t.period, price |-> book[i].price, quantity |-> fills[i],
   time |-> at]

Trade(t, fills, i, order_id, side, area) ==
  [id |-> TradeId(t, fills, i), order_id |-> order_id, side |-> side,
   area |-> area, period |-> t.period, price |-> book[i].price,
   quantity |-> fills[i]]

WrongMakerAfterFill(d, taken) ==
  [d EXCEPT !.filled = @ + taken, !.open = @ - taken]

MakerAfterFill(d, taken) ==
  [d EXCEPT !.filled = @ + taken,
            !.open   = @ - taken,
            !.state  = IF d.open = taken THEN "Filled" ELSE @]

(* The makers' details after the fills; the ones with a binding are a      *)
(* gridpool's.                                                             *)
MakersAfter(fills) ==
  [ i \in DOMAIN orders |->
      IF i \in DOMAIN fills \cap DOMAIN owner
      THEN MakerAfterFill(orders[i], fills[i]) ELSE orders[i] ]

WrongOwnersAfter(fills) == owner

(* The fully filled makers lose their binding.                             *)
OwnersAfter(fills) ==
  [ i \in { j \in DOMAIN owner : ~ /\ j \in DOMAIN fills
                                   /\ orders[j].open = fills[j] } |-> owner[i] ]

(* record_fill for every fill: trade ids, the taker's and the makers'      *)
(* private trades, and the public tape.  g is the taker's gridpool, or     *)
(* Counterparty.                                                           *)
RecordTrades(g, id, t, fills, at) ==
  /\ next_trade_id' = next_trade_id + Cardinality(DOMAIN fills)
  /\ tape' = tape \cup { PublicTrade(t, fills, i, at) : i \in DOMAIN fills }
  /\ trades' =
       [ h \in Gridpool |->
           trades[h]
             \cup { Trade(t, fills, i, id, t.side, t.area) :
                      i \in { j \in DOMAIN fills : h = g } }
             \cup { Trade(t, fills, i, i, Opposite(t.side), book[i].area) :
                      i \in { j \in DOMAIN fills \cap DOMAIN owner :
                                owner[j] = h } } ]

WrongDebitCapacity(t, fills) == UNCHANGED coupling_fills

(* debit_capacity for the fills that crossed an edge.                      *)
DebitCapacity(t, fills) ==
  coupling_fills' =
    [ x \in Edge \X Period |->
        coupling_fills[x]
          + Cardinality({ l \in (DOMAIN fills) \X Quantity :
                            /\ x = <<{t.area, book[l[1]].area}, t.period>>
                            /\ l[2] <= fills[l[1]] }) ]

(* The books and the queues after a sweep of t. *)
Rebook(b, ol, id, t, fills, rest) ==
  /\ book'  = BooksAfter(b, id, t, fills, rest)
  /\ older' = QueuesAfter(b, ol, id, t, fills, rest)

(* admit_and_match: mint the id, sweep, record the fills.                  *)
AdmitAndMatch(g, t, areas, at) ==
  LET fills == Sweep(book, older, t, areas)
      rest  == Leftover(book, t, areas)
  IN /\ next_order_id' = next_order_id + 1
     /\ Rebook(book, older, next_order_id, t, fills, rest)
     /\ DebitCapacity(t, fills)
     /\ RecordTrades(g, next_order_id, t, fills, at)
     /\ EmitBookEvents(DOMAIN fills
                         \cup IF rest > 0 THEN {next_order_id} ELSE {})

(* The state an admitted order starts in.                                  *)
AdmitState(mode, rests, filled, quantity) ==
  CASE rests                                     -> "Active"
    [] ~rests /\ filled > 0 /\ filled = quantity -> "Filled"
    [] ~rests /\ filled = 0 /\ mode # "Resting"  -> "Canceled"
    [] /\ ~rests /\ filled > 0 /\ filled < quantity
       /\ mode = "ImmediateOrCancel"             -> "Canceled"
    [] OTHER                                     -> "Failed"

-----------------------------------------------------------------------------
(* submit_order: CreateGridpoolOrder, which reads the clock under the lock. *)
SubmitOrder(g, o) ==
  LET t      == Taker(o, o.quantity, ExecMode(o.option))
      areas  == CandidateAreas(o.area, o.period, now)
      fills  == Sweep(book, older, t, areas)
      rests  == Leftover(book, t, areas) > 0
      filled == Executed(book, t, areas)
      id     == next_order_id
      detail == [gridpool |-> g, area |-> o.area, period |-> o.period,
                 side |-> o.side, price |-> o.price, quantity |-> o.quantity,
                 option |-> o.option, valid_until |-> o.valid_until,
                 state |-> AdmitState(t.mode, rests, filled, o.quantity),
                 open |-> o.quantity - filled, filled |-> filled]
  IN /\ id \in OrderId
     /\ o.area \in PoolAreas[g]
     /\ ValidateCommon(o, now)
     /\ o.option # "Aon"
     /\ o.option # "None" => o.valid_until = Never
     /\ SelfTradePolicy[g] = "Reject" => ~WouldSelfTrade(g, o, areas)
     /\ AdmitAndMatch(g, t, areas, now)
     /\ orders' = [ i \in DOMAIN orders \cup {id} |->
                      IF i = id THEN detail ELSE MakersAfter(fills)[i] ]
     /\ owner' = [ i \in DOMAIN OwnersAfter(fills)
                           \cup (IF rests THEN {id} ELSE {}) |->
                     IF i = id THEN g ELSE owner[i] ]
     /\ UNCHANGED <<now, suspended>>

(* submit_counterparty_order: what rests of it is bound to no gridpool.    *)
(* It is judged by the time `at' of its caller.  A maker reads the clock   *)
(* before it waits for the lock, however long it then waits; an aggressor, *)
(* whose orders are the immediate ones, reads it once it has the lock.     *)
SubmitCounterpartyOrder(o, at) ==
  LET t     == Taker(o, o.quantity, ExecMode(o.option))
      areas == CandidateAreas(o.area, o.period, at)
      fills == Sweep(book, older, t, areas)
  IN /\ next_order_id \in OrderId
     /\ at <= now
     /\ o.option = "Ioc" => at = now
     /\ ValidateCommon(o, at)
     /\ AdmitAndMatch(Counterparty, t, areas, at)
     /\ orders' = MakersAfter(fills)
     /\ owner' = OwnersAfter(fills)
     /\ UNCHANGED <<now, suspended>>

(* No qty = 0 event.                                                       *)
WrongUnrest(S) ==
  /\ book' = Without(book, S)
  /\ older' = OlderWithin(older, DOMAIN book \ S)
  /\ owner' = Without(owner, S)
  /\ UNCHANGED shown

(* Take the ids S off the books and the bindings.                          *)
Unrest(S) ==
  /\ book' = Without(book, S)
  /\ older' = OlderWithin(older, DOMAIN book \ S)
  /\ owner' = Without(owner, S)
  /\ EmitBookEvents(S \cap DOMAIN book)

(* cancel_counterparty_order: callers hold only the ids they submitted.    *)
CancelCounterpartyOrder(id) ==
  /\ id \in DOMAIN book
  /\ id \notin DOMAIN orders
  /\ Unrest({id})
  /\ UNCHANGED <<now, suspended, next_order_id, next_trade_id, orders,
                 coupling_fills, tape, trades>>

(* The orders S of gridpool g reach a terminal state without trading.      *)
Close(S, state) ==
  orders' = [ i \in DOMAIN orders |->
                IF i \in S THEN [orders[i] EXCEPT !.state = state]
                           ELSE orders[i] ]

WrongLive(id) == id \in DOMAIN orders

Live(id) == id \in DOMAIN orders /\ ~IsTerminal(orders[id].state)

Bound(S) == { i \in S : i \in DOMAIN owner /\ owner[i] = orders[i].gridpool }

(* cancel_order_with_actor on the orders S.                                *)
CancelOrders(S) ==
  /\ S # {}
  /\ Close(S, "Canceled")
  /\ Unrest(Bound(S))
  /\ UNCHANGED <<now, suspended, next_order_id, next_trade_id,
                 coupling_fills, tape, trades>>

(* cancel_order, and recall_order, which finds the pool of the id itself.  *)
CancelOrder(id) ==
  /\ Live(id)
  /\ CancelOrders({id})

(* CancelAllGridpoolOrders: one write lock over every cancel.              *)
CancelAllOrders(g) ==
  CancelOrders({ i \in DOMAIN orders : Live(i) /\ orders[i].gridpool = g })

Lapsed(id) ==
  \/ orders[id].valid_until # Never /\ orders[id].valid_until <= now
  \/ GateClosed(orders[id].period, now)

(* The counterparties' orders are forgotten.                               *)
WrongExpireLapsedOrders ==
  LET S == { i \in DOMAIN orders : Live(i) /\ Lapsed(i) }
  IN /\ S # {}
     /\ Close(S, "Expired")
     /\ Unrest(Bound(S))
     /\ UNCHANGED <<now, suspended, next_order_id, next_trade_id,
                    coupling_fills, tape, trades>>

(* expire_lapsed_orders, run every second: pool orders that have lapsed,   *)
(* then whatever rests unbound on a gate-closed book.                      *)
ExpireLapsedOrders ==
  LET S      == { i \in DOMAIN orders : Live(i) /\ Lapsed(i) }
      orphan == { i \in DOMAIN book \ S :
                    GateClosed(book[i].period, now) /\ i \notin DOMAIN owner }
  IN /\ S \cup orphan # {}
     /\ Close(S, "Expired")
     /\ Unrest(Bound(S) \cup orphan)
     /\ UNCHANGED <<now, suspended, next_order_id, next_trade_id,
                    coupling_fills, tape, trades>>

(* modify_order: the order leaves the book, takes its new terms, and is    *)
(* matched again on its own area's book only.  No book event is emitted.   *)
ModifyOrder(id, upd) ==
  LET d     == orders[id]
      g     == d.gridpool
      off   == Bound({id})
      b     == Without(book, off)
      ol    == OlderWithin(older, DOMAIN b)
      valid == IF upd.valid_until = Never THEN d.valid_until
                                          ELSE upd.valid_until
      open  == upd.quantity - d.filled
      t     == Taker([d EXCEPT !.price = upd.price], open, "Resting")
      fills == IF open = 0 THEN Empty ELSE Sweep(b, ol, t, {d.area})
      taken == IF open = 0 THEN 0 ELSE Executed(b, t, {d.area})
      rest  == open - taken
      after == [d EXCEPT !.price = upd.price, !.quantity = upd.quantity,
                         !.valid_until = valid,
                         !.filled = @ + taken, !.open = rest,
                         !.state = IF rest = 0 THEN "Filled" ELSE "Active"]
  IN /\ Live(id)
     /\ upd.quantity > 0
     /\ upd.quantity >= d.filled
     /\ Rebook(b, ol, id, t, fills, rest)
     /\ RecordTrades(g, id, t, fills, now)
     /\ orders' = [ i \in DOMAIN orders |->
                      IF i = id THEN after ELSE MakersAfter(fills)[i] ]
     /\ owner' = [ i \in (DOMAIN OwnersAfter(fills) \ off)
                           \cup (IF rest > 0 THEN {id} ELSE {}) |->
                     IF i = id THEN g ELSE owner[i] ]
     /\ UNCHANGED <<now, suspended, next_order_id, coupling_fills, shown>>

(* (suspend-market) and (resume-market).                                   *)
SetSuspended ==
  /\ suspended' = ~suspended
  /\ UNCHANGED <<now, next_order_id, next_trade_id, orders, owner, book,
                 older, coupling_fills, tape, trades, shown>>

Tick ==
  /\ now < MaxTime
  /\ now' = now + 1
  /\ UNCHANGED <<suspended, next_order_id, next_trade_id, orders, owner, book,
                 older, coupling_fills, tape, trades, shown>>

Next ==
  \/ \E g \in Gridpool, o \in Requests : SubmitOrder(g, o)
  \/ \E o \in CounterpartyRequests, at \in Time : SubmitCounterpartyOrder(o, at)
  \/ \E id \in OrderId : CancelOrder(id)
  \/ \E id \in OrderId : CancelCounterpartyOrder(id)
  \/ \E g \in Gridpool : CancelAllOrders(g)
  \/ \E id \in OrderId, upd \in Updates : ModifyOrder(id, upd)
  \/ ExpireLapsedOrders
  \/ SetSuspended
  \/ Tick

Spec == Init /\ [][Next]_vars

(* The expiry sweep is run by a one-second ticker of its own task, and the *)
(* clock does not stop.                                                    *)
FairSpec == Spec /\ WF_vars(ExpireLapsedOrders) /\ WF_vars(Tick)

-----------------------------------------------------------------------------
(* Every variable keeps its type, and only what is on a book is bound to a *)
(* pool or stands in a queue: Unrest and the handlers' own updates of the  *)
(* maps take an order off all of them together.                            *)
TypeOK ==
  /\ now \in Time
  /\ suspended \in BOOLEAN
  /\ next_order_id \in 1 .. MaxOrders + 1
  /\ next_trade_id \in Nat
  /\ DOMAIN orders \subseteq 1 .. next_order_id - 1
  /\ \A i \in DOMAIN orders : orders[i] \in OrderDetail
  /\ DOMAIN book \subseteq 1 .. next_order_id - 1
  /\ \A i \in DOMAIN book : book[i] \in BookEntry
  /\ DOMAIN owner \subseteq DOMAIN book
  /\ \A i \in DOMAIN owner : owner[i] \in Gridpool
  /\ older \subseteq (DOMAIN book) \X (DOMAIN book)
  /\ coupling_fills \in [Edge \X Period -> Nat]

(* Volume of a set of trades, counted lot by lot.                          *)
Volume(S) ==
  Cardinality({ l \in S \X Quantity : l[2] <= l[1].quantity })

(* The three views of a resting order agree: a pool order is live exactly  *)
(* when it is bound and on the book, and its book entry carries its own    *)
(* terms and its open quantity.  The code keeps these in three maps that   *)
(* submit, fill, modify, cancel and expiry each update by hand.            *)
LiveOrdersAreBound == \A i \in DOMAIN orders : Live(i) <=> i \in DOMAIN owner
BoundOrdersRest    == DOMAIN owner = DOMAIN orders \cap DOMAIN book
EntriesMatchOrders ==
  \A i \in DOMAIN owner :
    /\ owner[i] = orders[i].gridpool
    /\ book[i] = Entry(orders[i], orders[i].open)
BookMatchesOrders == LiveOrdersAreBound /\ BoundOrdersRest /\ EntriesMatchOrders

(* An order's quantity is what was filled plus what is open, whatever      *)
(* sequence of fills, modifications and closures it went through; it is    *)
(* Filled exactly when nothing is open; and no order ends in the Failed    *)
(* state the admission table keeps for combinations called unreachable.    *)
OrdersBalance ==
  \A i \in DOMAIN orders :
    /\ orders[i].open + orders[i].filled = orders[i].quantity
    /\ orders[i].state = "Filled" <=> orders[i].open = 0
    /\ orders[i].state # "Failed"

(* An order's filled quantity is the volume of its private trades, every   *)
(* private trade is on the public tape under its id with the same terms,   *)
(* the two sides of a trade are two different records, and trade ids are   *)
(* never reused.                                                           *)
TradesMatchOrders ==
  /\ \A i \in DOMAIN orders :
       orders[i].filled =
         Volume({ x \in trades[orders[i].gridpool] : x.order_id = i })
  /\ \A g \in Gridpool : \A x \in trades[g] : \E y \in tape :
       /\ y.id = x.id /\ y.period = x.period
       /\ y.price = x.price /\ y.quantity = x.quantity
       /\ x.area = IF x.side = "Buy" THEN y.buy_area ELSE y.sell_area
  /\ \A g, h \in Gridpool : \A x \in trades[g], y \in trades[h] :
       x.id = y.id /\ x.side = y.side => x = y /\ g = h
  /\ { y.id : y \in tape } = 1 .. next_trade_id - 1
  /\ \A x, y \in tape : x.id = y.id => x = y

(* Whatever rests on one contract's book, its best bid stays below its     *)
(* best ask: no operation leaves orders that should have traded.           *)
NoCrossedBook ==
  \A i, j \in DOMAIN book :
    /\ book[i].area = book[j].area /\ book[i].period = book[j].period
    /\ book[i].side = "Buy" /\ book[j].side = "Sell"
    => book[i].price < book[j].price

(* The same across a coupling that is open: an order that came in while    *)
(* the edge was open has taken whatever it crossed on the other area.      *)
NoCrossedEdge ==
  \A i, j \in DOMAIN book :
    /\ EdgeOpen(book[i].area, book[j].area, book[i].period, now)
    /\ book[i].period = book[j].period
    /\ book[i].side = "Buy" /\ book[j].side = "Sell"
    => book[i].price < book[j].price

(* In a pool whose policy is Reject, no trade has the pool on both sides.  *)
NoSelfTrade ==
  \A g \in Gridpool : SelfTradePolicy[g] = "Reject" =>
    \A x, y \in trades[g] : x.id = y.id => x = y

(* FOK is all or nothing over the books of all open areas, and neither FOK *)
(* nor IOC orders survive their submission.                                *)
ImmediateOrdersResolve ==
  \A i \in DOMAIN orders :
    /\ orders[i].option \in {"Fok", "Ioc"} => ~Live(i) /\ i \notin DOMAIN book
    /\ orders[i].option = "Fok" => orders[i].filled \in {0, orders[i].quantity}

(* An edge has been debited exactly what the tape shows crossing it, and   *)
(* is overshot by one order at most.                                       *)
EdgeDebitsMatchTape ==
  \A e \in Edge, p \in Period :
    /\ coupling_fills[<<e, p>>] =
         Volume({ x \in tape : x.period = p /\ {x.buy_area, x.sell_area} = e })
    /\ Coupling[e].capacity # Uncapped =>
         coupling_fills[<<e, p>>] < Coupling[e].capacity + MaxQuantity

(* A subscriber that applies every public book event from the start shows  *)
(* the book as it is.                                                      *)
ShownMatchesBook == shown = book

NewTrades == tape' \ tape

(* i is a maker of a trade made by this step.                              *)
Traded(i) ==
  /\ i \in DOMAIN book
  /\ i \in DOMAIN book' => book'[i].qty < book[i].qty
  /\ \E x \in NewTrades :
       /\ x.price = book[i].price /\ x.period = book[i].period
       /\ book[i].area = IF book[i].side = "Buy" THEN x.buy_area ELSE x.sell_area

(* No trade-through: when a resting order trades, every order of its book  *)
(* side with a better price, or ahead of it at its price, has traded out.  *)
PriceTimePriority ==
  [][ \A i, j \in DOMAIN book :
        /\ Traded(j)
        /\ book[i].area = book[j].area /\ book[i].period = book[j].period
        /\ book[i].side = book[j].side
        /\ \/ <<i, j>> \in older
           \/ Better(Opposite(book[i].side), book[i].price, book[j].price)
        => i \notin DOMAIN book' ]_vars

(* A terminal order never changes again, and no order, once admitted, is   *)
(* dropped, loses fills or changes pool, contract or side.                 *)
TerminalIsForever ==
  [][ \A i \in DOMAIN orders :
        /\ i \in DOMAIN orders'
        /\ IsTerminal(orders[i].state) => orders'[i] = orders[i]
        /\ orders'[i].filled >= orders[i].filled
        /\ \A f \in {"gridpool", "area", "period", "side", "option"} :
             orders'[i][f] = orders[i][f] ]_vars

(* A trade between two areas is made over a coupling of the two, by a time *)
(* before the coupling's own, earlier gate.                                *)
CrossBorderGateHolds ==
  [][ \A x \in NewTrades : x.buy_area # x.sell_area =>
        LET e == {x.buy_area, x.sell_area}
        IN /\ e \in Edge
           /\ x.time + Coupling[e].gate_offset < Start[x.period] ]_vars

(* Trading on a contract ends exactly at its delivery start, by the time   *)
(* its trades carry.                                                       *)
NoTradeAfterGate == [][ \A x \in NewTrades : ~GateClosed(x.period, x.time) ]_vars

(* That time is the clock's when a gridpool's order is entered.  Only a    *)
(* maker's quote that has waited for the lock trades by an older time, and *)
(* so, as the clock has it, may trade after a gate.                        *)
PoolsTradeOnTime ==
  [][ \A x \in NewTrades :
        /\ x.time <= now
        /\ DOMAIN orders' # DOMAIN orders => x.time = now ]_vars

(* A quote that has waited does no harm to the gridpools once the expiry   *)
(* sweep has closed their orders on a contract in delivery: none trades or *)
(* enters an order on it again.                                            *)
ClosedToPools(p) ==
  /\ GateClosed(p, now)
  /\ \A i \in DOMAIN orders : Live(i) => orders[i].period # p
ClosedForGood ==
  [][ \A p \in Period : ClosedToPools(p) =>
        /\ \A g \in Gridpool : \A x \in trades'[g] \ trades[g] : x.period # p
        /\ \A i \in DOMAIN orders' \ DOMAIN orders : orders'[i].period # p ]_vars

(* The gates hold by the times the trades carry, those times are honest    *)
(* for whatever a gridpool enters, and what is over stays over: gates are  *)
(* checked when an order comes in (validate_common, candidate_keys), by a  *)
(* time that may be old (fleet.rs:345-366), and swept once a second.       *)
GatesHold ==
  CrossBorderGateHolds /\ NoTradeAfterGate /\ PoolsTradeOnTime /\ ClosedForGood

(* Once an edge's capacity for a period is used up nothing more crosses    *)
(* it: each crossing found some capacity left.                             *)
NoCrossingAfterExhaustion ==
  \A x \in tape :
    LET e == {x.buy_area, x.sell_area}
    IN e \in Edge /\ Coupling[e].capacity # Uncapped =>
         Volume({ y \in tape : /\ {y.buy_area, y.sell_area} = e
                               /\ y.period = x.period /\ y.id < x.id })
           < Coupling[e].capacity

(* A modification that only lowers the quantity keeps the order's place.   *)
DecreaseKeepsPriority ==
  [][ \A i, j \in DOMAIN book \cap DOMAIN book' :
        /\ <<i, j>> \in older
        /\ SameLevel(book[i], book'[i]) /\ SameLevel(book[j], book'[j])
        /\ book'[i].qty < book[i].qty
        => <<i, j>> \in older' ]_vars

(* An order is admitted only with a valid_until in the future.             *)
ValidUntilInFuture ==
  [][ \A i \in DOMAIN orders' \ DOMAIN orders :
        orders'[i].valid_until # Never => orders'[i].valid_until > now ]_vars

(* The books of every contract are finally empty, the counterparties'      *)
(* orders included, and with them every order has ended: an order that is  *)
(* live is on a book (BookMatchesOrders).  expire_lapsed_orders sees to it *)
(* if nothing else does.                                                   *)
BooksClear == <>[](book = Empty /\ owner = Empty)
=============================================================================
