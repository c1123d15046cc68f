------------------------------- MODULE Calls -------------------------------
(***************************************************************************)
(* The unary calls of the trading service (src/server.rs), the stream of   *)
(* public trades that ends with its contract, and the commands of tsctl    *)
(* (src/bin/tsctl.rs) that make them.  A command computes its request when *)
(* it is typed; the request arrives later, the answer later still, and the *)
(* connection may break before or after the exchange has acted.  A stream  *)
(* that falls behind the broadcast ring loses trades and is not told.      *)
(*                                                                         *)
(* Of the exchange there is one gridpool's orders.  Whom they match, and   *)
(* so how much of an order is filled, is the choice of the books, which    *)
(* module World models.  Of a state detail only the state is told apart.   *)
(***************************************************************************)
EXTENDS Requests, Sequences, SequencesExt

CONSTANTS
  Client,       \* processes that talk to the service
  Typed,        \* per client, what it types on a command line,
  Wires,        \* what a client of another make puts on the wire,
  Wants,        \* and whose trades it watches: every one, or of a quarter
  Pool, Area,   \* the gridpool; the code of the area it trades in
  Rules,        \* that area's market rules
  TapeCapacity, \* TRADE_BROADCAST_CAPACITY
  Instants,     \* the instants the clock passes
  WatchBefore,  \* bound: streams are opened before it
  MaxOrders,    \* bound: orders the gridpool may hold
  MaxCalls      \* bound: commands and streams, of all the clients together

(* What may be typed, and what may cross the wire.                         *)
Bare ==
  [kind: {"cancel", "get"}, pool: Nat, id: Nat] \cup [kind: {"cancel_all"}, pool: Nat]
Places ==
  [kind: {"place"}, pool: Nat, quarters: Nat, duration: Int, area: STRING, side: Sides,
   price: Int, quantity: Int, exec: Optional(Options), tag: Optional(STRING)]
Modifies ==
  [kind: {"modify"}, pool: Nat, id: Nat, price: Optional(Int), quantity: Optional(Int),
   tag: Optional(STRING)]
Commands == Places \cup Modifies \cup Bare

Creates == [kind: {"create"}, pool: Nat, order: Optional(WireOrders)]
Updates ==
  [kind: {"update"}, pool: Nat, id: Nat, price: Optional(WirePrices),
   quantity: Optional(Optional(Int)), valid_until: Optional(WireTimes),
   tag: Optional(STRING)]
WireRequests == Creates \cup Updates \cup Bare

ASSUME CallsAssumption ==
  /\ DOMAIN Typed = Client /\ DOMAIN Wires = Client /\ DOMAIN Wants = Client
  /\ \A c \in Client : /\ Typed[c] \subseteq Commands
                       /\ Wires[c] \subseteq WireRequests
                       /\ Wants[c] \subseteq Optional(Nat)
  /\ Instants \subseteq Int /\ Instants # {} /\ WatchBefore \in Int
  /\ MaxOrders \in Nat /\ MaxCalls \in Nat /\ TapeCapacity \in Nat \ {0}

VARIABLES
  now,
  orders,   \* the gridpool's order details, by id
  said,     \* per order, what its owner said of it, the last time (history)
  swept,    \* orders there were at the last cancel-all (history)
  prints,   \* the public trades
  call,     \* per client: the request it makes, and how far it is
  tape,     \* per client: the stream it watches
  asked     \* commands and streams begun (for the bound)

callsVars == <<now, orders, said, swept, prints, call, tape, asked>>

Active == 2
Filled == 3
Canceled == 4
Expired == 5
Failed == 6
Terminal == {Filled, Canceled, Expired, Failed}
In(state) == [state |-> state, reason |-> 1, actor |-> 1]
IsOpen(i) == orders[i].state.state \notin Terminal

NoCall == [stage |-> "done", lines |-> {}]
NoTape == [stage |-> "none"]
Busy(c) == call[c].stage \in {"sent", "served"}

CallsInit ==
  /\ now \in {t \in Instants : \A u \in Instants : t <= u}
  /\ orders = << >> /\ said = << >> /\ swept = 0 /\ prints = << >>
  /\ call = [c \in Client |-> NoCall] /\ tape = [c \in Client |-> NoTape]
  /\ asked = 0

-----------------------------------------------------------------------------
(* tsctl: the request a command makes, and whether one is made at all.     *)
Sound(t) == t.kind = "place" => t.duration \in Durations

Prices(given) == {EncodePrice(p, 1) : p \in given}
RequestOf(t, at) ==
  CASE t.kind = "place" ->
         [kind |-> "create", pool |-> t.pool, order |-> {PlacedOrder(t, at)}]
    [] t.kind = "modify" ->
         [kind |-> "update", pool |-> t.pool, id |-> t.id, price |-> Prices(t.price),
          quantity |-> {{q} : q \in t.quantity}, valid_until |-> {}, tag |-> t.tag]
    [] OTHER -> t

Creating == {c \in Client : call[c].stage = "sent" /\ call[c].request.kind = "create"}
Idle(c, creates) ==
  /\ asked < MaxCalls /\ ~Busy(c) /\ tape[c].stage # "open"
  /\ creates => Len(orders) + Cardinality(Creating) < MaxOrders

Type(c, t) ==
  /\ Idle(c, t.kind = "place")
  /\ call' = [call EXCEPT ![c] =
       IF Sound(t)
       THEN [stage |-> "sent", request |-> RequestOf(t, now), typed |-> {t}, at |-> now]
       ELSE NoCall]
  /\ asked' = asked + 1
  /\ UNCHANGED <<now, orders, said, swept, prints, tape>>

(* A client of another make sends what it likes.                           *)
SendWire(c, r) ==
  /\ Idle(c, r.kind = "create")
  /\ call' = [call EXCEPT ![c] =
       [stage |-> "sent", request |-> r, typed |-> {}, at |-> now]]
  /\ asked' = asked + 1
  /\ UNCHANGED <<now, orders, said, swept, prints, tape>>

-----------------------------------------------------------------------------
(* What tsctl prints of an answer.                                         *)
Line(w) ==
  [id |-> w.id, states |-> {s.state : s \in w.state},
   filled |-> UNION w.filled_quantity]

Given(new, old) == IF new = {} THEN old ELSE CHOOSE x \in new : TRUE

(* server: each call looks at the exchange, and changes it, under its lock.*)
Answered(c, status, details) ==
  call' = [call EXCEPT ![c] =
    [stage |-> "served", status |-> status,
     lines |-> {Line(w) : w \in {EncodeDetail(d) : d \in details}}]]

Refused(c, status) ==
  /\ Answered(c, status, {})
  /\ UNCHANGED <<orders, said, swept, prints>>

(* The market is suspended, or the order would trade with its own pool.    *)
RefusedByBooks(c) == Refused(c, "failed_precondition")

(* What the books made of an order, all of it or some, is on the tape.     *)
Fills(mode, quantity) ==
  IF 2 \in mode THEN {0, quantity} ELSE 0 .. quantity
Outcome(mode, open) ==
  IF open = 0 THEN Filled ELSE IF mode = {} THEN Active ELSE Canceled
Printed(order, filled) ==
  IF filled = 0 THEN prints
  ELSE Append(prints, [period |-> order.period, buy_area |-> order.area,
                       sell_area |-> order.area, state |-> 1])

(* What the owner has said: typed, or, of other makes, put on the wire.    *)
Said(c, o) ==
  [typed |-> call[c].typed, at |-> call[c].at, currency |-> o.currency,
   price |-> IF call[c].typed = {} THEN {o.price} ELSE {t.price : t \in call[c].typed}]
SaidAgain(c, old, prices) ==
  [old EXCEPT
     !.price = IF prices = {} THEN @
               ELSE IF call[c].typed = {} THEN Amounts(prices)
               ELSE UNION {t.price : t \in call[c].typed},
     !.currency = Given(CurrenciesOf(prices), @)]

Created(o, filled) ==
  LET open == o.quantity - filled IN
  [id |-> Len(orders) + 1, order |-> o,
   state |-> In(Outcome(o.execution_option, open)),
   open_quantity |-> open, filled_quantity |-> filled,
   create_time |-> now, modification_time |-> now]

CreateGridpoolOrder(c) ==
  LET r == call[c].request
      decoded == UNION {DecodeOrder(w) : w \in r.order} IN
  /\ r.kind = "create"
  /\ \/ decoded = {} /\ Refused(c, "invalid_argument")
     \/ \E o \in decoded :
          \/ r.pool # Pool /\ Refused(c, "not_found")
          \/ r.pool = Pool /\ o.area = Area /\ RefusedByBooks(c)
          \/ /\ r.pool = Pool /\ ~(o.area = Area /\ Admissible(o, Rules, now))
             /\ Refused(c, "invalid_argument")
          \/ /\ r.pool = Pool /\ o.area = Area /\ Admissible(o, Rules, now)
             /\ Len(orders) < MaxOrders
             /\ \E filled \in Fills(o.execution_option, o.quantity) :
                  /\ orders' = Append(orders, Created(o, filled))
                  /\ prints' = Printed(o, filled)
             /\ said' = Append(said, Said(c, o))
             /\ Answered(c, "ok", {Last(orders')})
             /\ UNCHANGED swept

(* What the other calls answer of an order that is not there, or over.     *)
Missing(r) == r.pool # Pool \/ r.id \notin DOMAIN orders
Over(r) == ~Missing(r) /\ ~IsOpen(r.id)

(* The price's currency is read and dropped; what is absent stays.         *)
Updated(d, price, quantity, until, tag) ==
  LET o == d.order IN
  [d EXCEPT !.order =
     [o EXCEPT !.price = Given(price, o.price),
               !.quantity = Given(quantity, d.filled_quantity + d.open_quantity),
               !.valid_until = IF until = {} THEN o.valid_until ELSE until,
               !.tag = IF tag = {} THEN o.tag ELSE tag]]
OnGrid(d) ==
  /\ IsMultipleOf(d.order.price, Rules.price_tick)
  /\ d.order.quantity > 0 /\ IsMultipleOf(d.order.quantity, Rules.qty_step)
  /\ d.order.quantity >= d.filled_quantity
Refilled(d, filled) ==
  LET open == d.order.quantity - d.filled_quantity - filled IN
  [d EXCEPT !.open_quantity = open, !.filled_quantity = @ + filled,
            !.modification_time = now, !.state = In(Outcome({}, open))]

UpdateGridpoolOrder(c) ==
  LET r == call[c].request
      prices == UNION {DecodePrice(p) : p \in r.price}
      quantity == UNION r.quantity
      until == UNION {DecodeTimestamp(ts) : ts \in r.valid_until}
      malformed == \/ r.price # {} /\ prices = {}
                   \/ r.quantity # {} /\ quantity = {}
                   \/ r.valid_until # {} /\ until = {} IN
  /\ r.kind = "update"
  /\ \/ malformed /\ Refused(c, "invalid_argument")
     \/ ~malformed /\ Missing(r) /\ Refused(c, "not_found")
     \/ ~malformed /\ Over(r) /\ Refused(c, "failed_precondition")
     \/ /\ ~malformed /\ ~Missing(r) /\ ~Over(r)
        /\ \E d \in {Updated(orders[r.id], Amounts(prices), quantity, until, r.tag)} :
             \/ ~OnGrid(d) /\ Refused(c, "invalid_argument")
             \/ /\ OnGrid(d)
                /\ \E filled \in 0 .. d.order.quantity - d.filled_quantity :
                     /\ orders' = [orders EXCEPT ![r.id] = Refilled(d, filled)]
                     /\ prints' = Printed(d.order, filled)
                /\ said' = [said EXCEPT ![r.id] = SaidAgain(c, @, prices)]
                /\ Answered(c, "ok", {orders'[r.id]})
                /\ UNCHANGED swept

Ended(d, state) == [d EXCEPT !.state = In(state), !.modification_time = now]

CancelGridpoolOrder(c) ==
  LET r == call[c].request IN
  /\ r.kind = "cancel"
  /\ \/ Missing(r) /\ Refused(c, "not_found")
     \/ Over(r) /\ Refused(c, "failed_precondition")
     \/ /\ ~Missing(r) /\ ~Over(r)
        /\ orders' = [orders EXCEPT ![r.id] = Ended(@, Canceled)]
        /\ Answered(c, "ok", {orders'[r.id]})
        /\ UNCHANGED <<said, swept, prints>>

(* One lock for all of them; what is over already is left alone.           *)
WrongCanceledAll ==
  [i \in DOMAIN orders |->
     IF orders[i].state.state = Active /\ orders[i].filled_quantity = 0
     THEN Ended(orders[i], Canceled) ELSE orders[i]]
CanceledAll ==
  [i \in DOMAIN orders |->
     IF IsOpen(i) THEN Ended(orders[i], Canceled) ELSE orders[i]]
CancelAllGridpoolOrders(c) ==
  LET r == call[c].request IN
  /\ r.kind = "cancel_all"
  /\ \/ r.pool # Pool /\ Refused(c, "not_found")
     \/ /\ r.pool = Pool
        /\ orders' = CanceledAll /\ swept' = Len(orders)
        /\ Answered(c, "ok", {})
        /\ UNCHANGED <<said, prints>>

GetGridpoolOrder(c) ==
  LET r == call[c].request IN
  /\ r.kind = "get"
  /\ \/ Missing(r) /\ Refused(c, "not_found")
     \/ /\ ~Missing(r)
        /\ Answered(c, "ok", {orders[r.id]})
        /\ UNCHANGED <<orders, said, swept, prints>>

Serve(c) ==
  /\ call[c].stage = "sent"
  /\ \/ CreateGridpoolOrder(c) \/ UpdateGridpoolOrder(c) \/ CancelGridpoolOrder(c)
     \/ CancelAllGridpoolOrders(c) \/ GetGridpoolOrder(c)
  /\ UNCHANGED <<now, tape, asked>>

(* The answer is printed and the process ends; or the connection breaks,   *)
(* and the process does not know whether its request was carried out.      *)
Return(c) ==
  /\ call[c].stage = "served"
  /\ call' = [call EXCEPT ![c] = [stage |-> "done", lines |-> call[c].lines]]
  /\ UNCHANGED <<now, orders, said, swept, prints, tape, asked>>

Break(c) ==
  /\ Busy(c) /\ call' = [call EXCEPT ![c] = NoCall]
  /\ UNCHANGED <<now, orders, said, swept, prints, tape, asked>>

-----------------------------------------------------------------------------
(* The stream of public trades: pinned to a contract it is closed fifteen  *)
(* minutes after its delivery start, for late-printed trades.  A start     *)
(* that is no instant closes nothing.                                      *)
WrongCloseAt(want) == {}
CloseAt(want) ==
  {t + 900 * Nanos : t \in UNION {UNION {DecodeTimestamp(ts) : ts \in w.start} : w \in want}}

TapeFilter(want) == [states |-> {1}, period |-> want, buy_area |-> {}, sell_area |-> {}]

Watch(c, quarters) ==
  LET want == {[start |-> {PeriodStart(n, now)}, duration |-> 15] : n \in quarters} IN
  /\ Idle(c, FALSE) /\ now < WatchBefore
  /\ call' = [call EXCEPT ![c] = NoCall]
  /\ tape' = [tape EXCEPT ![c] =
       [stage |-> "open", want |-> want, close_at |-> CloseAt(want),
        from |-> Len(prints), upto |-> Len(prints), got |-> << >>, lost |-> {}]]
  /\ asked' = asked + 1
  /\ UNCHANGED <<now, orders, said, swept, prints>>

(* The trades the broadcast ring has dropped.  A receiver that has not read*)
(* them all gets Lagged, of which the stream makes nothing, and goes on    *)
(* with the oldest trade there is.                                         *)
Dropped == IF Len(prints) > TapeCapacity THEN Len(prints) - TapeCapacity ELSE 0
LoseTrades(c) ==
  /\ tape[c].stage = "open" /\ tape[c].upto < Dropped
  /\ tape' = [tape EXCEPT ![c].upto = Dropped,
                          ![c].lost = @ \cup (tape[c].upto + 1 .. Dropped)]
  /\ UNCHANGED <<now, orders, said, swept, prints, call, asked>>

Passed(i, f) == IF MatchesPublicTradeFilter(prints[i], f) THEN <<i>> ELSE << >>
Forward(c) ==
  /\ tape[c].stage = "open" /\ Dropped <= tape[c].upto /\ tape[c].upto < Len(prints)
  /\ LET i == tape[c].upto + 1 IN
     tape' = [tape EXCEPT ![c].upto = i,
                          ![c].got = @ \o Passed(i, TapeFilter(tape[c].want))]
  /\ UNCHANGED <<now, orders, said, swept, prints, call, asked>>

Close(c) ==
  /\ tape[c].stage = "open" /\ \E t \in tape[c].close_at : t <= now
  /\ tape' = [tape EXCEPT ![c] = NoTape]
  /\ UNCHANGED <<now, orders, said, swept, prints, call, asked>>

StopWatching(c) ==
  /\ tape[c].stage = "open" /\ tape' = [tape EXCEPT ![c] = NoTape]
  /\ UNCHANGED <<now, orders, said, swept, prints, call, asked>>

-----------------------------------------------------------------------------
(* The exchange: somebody trades with an order, and the sweep expires what *)
(* has lapsed.                                                             *)
Trade(i) ==
  /\ IsOpen(i) /\ now < orders[i].order.period.start
  /\ LET open == orders[i].open_quantity - 1 IN
     orders' = [orders EXCEPT ![i].open_quantity = open, ![i].filled_quantity = @ + 1,
                              ![i].modification_time = now,
                              ![i].state = In(Outcome({}, open))]
  /\ prints' = Printed(orders[i].order, 1)
  /\ UNCHANGED <<now, said, swept, call, tape, asked>>

Lapsed(i) ==
  /\ IsOpen(i)
  /\ \/ orders[i].order.period.start <= now
     \/ \E t \in orders[i].order.valid_until : t <= now
ExpireLapsedOrders ==
  /\ \E i \in DOMAIN orders : Lapsed(i)
  /\ orders' = [i \in DOMAIN orders |->
                  IF Lapsed(i) THEN Ended(orders[i], Expired) ELSE orders[i]]
  /\ UNCHANGED <<now, said, swept, prints, call, tape, asked>>

Tick ==
  /\ \E t \in Instants : /\ t > now /\ \A u \in Instants : u > now => t <= u
                       /\ now' = t
  /\ UNCHANGED <<orders, said, swept, prints, call, tape, asked>>

CallsNext ==
  \/ \E c \in Client :
       \/ \E t \in Typed[c] : Type(c, t)
       \/ \E r \in Wires[c] : SendWire(c, r)
       \/ Serve(c) \/ Return(c) \/ Break(c)
       \/ \E w \in Wants[c] : Watch(c, w)
       \/ Forward(c) \/ LoseTrades(c) \/ Close(c) \/ StopWatching(c)
  \/ \E i \in DOMAIN orders : Trade(i)
  \/ ExpireLapsedOrders \/ Tick

CallsSpec == CallsInit /\ [][CallsNext]_callsVars

-----------------------------------------------------------------------------
(* Every variable stays in its type.                                       *)
CallsTypeOK ==
  /\ now \in Instants /\ swept \in 0 .. Len(orders)
  /\ orders \in Seq(Details) /\ Len(orders) <= MaxOrders /\ Len(said) = Len(orders)
  /\ \A i \in DOMAIN orders :
       /\ orders[i].id = i
       /\ orders[i].open_quantity \in Nat /\ orders[i].filled_quantity \in Nat
  /\ \A c \in Client :
       /\ call[c].stage \in {"sent", "served", "done"}
       /\ tape[c].stage \in {"none", "open"}

(* An order is what its owner typed, however much later the request was    *)
(* carried out and whatever the wire made of it: the quarter is the one    *)
(* counted when the command was typed, and it had not begun when the       *)
(* exchange took the order (cmd_place and cmd_modify, src/bin/tsctl.rs:    *)
(* 490-598; create and update, src/server.rs:233-291).                     *)
OrdersAsTyped ==
  \A i \in DOMAIN orders : \A t \in said[i].typed :
    LET o == orders[i].order IN
    /\ o.area.code = t.area /\ o.side = t.side /\ o.execution_option = t.exec
    /\ o.period.duration = t.duration /\ {o.price} = said[i].price
    /\ o.period.start > said[i].at + 900 * Nanos * t.quarters
    /\ o.period.start <= said[i].at + 900 * Nanos * (t.quarters + 1)
    /\ o.period.start > orders[i].create_time

(* A cancel-all that was carried out leaves nothing open of what there     *)
(* was, then or later (src/server.rs:313-337).                             *)
SweptStayOver == \A i \in 1 .. swept : ~IsOpen(i)

(* What an answer says stays true as long as its client may look at it: an *)
(* order that is over stays as it is, one that is open fills further.      *)
AnswersHold ==
  \A c \in Client : call[c].stage = "done" =>
    \A line \in call[c].lines :
      /\ line.id \in DOMAIN orders
      /\ \A n \in line.filled : n <= orders[line.id].filled_quantity
      /\ \A s \in line.states : s \in Terminal => orders[line.id].state.state = s

(* Of the trades since it was asked for, a stream has passed on each of    *)
(* its contract once and in order, and none of another, as far as a whole  *)
(* second tells the two apart; but for what was lost to the ring, and that *)
(* is never one of the TapeCapacity newest (src/server.rs:503-546).        *)
OfContract(p, w) ==
  w.duration = p.duration /\ {DecodeTimestamp(ts) : ts \in w.start} = {{p.start}}
NearContract(p, w) ==
  w.duration = p.duration /\ \A ts \in w.start : ts.seconds = p.start \div Nanos
TapesKeepUp ==
  \A c \in Client : tape[c].stage = "open" =>
    LET s == tape[c] IN
    /\ \A j, k \in DOMAIN s.got : j < k => s.got[j] < s.got[k]
    /\ \A i \in (s.from + 1 .. s.upto) \ s.lost :
         (\A w \in s.want : OfContract(prints[i].period, w)) => i \in ToSet(s.got)
    /\ \A i \in s.lost : i <= Dropped
    /\ \A i \in ToSet(s.got) :
         /\ i \in (s.from + 1 .. s.upto) \ s.lost
         /\ \A w \in s.want : NearContract(prints[i].period, w)

(* What the calls promise, checked together.                               *)
CallsFaithful ==
  /\ CallsTypeOK /\ OrdersAsTyped /\ SweptStayOver /\ AnswersHold /\ TapesKeepUp

Pinned(c) ==
  /\ tape[c].stage = "open"
  /\ \E w \in tape[c].want : \E ts \in w.start : DecodeTimestamp(ts) # {}

(* Every command ends, with an answer or without; and so does the stream   *)
(* of a contract's trades once the contract is over.                       *)
CommandsEnd ==
  \A c \in Client :
    /\ Busy(c) ~> ~Busy(c)
    /\ Pinned(c) ~> tape[c].stage # "open"

(* src/sim/market.rs:86 of is_aligned: "True iff `start` lies on a         *)
(* multiple-of-duration minute boundary past the hour".                    *)
ContractsAreAligned ==
  \A i \in DOMAIN orders :
    LET p == orders[i].order.period IN p.start % (60 * Nanos * p.duration) = 0

(* src/proto_conv.rs:262 of an order's other prices: "must share the       *)
(* order's currency"; a price that comes with an update need not.          *)
CurrencyIsKept ==
  \A i \in DOMAIN orders : orders[i].order.currency = said[i].currency
=============================================================================
