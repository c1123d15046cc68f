------------------------------ MODULE Requests ------------------------------
(***************************************************************************)
(* What crosses the wire (src/proto_conv.rs), what the trading service     *)
(* makes of a request before it looks at the exchange (src/server.rs), and *)
(* what the command line client puts into one (src/bin/tsctl.rs).          *)
(*                                                                         *)
(* An optional value is a set of at most one member, and so is the outcome *)
(* of a conversion: an error is the empty set.  An instant counts parts of *)
(* a second, a wire timestamp has whole seconds and the parts beyond them. *)
(* An enum is a small number, 0 the one the wire calls unspecified; a      *)
(* duration is its minutes.  A decimal on the wire is the number its text  *)
(* stands for, and nothing when it is missing or no number.                *)
(***************************************************************************)
EXTENDS Integers, FiniteSets, TLC, Tables

CONSTANT Nanos   \* the parts a second is counted in

ASSUME RequestsAssumption == Nanos \in Nat \ {0}

Optional(S) == {f \in SUBSET S : \A x, y \in f : x = y}

Durations == {5, 15, 30, 60}
CodeTypes == {1, 2}
Currencies == {1, 2}
Sides == {1, 2}
OrderTypes == {1, 2}      \* 1: limit
Options == {1, 2, 3}      \* all or none, fill or kill, immediate or cancel
OrderStates == 1 .. 7
Reasons == 1 .. 6
Actors == 1 .. 3
TradeStates == 1 .. 3

(* The messages of the wire, with whatever number it may hold.             *)
WireTimes == [seconds: Int, nanos: Int]
WireAreas == [code: STRING, code_type: Int]
WirePeriods == [start: Optional(WireTimes), duration: Int]
WirePrices == [amount: Optional(Int), currency: Int]
WireOrders ==
  [area: Optional(WireAreas), period: Optional(WirePeriods), type: Int, side: Int,
   price: Optional(WirePrices), quantity: Optional(Optional(Int)),
   stop_price: Optional(WirePrices), peak_price_delta: Optional(WirePrices),
   display_quantity: Optional(Optional(Int)), execution_option: Optional(Int),
   valid_until: Optional(WireTimes), payload: Optional(STRING), tag: Optional(STRING)]

(* What the exchange holds: an area, a period, an order and its detail.    *)
Areas == [code: STRING, code_type: CodeTypes]
Periods == [start: Int, duration: Durations]
Orders ==
  [area: Areas, period: Periods, type: OrderTypes, side: Sides, price: Int,
   currency: Currencies, quantity: Int, stop_price: Optional(Int),
   peak_price_delta: Optional(Int), display_quantity: Optional(Int),
   execution_option: Optional(Options), valid_until: Optional(Int),
   tag: Optional(STRING)]
StateDetails == [state: OrderStates, reason: Reasons, actor: Actors]
Details ==
  [id: Nat, order: Orders, state: StateDetails, open_quantity: Int,
   filled_quantity: Int, create_time: Int, modification_time: Int]

-----------------------------------------------------------------------------
(* proto_conv: a message decodes to the record of what its parts decode to;*)
(* there is none, as the set of records is empty, when one is an error.    *)
DecodeEnum(v, known) == {v} \cap known

(* The seconds a message holds are those of a date chrono can represent;   *)
(* timestamp_from_proto refuses any beyond (proto_conv.rs:98-105).         *)
DecodeTimestamp(ts) ==
  IF ts.nanos \in 0 .. Nanos - 1 THEN {ts.seconds * Nanos + ts.nanos} ELSE {}
EncodeTimestamp(t) == [seconds |-> t \div Nanos, nanos |-> t % Nanos]

(* A required message, and one that may be absent: present, it has to      *)
(* decode.                                                                 *)
Required(outcomes) == UNION outcomes
OrAbsent(field, outcomes) == IF field = {} THEN {{}} ELSE {{x} : x \in UNION outcomes}

DecodeArea(w) ==
  [code : {w.code}, code_type : DecodeEnum(w.code_type, CodeTypes)]
EncodeArea(a) == [code |-> a.code, code_type |-> a.code_type]

DecodePeriod(w) ==
  [start : Required({DecodeTimestamp(ts) : ts \in w.start}),
   duration : DecodeEnum(w.duration, Durations)]
EncodePeriod(p) == [start |-> {EncodeTimestamp(p.start)}, duration |-> p.duration]

DecodePrice(w) ==
  [amount : w.amount, currency : DecodeEnum(w.currency, Currencies)]
EncodePrice(n, c) == [amount |-> {n}, currency |-> c]

Amounts(prices) == {p.amount : p \in prices}
CurrenciesOf(prices) == {p.currency : p \in prices}

(* Beside the price, the prices of an order must be in its currency.       *)
SameCurrency(w, currency) ==
  IF CurrenciesOf(DecodePrice(w)) = currency THEN Amounts(DecodePrice(w)) ELSE {}

(* An order and its detail; a payload is dropped both ways.                *)
DecodeOrder(w) ==
  LET price == Required({DecodePrice(p) : p \in w.price})
      currency == CurrenciesOf(price) IN
  [area : Required({DecodeArea(a) : a \in w.area}),
   period : Required({DecodePeriod(d) : d \in w.period}),
   type : DecodeEnum(w.type, OrderTypes), side : DecodeEnum(w.side, Sides),
   price : Amounts(price), currency : currency,
   quantity : Required(w.quantity),
   stop_price :
     OrAbsent(w.stop_price, {SameCurrency(p, currency) : p \in w.stop_price}),
   peak_price_delta :
     OrAbsent(w.peak_price_delta,
              {SameCurrency(p, currency) : p \in w.peak_price_delta}),
   display_quantity : OrAbsent(w.display_quantity, w.display_quantity),
   execution_option :
     OrAbsent(w.execution_option,
              {DecodeEnum(e, Options) : e \in w.execution_option}),
   valid_until :
     OrAbsent(w.valid_until, {DecodeTimestamp(ts) : ts \in w.valid_until}),
   tag : {w.tag}]

EncodeOrder(o) ==
  [area |-> {EncodeArea(o.area)}, period |-> {EncodePeriod(o.period)},
   type |-> o.type, side |-> o.side, price |-> {EncodePrice(o.price, o.currency)},
   quantity |-> {{o.quantity}},
   stop_price |-> {EncodePrice(n, o.currency) : n \in o.stop_price},
   peak_price_delta |-> {EncodePrice(n, o.currency) : n \in o.peak_price_delta},
   display_quantity |-> {{n} : n \in o.display_quantity},
   execution_option |-> o.execution_option,
   valid_until |-> {EncodeTimestamp(t) : t \in o.valid_until},
   payload |-> {}, tag |-> o.tag]

DecodeState(w) ==
  [state : DecodeEnum(w.state, OrderStates),
   reason : DecodeEnum(w.reason, Reasons),
   actor : DecodeEnum(w.actor, Actors)]
EncodeState(s) == [state |-> s.state, reason |-> s.reason, actor |-> s.actor]

DecodeDetail(w) ==
  [id : {w.id}, order : Required({DecodeOrder(o) : o \in w.order}),
   state : Required({DecodeState(s) : s \in w.state}),
   open_quantity : Required(w.open_quantity),
   filled_quantity : Required(w.filled_quantity),
   create_time : Required({DecodeTimestamp(ts) : ts \in w.create_time}),
   modification_time :
     Required({DecodeTimestamp(ts) : ts \in w.modification_time})]
EncodeDetail(d) ==
  [id |-> d.id, order |-> {EncodeOrder(d.order)}, state |-> {EncodeState(d.state)},
   open_quantity |-> {{d.open_quantity}}, filled_quantity |-> {{d.filled_quantity}},
   create_time |-> {EncodeTimestamp(d.create_time)},
   modification_time |-> {EncodeTimestamp(d.modification_time)}]

(* What one side's trade and the public one have in common.                *)
DecodeDeal(w) ==
  LET price == Required({DecodePrice(p) : p \in w.price}) IN
  [id : {w.id}, period : Required({DecodePeriod(d) : d \in w.period}),
   execution_time : Required({DecodeTimestamp(ts) : ts \in w.execution_time}),
   price : Amounts(price), currency : CurrenciesOf(price),
   quantity : Required(w.quantity), state : DecodeEnum(w.state, TradeStates)]
EncodeDeal(t) ==
  [id |-> t.id, period |-> {EncodePeriod(t.period)},
   execution_time |-> {EncodeTimestamp(t.execution_time)},
   price |-> {EncodePrice(t.price, t.currency)}, quantity |-> {{t.quantity}},
   state |-> t.state]

DecodeTrade(w) ==
  {own @@ deal : deal \in DecodeDeal(w),
     own \in [order_id : {w.order_id}, side : DecodeEnum(w.side, Sides),
             area : Required({DecodeArea(a) : a \in w.area})]}
EncodeTrade(t) ==
  [order_id |-> t.order_id, side |-> t.side, area |-> {EncodeArea(t.area)}]
    @@ EncodeDeal(t)

DecodePublicTrade(w) ==
  {areas @@ deal : deal \in DecodeDeal(w),
     areas \in [buy_area : Required({DecodeArea(a) : a \in w.buy_area}),
               sell_area : Required({DecodeArea(a) : a \in w.sell_area})]}
EncodePublicTrade(t) ==
  [buy_area |-> {EncodeArea(t.buy_area)}, sell_area |-> {EncodeArea(t.sell_area)}]
    @@ EncodeDeal(t)

-----------------------------------------------------------------------------
(* server: the filters of a request.  None of them names a second finer    *)
(* than a whole one, and none the code type of an area.                    *)
EnumListPasses(allowed, x) == allowed = {} \/ x \in allowed
OptionalPasses(want, x) == \A w \in want : w = x
AreaPasses(want, area) == \A w \in want : w.code = area.code

ExactPeriodPasses(want, p) ==
  \A w \in want : /\ {ts.seconds : ts \in w.start} = {p.start \div Nanos}
                  /\ w.duration = p.duration

(* An interval is half open; a bound that is no instant excludes all.      *)
AfterStart(from, p) == \A ts \in from : \E t \in DecodeTimestamp(ts) : p.start >= t
BeforeEnd(to, p) == \A ts \in to : \E t \in DecodeTimestamp(ts) : p.start < t
PeriodMatches(p, f) ==
  /\ \A iv \in f.interval : AfterStart(iv.from, p) /\ BeforeEnd(iv.to, p)
  /\ EnumListPasses(f.durations, p.duration)

MatchesOrderFilter(d, f) ==
  /\ EnumListPasses(f.states, d.state.state)
  /\ OptionalPasses(f.side, d.order.side)
  /\ \A dtf \in f.delivery_time : PeriodMatches(d.order.period, dtf)
  /\ AreaPasses(f.area, d.order.area)
  /\ \A tag \in f.tag : d.order.tag = {tag}
  /\ EnumListPasses(f.ids, d.id)

MatchesTradeFilter(t, f) ==
  /\ EnumListPasses(f.states, t.state)
  /\ EnumListPasses(f.ids, t.id)
  /\ OptionalPasses(f.side, t.side)
  /\ \A dtf \in f.delivery_time : PeriodMatches(t.period, dtf)
  /\ AreaPasses(f.area, t.area)

MatchesPublicTradeFilter(t, f) ==
  /\ EnumListPasses(f.states, t.state)
  /\ ExactPeriodPasses(f.period, t.period)
  /\ AreaPasses(f.buy_area, t.buy_area) /\ AreaPasses(f.sell_area, t.sell_area)

(* Whether the exchange takes an order (validate_common), in the order of  *)
(* the code's refusals, all of which the wire calls an invalid argument.   *)
IsAlignedPeriod(p) == IsAligned(p.start \div Nanos, p.duration)
Valid(o, rules, now) ==
  /\ o.period.start > now
  /\ o.type = 1
  /\ o.currency = rules.currency
  /\ o.period.duration \in rules.durations
  /\ IsAlignedPeriod(o.period)
  /\ IsMultipleOf(o.price, rules.price_tick)
  /\ o.quantity > 0 /\ IsMultipleOf(o.quantity, rules.qty_step)

(* What submit_order adds to it for a gridpool's order.                    *)
Admissible(o, rules, now) ==
  /\ Valid(o, rules, now)
  /\ 1 \notin o.execution_option
  /\ o.execution_option = {} \/ o.valid_until = {}

-----------------------------------------------------------------------------
(* tsctl: "next" is the next quarter boundary, "+N" is N quarters past it. *)
PeriodStart(n, now) == EncodeTimestamp((NextQuarterBoundary(now \div Nanos) + 900 * n) * Nanos)

(* The order of a place command, whose period is computed when it starts.  *)
PlacedOrder(typed, now) ==
  [area |-> {[code |-> typed.area, code_type |-> 1]},
   period |-> {[start |-> {PeriodStart(typed.quarters, now)},
                duration |-> typed.duration]},
   type |-> 1, side |-> typed.side,
   price |-> {EncodePrice(typed.price, 1)}, quantity |-> {{typed.quantity}},
   stop_price |-> {}, peak_price_delta |-> {}, display_quantity |-> {},
   execution_option |-> typed.exec, valid_until |-> {}, payload |-> {},
   tag |-> typed.tag]
=============================================================================
