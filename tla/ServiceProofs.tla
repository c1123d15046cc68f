--------------------------- MODULE ServiceProofs ---------------------------
(***************************************************************************)
(* Requests, Calls and Listing, the trading service, and Weather, the one  *)
(* beside it.  What a conversion to the wire and back keeps, and what the  *)
(* filters and the quarter boundaries promise for every order, instant and *)
(* interval; of the calls, that an order stays what its owner typed, that  *)
(* what is over stays over, that answers stay true and that streams keep   *)
(* up, whatever crosses the wire; of a list that is walked page by page,   *)
(* that nothing is returned twice and nothing left out; of the weather     *)
(* streams, that a client's frames are in the log before they are sent and *)
(* that the ring they share is the log's end.                              *)
(***************************************************************************)
EXTENDS Calls, Listing, Weather, FiniteSetTheorems, SequenceTheorems,
        WellFoundedInduction, TLAPS

-----------------------------------------------------------------------------
(* An instant comes back as it was: no part of a second is lost            *)
(* (timestamp_to_proto and timestamp_from_proto, src/proto_conv.rs:97-113).*)
THEOREM InstantSurvives ==
  ASSUME NEW t \in Int PROVE DecodeTimestamp(EncodeTimestamp(t)) = {t}
<1>1. Nanos \in Int /\ Nanos > 0
  BY RequestsAssumption
<1>2. t % Nanos \in 0 .. Nanos - 1 /\ ((t \div Nanos) * Nanos) + (t % Nanos) = t
  BY <1>1, SMTT(30)
<1>3. EncodeTimestamp(t).seconds = t \div Nanos /\ EncodeTimestamp(t).nanos = t % Nanos
  BY DEF EncodeTimestamp
<1> QED BY <1>2, <1>3 DEF DecodeTimestamp

(* An area comes back as it was. *)
LEMMA AreaSurvives ==
  ASSUME NEW a \in Areas PROVE DecodeArea(EncodeArea(a)) = {a}
<1>1. DecodeArea(EncodeArea(a)) = [code : {a.code}, code_type : {a.code_type}]
  BY DEF DecodeArea, EncodeArea, DecodeEnum, Areas
<1>2. [code : {a.code}, code_type : {a.code_type}] = {a}
  <2> DEFINE S == [code : {a.code}, code_type : {a.code_type}]
  <2>1. a \in S /\ \A y \in S : y = a
    BY DEF Areas
  <2>2. S = {a}
    <3> HIDE DEF S
    <3> QED BY <2>1
  <2> QED BY <2>2
<1> QED BY <1>1, <1>2

(* A delivery period comes back as it was. *)
LEMMA PeriodSurvives ==
  ASSUME NEW p \in Periods PROVE DecodePeriod(EncodePeriod(p)) = {p}
<1>1. DecodePeriod(EncodePeriod(p)) = [start : {p.start}, duration : {p.duration}]
  <2>1. DecodeTimestamp(EncodeTimestamp(p.start)) = {p.start}
    BY InstantSurvives DEF Periods
  <2>2. Required({DecodeTimestamp(ts) : ts \in {EncodeTimestamp(p.start)}}) = {p.start}
    BY <2>1 DEF Required
  <2>3. DecodeEnum(p.duration, Durations) = {p.duration}
    BY DEF DecodeEnum, Periods
  <2> QED BY <2>2, <2>3 DEF DecodePeriod, EncodePeriod
<1>2. [start : {p.start}, duration : {p.duration}] = {p}
  <2> DEFINE S == [start : {p.start}, duration : {p.duration}]
  <2>1. p \in S /\ \A y \in S : y = p
    BY DEF Periods
  <2>2. S = {p}
    <3> HIDE DEF S
    <3> QED BY <2>1
  <2> QED BY <2>2
<1> QED BY <1>1, <1>2

(* A price comes back as it was, with its currency. *)
LEMMA PriceSurvives ==
  ASSUME NEW n \in Int, NEW c \in Currencies
  PROVE  DecodePrice(EncodePrice(n, c)) = {[amount |-> n, currency |-> c]}
<1>1. DecodePrice(EncodePrice(n, c)) = [amount : {n}, currency : {c}]
  BY DEF DecodePrice, EncodePrice, DecodeEnum
<1>2. [amount : {n}, currency : {c}] = {[amount |-> n, currency |-> c]}
  <2> DEFINE S == [amount : {n}, currency : {c}]
             price == [amount |-> n, currency |-> c]
  <2>1. price \in S /\ \A y \in S : y = price
    OBVIOUS
  <2>2. S = {price}
    <3> HIDE DEF S, price
    <3> QED BY <2>1
  <2> QED BY <2>2
<1> QED BY <1>1, <1>2

(* What its amount and its currency are read from.                         *)
LEMMA PartsOfPrice ==
  ASSUME NEW n, NEW c
  PROVE  /\ Amounts({[amount |-> n, currency |-> c]}) = {n}
         /\ CurrenciesOf({[amount |-> n, currency |-> c]}) = {c}
BY DEF Amounts, CurrenciesOf

(* An optional part: absent it stays absent ...                            *)
LEMMA AbsentSurvives == OrAbsent({}, {}) = {{}}
BY DEF OrAbsent

(* ... and present it is its outcome. *)
LEMMA PresentSurvives ==
  ASSUME NEW w, NEW x PROVE OrAbsent({w}, {{x}}) = {{x}}
BY DEF OrAbsent

(* An optional price comes back when its currency is the order's.          *)
LEMMA OptionalPriceSurvives ==
  ASSUME NEW f \in Optional(Int), NEW c \in Currencies
  PROVE  OrAbsent({EncodePrice(n, c) : n \in f},
                  {SameCurrency(p, {c}) : p \in {EncodePrice(n, c) : n \in f}}) = {f}
<1>1. CASE f = {}
  BY <1>1, AbsentSurvives
<1>2. CASE f # {}
  <2>1. PICK n \in Int : f = {n}
    BY <1>2 DEF Optional
  <2>2. SameCurrency(EncodePrice(n, c), {c}) = {n}
    BY PriceSurvives, PartsOfPrice DEF SameCurrency
  <2> DEFINE W == {EncodePrice(m, c) : m \in f}
             D == {SameCurrency(p, {c}) : p \in W}
  <2>3. W = {EncodePrice(n, c)}
    BY <2>1
  <2>4. D = {{n}}
    BY <2>2, <2>3
  <2> HIDE DEF W, D
  <2>5. OrAbsent(W, D) = {f}
    BY <2>1, <2>3, <2>4, PresentSurvives
  <2> QED BY <2>5 DEF W, D
<1> QED BY <1>1, <1>2

(* An optional time comes back, absent or present. *)
LEMMA OptionalInstantSurvives ==
  ASSUME NEW f \in Optional(Int)
  PROVE  OrAbsent({EncodeTimestamp(t) : t \in f},
                  {DecodeTimestamp(ts) : ts \in {EncodeTimestamp(t) : t \in f}}) = {f}
<1>1. CASE f = {}
  BY <1>1, AbsentSurvives
<1>2. CASE f # {}
  <2>1. PICK t \in Int : f = {t}
    BY <1>2, SMTT(20), ZenonT(20) DEF Optional
  <2>2. DecodeTimestamp(EncodeTimestamp(t)) = {t}
    BY InstantSurvives
  <2> DEFINE W == {EncodeTimestamp(u) : u \in f}
             D == {DecodeTimestamp(ts) : ts \in W}
  <2>3. W = {EncodeTimestamp(t)}
    BY <2>1
  <2>4. D = {{t}}
    BY <2>2, <2>3
  <2> HIDE DEF W, D
  <2>5. OrAbsent(W, D) = {f}
    BY <2>1, <2>3, <2>4, PresentSurvives
  <2> QED BY <2>5 DEF W, D
<1> QED BY <1>1, <1>2

(* An optional quantity comes back, absent or present. *)
LEMMA OptionalAmountSurvives ==
  ASSUME NEW f \in Optional(Int)
  PROVE  OrAbsent({{n} : n \in f}, {{n} : n \in f}) = {f}
<1>1. CASE f = {}
  BY <1>1, AbsentSurvives
<1>2. CASE f # {}
  <2>1. PICK n \in Int : f = {n}
    BY <1>2, SMTT(20), ZenonT(20) DEF Optional
  <2> DEFINE W == {{m} : m \in f}
  <2>2. W = {{n}}
    BY <2>1
  <2> HIDE DEF W
  <2>3. OrAbsent(W, W) = {f}
    BY <2>1, <2>2, PresentSurvives
  <2> QED BY <2>3 DEF W
<1> QED BY <1>1, <1>2

(* An optional enumeration value comes back, absent or present. *)
LEMMA OptionalEnumSurvives ==
  ASSUME NEW f \in Optional(Options)
  PROVE  OrAbsent(f, {DecodeEnum(e, Options) : e \in f}) = {f}
<1>1. CASE f = {}
  BY <1>1, AbsentSurvives
<1>2. CASE f # {}
  <2>1. PICK e \in Options : f = {e}
    BY <1>2 DEF Optional
  <2>2. {DecodeEnum(d, Options) : d \in f} = {{e}}
    BY <2>1 DEF DecodeEnum
  <2> QED BY <2>1, <2>2, PresentSurvives
<1> QED BY <1>1, <1>2

(* An order comes back from the wire as it was sent: none of its fields is *)
(* lost, and none of its optional fields is refused (the Order             *)
(* conversions, src/proto_conv.rs:211-317).                                *)
THEOREM OrderSurvives ==
  ASSUME NEW o \in Orders PROVE DecodeOrder(EncodeOrder(o)) = {o}
<1> DEFINE w == EncodeOrder(o)
           price == Required({DecodePrice(p) : p \in w.price})
           currency == CurrenciesOf(price)
           area == Required({DecodeArea(a) : a \in w.area})
           period == Required({DecodePeriod(d) : d \in w.period})
           stop == OrAbsent(w.stop_price,
                            {SameCurrency(p, currency) : p \in w.stop_price})
           peak == OrAbsent(w.peak_price_delta,
                            {SameCurrency(p, currency) : p \in w.peak_price_delta})
           display == OrAbsent(w.display_quantity, w.display_quantity)
           option == OrAbsent(w.execution_option,
                              {DecodeEnum(e, Options) : e \in w.execution_option})
           until == OrAbsent(w.valid_until,
                             {DecodeTimestamp(ts) : ts \in w.valid_until})
<1>1. area = {o.area}
  <2>1. w.area = {EncodeArea(o.area)} BY DEF EncodeOrder
  <2>2. DecodeArea(EncodeArea(o.area)) = {o.area} BY AreaSurvives DEF Orders
  <2> QED BY <2>1, <2>2 DEF Required
<1>2. period = {o.period}
  <2>1. w.period = {EncodePeriod(o.period)} BY DEF EncodeOrder
  <2>2. DecodePeriod(EncodePeriod(o.period)) = {o.period}
    BY PeriodSurvives DEF Orders
  <2> QED BY <2>1, <2>2 DEF Required
<1>3. DecodeEnum(w.type, OrderTypes) = {o.type} /\ DecodeEnum(w.side, Sides) = {o.side}
  BY DEF EncodeOrder, DecodeEnum, Orders
<1>4. Amounts(price) = {o.price} /\ currency = {o.currency}
  <2>1. w.price = {EncodePrice(o.price, o.currency)} BY DEF EncodeOrder
  <2>2. DecodePrice(EncodePrice(o.price, o.currency))
          = {[amount |-> o.price, currency |-> o.currency]}
    BY PriceSurvives DEF Orders
  <2>3. price = {[amount |-> o.price, currency |-> o.currency]}
    BY <2>1, <2>2 DEF Required
  <2>4. Amounts({[amount |-> o.price, currency |-> o.currency]}) = {o.price}
    BY PartsOfPrice
  <2>5. CurrenciesOf({[amount |-> o.price, currency |-> o.currency]}) = {o.currency}
    BY PartsOfPrice
  <2> HIDE DEF price
  <2> QED BY <2>3, <2>4, <2>5
<1>5. Required(w.quantity) = {o.quantity} /\ w.tag = o.tag
  BY DEF EncodeOrder, Required
<1>6. stop = {o.stop_price}
  <2>1. w.stop_price = {EncodePrice(n, o.currency) : n \in o.stop_price}
    BY DEF EncodeOrder
  <2>2. o.stop_price \in Optional(Int) /\ o.currency \in Currencies
    BY DEF Orders
  <2> DEFINE W == {EncodePrice(n, o.currency) : n \in o.stop_price}
  <2>3. OrAbsent(W, {SameCurrency(p, {o.currency}) : p \in W}) = {o.stop_price}
    BY <2>2, OptionalPriceSurvives
  <2> HIDE DEF currency, w, W
  <2>4. w.stop_price = W
    BY <2>1 DEF W
  <2> QED BY <1>4, <2>3, <2>4
<1>7. peak = {o.peak_price_delta}
  <2>1. w.peak_price_delta = {EncodePrice(n, o.currency) : n \in o.peak_price_delta}
    BY DEF EncodeOrder
  <2>2. o.peak_price_delta \in Optional(Int) /\ o.currency \in Currencies
    BY DEF Orders
  <2> DEFINE W == {EncodePrice(n, o.currency) : n \in o.peak_price_delta}
  <2>3. OrAbsent(W, {SameCurrency(p, {o.currency}) : p \in W}) = {o.peak_price_delta}
    BY <2>2, OptionalPriceSurvives
  <2> HIDE DEF currency, w, W
  <2>4. w.peak_price_delta = W
    BY <2>1 DEF W
  <2> QED BY <1>4, <2>3, <2>4
<1>8. display = {o.display_quantity}
  <2>1. w.display_quantity = {{n} : n \in o.display_quantity}
    BY DEF EncodeOrder
  <2> QED BY <2>1, OptionalAmountSurvives DEF Orders
<1>9. option = {o.execution_option}
  <2>1. w.execution_option = o.execution_option BY DEF EncodeOrder
  <2> QED BY <2>1, OptionalEnumSurvives DEF Orders
<1>10. until = {o.valid_until}
  <2>1. w.valid_until = {EncodeTimestamp(t) : t \in o.valid_until}
    BY DEF EncodeOrder
  <2> QED BY <2>1, OptionalInstantSurvives DEF Orders
<1> DEFINE S ==
       [area : {o.area}, period : {o.period}, type : {o.type}, side : {o.side},
        price : {o.price}, currency : {o.currency}, quantity : {o.quantity},
        stop_price : {o.stop_price}, peak_price_delta : {o.peak_price_delta},
        display_quantity : {o.display_quantity},
        execution_option : {o.execution_option}, valid_until : {o.valid_until},
        tag : {o.tag}]
<1>11. DecodeOrder(w) = S
  <2>1. DecodeOrder(w) =
          [area : area, period : period, type : DecodeEnum(w.type, OrderTypes),
           side : DecodeEnum(w.side, Sides), price : Amounts(price),
           currency : currency, quantity : Required(w.quantity), stop_price : stop,
           peak_price_delta : peak, display_quantity : display,
           execution_option : option, valid_until : until, tag : {w.tag}]
    BY Zenon DEF DecodeOrder
  <2> HIDE DEF w, price, currency, area, period, stop, peak, display, option, until
  <2> QED BY <2>1, <1>1, <1>2, <1>3, <1>4, <1>5, <1>6, <1>7, <1>8, <1>9, <1>10
<1>12. o \in S /\ \A y \in S : y = o
  BY DEF Orders
<1>13. S = {o}
  <2> HIDE DEF S
  <2> QED BY <1>12
<1> QED BY <1>11, <1>13

-----------------------------------------------------------------------------
(* The state of an order comes back, with its reason and its actor. *)
LEMMA StateSurvives ==
  ASSUME NEW s \in StateDetails PROVE DecodeState(EncodeState(s)) = {s}
<1>1. DecodeState(EncodeState(s))
        = [state : {s.state}, reason : {s.reason}, actor : {s.actor}]
  BY DEF DecodeState, EncodeState, DecodeEnum, StateDetails
<1>2. [state : {s.state}, reason : {s.reason}, actor : {s.actor}] = {s}
  <2> DEFINE S == [state : {s.state}, reason : {s.reason}, actor : {s.actor}]
  <2>1. s \in S /\ \A y \in S : y = s
    BY DEF StateDetails
  <2>2. S = {s}
    <3> HIDE DEF S
    <3> QED BY <2>1
  <2> QED BY <2>2
<1> QED BY <1>1, <1>2

(* So does what the exchange answers about an order, whatever its state    *)
(* (the OrderDetail conversions, src/proto_conv.rs:352-405).               *)
THEOREM DetailSurvives ==
  ASSUME NEW d \in Details PROVE DecodeDetail(EncodeDetail(d)) = {d}
<1> DEFINE w == EncodeDetail(d)
           order == Required({DecodeOrder(o) : o \in w.order})
           state == Required({DecodeState(s) : s \in w.state})
           open == Required(w.open_quantity)
           filled == Required(w.filled_quantity)
           made == Required({DecodeTimestamp(ts) : ts \in w.create_time})
           modified == Required({DecodeTimestamp(ts) : ts \in w.modification_time})
<1>1. order = {d.order}
  <2>1. w.order = {EncodeOrder(d.order)} BY DEF EncodeDetail
  <2>2. DecodeOrder(EncodeOrder(d.order)) = {d.order} BY OrderSurvives DEF Details
  <2> QED BY <2>1, <2>2 DEF Required
<1>2. state = {d.state}
  <2>1. w.state = {EncodeState(d.state)} BY DEF EncodeDetail
  <2>2. DecodeState(EncodeState(d.state)) = {d.state} BY StateSurvives DEF Details
  <2> QED BY <2>1, <2>2 DEF Required
<1>3. open = {d.open_quantity} /\ filled = {d.filled_quantity} /\ w.id = d.id
  BY DEF EncodeDetail, Required
<1>4. made = {d.create_time}
  <2>1. w.create_time = {EncodeTimestamp(d.create_time)} BY DEF EncodeDetail
  <2>2. DecodeTimestamp(EncodeTimestamp(d.create_time)) = {d.create_time}
    BY InstantSurvives DEF Details
  <2> QED BY <2>1, <2>2 DEF Required
<1>5. modified = {d.modification_time}
  <2>1. w.modification_time = {EncodeTimestamp(d.modification_time)}
    BY DEF EncodeDetail
  <2>2. DecodeTimestamp(EncodeTimestamp(d.modification_time))
          = {d.modification_time}
    BY InstantSurvives DEF Details
  <2> QED BY <2>1, <2>2 DEF Required
<1> DEFINE S ==
       [id : {d.id}, order : {d.order}, state : {d.state},
        open_quantity : {d.open_quantity}, filled_quantity : {d.filled_quantity},
        create_time : {d.create_time}, modification_time : {d.modification_time}]
<1>6. DecodeDetail(w) = S
  <2>1. DecodeDetail(w) =
          [id : {w.id}, order : order, state : state, open_quantity : open,
           filled_quantity : filled, create_time : made, modification_time : modified]
    BY Zenon DEF DecodeDetail
  <2> HIDE DEF w, order, state, open, filled, made, modified
  <2> QED BY <2>1, <1>1, <1>2, <1>3, <1>4, <1>5
<1>7. d \in S /\ \A y \in S : y = d
  BY DEF Details
<1>8. S = {d}
  <2> HIDE DEF S
  <2> QED BY <1>7
<1> QED BY <1>6, <1>8

-----------------------------------------------------------------------------
(* A delivery-time filter of one interval.                                 *)
Asks(x, y, D) == [interval |-> {[from |-> {x}, to |-> {y}]}, durations |-> D]

(* Two half-open intervals that meet share out the periods of the whole:   *)
(* a client that asks for one after the other sees every period once       *)
(* (period_matches_dtf, src/server.rs:160-186).                            *)
THEOREM IntervalsShareOut ==
  ASSUME NEW p \in Periods, NEW D, NEW a, NEW m, NEW b,
         NEW ta \in Int, NEW tm \in Int, NEW tb \in Int, ta <= tm, tm <= tb,
         DecodeTimestamp(a) = {ta}, DecodeTimestamp(m) = {tm}, DecodeTimestamp(b) = {tb}
  PROVE  /\ PeriodMatches(p, Asks(a, b, D))
              <=> PeriodMatches(p, Asks(a, m, D)) \/ PeriodMatches(p, Asks(m, b, D))
         /\ ~ (PeriodMatches(p, Asks(a, m, D)) /\ PeriodMatches(p, Asks(m, b, D)))
<1>1. ASSUME NEW x, NEW y, NEW tx \in Int, NEW ty \in Int,
             DecodeTimestamp(x) = {tx}, DecodeTimestamp(y) = {ty}
      PROVE  PeriodMatches(p, Asks(x, y, D))
               <=> tx <= p.start /\ p.start < ty /\ EnumListPasses(D, p.duration)
  <2>1. AfterStart({x}, p) <=> p.start >= tx
    BY <1>1 DEF AfterStart
  <2>2. BeforeEnd({y}, p) <=> p.start < ty
    BY <1>1 DEF BeforeEnd
  <2>3. PeriodMatches(p, Asks(x, y, D))
          <=> AfterStart({x}, p) /\ BeforeEnd({y}, p) /\ EnumListPasses(D, p.duration)
    <3> DEFINE f == Asks(x, y, D)
               iv == [from |-> {x}, to |-> {y}]
    <3>1. f.interval = {iv} /\ f.durations = D
      BY DEF Asks
    <3>2. iv.from = {x} /\ iv.to = {y}
      OBVIOUS
    <3> HIDE DEF f, iv
    <3>3. PeriodMatches(p, f)
            <=> AfterStart({x}, p) /\ BeforeEnd({y}, p) /\ EnumListPasses(D, p.duration)
      BY <3>1, <3>2, Zenon DEF PeriodMatches
    <3> QED BY <3>3 DEF f
  <2>4. p.start \in Int
    BY DEF Periods
  <2> QED BY <2>1, <2>2, <2>3, <2>4
<1>2. PeriodMatches(p, Asks(a, b, D))
        <=> ta <= p.start /\ p.start < tb /\ EnumListPasses(D, p.duration)
  BY <1>1
<1>3. PeriodMatches(p, Asks(a, m, D))
        <=> ta <= p.start /\ p.start < tm /\ EnumListPasses(D, p.duration)
  BY <1>1
<1>4. PeriodMatches(p, Asks(m, b, D))
        <=> tm <= p.start /\ p.start < tb /\ EnumListPasses(D, p.duration)
  BY <1>1
<1>5. p.start \in Int
  BY DEF Periods
<1> QED BY <1>2, <1>3, <1>4, <1>5

(* The start the client computes at `at' for the n-th quarter is t, encoded. *)
StartsAhead(n, at, t) ==
  /\ PeriodStart(n, at) = EncodeTimestamp(t)
  /\ DecodeTimestamp(PeriodStart(n, at)) = {t}
  /\ at + 900 * Nanos * n < t
  /\ t <= at + 900 * Nanos * (n + 1)
  /\ IsAlignedPeriod([start |-> t, duration |-> 15])

(* A period a client names by its quarter is aligned, and starts so many   *)
(* quarters and at most one more after the instant it was named at         *)
(* (parse_period_start, src/bin/tsctl.rs:262-283).                         *)
THEOREM NamedPeriodIsAhead ==
  ASSUME NEW at \in Int, NEW n \in Nat
  PROVE  \E t \in Int : StartsAhead(n, at, t)
<1> DEFINE q == at \div Nanos
           b == NextQuarterBoundary(q)
           B == b + 900 * n
           t == B * Nanos
<1>1. Nanos \in Int /\ Nanos > 0
  BY RequestsAssumption
<1>2. q \in Int /\ at >= q * Nanos /\ at < q * Nanos + Nanos
  BY <1>1, SMTT(30)
<1>3. /\ b \in Int /\ b >= q + 1 /\ b % 900 = 0 /\ b <= q + 900
      /\ B \in Int /\ B % 900 = 0
  <2> HIDE DEF q
  <2> QED BY <1>2 DEF NextQuarterBoundary
<1>4. t \in Int
  BY <1>1, <1>3
<1>5. at < b * Nanos /\ b * Nanos <= at + 900 * Nanos
  <2> HIDE DEF q, b
  <2>1. b * Nanos >= (q + 1) * Nanos /\ b * Nanos <= (q + 900) * Nanos
    BY <1>1, <1>2, <1>3, SMTT(30)
  <2>2. (q + 1) * Nanos = q * Nanos + Nanos /\ (q + 900) * Nanos = q * Nanos + 900 * Nanos
    BY <1>1, <1>2, SMTT(30)
  <2>3. b * Nanos \in Int /\ q * Nanos \in Int /\ 900 * Nanos \in Int
    BY <1>1, <1>2, <1>3
  <2> QED BY <1>1, <1>2, <2>1, <2>2, <2>3
<1>6. at + 900 * Nanos * n < t /\ t <= at + 900 * Nanos * (n + 1)
  <2> HIDE DEF q, b
  <2>1. t = b * Nanos + 900 * Nanos * n
    BY <1>1, <1>3, SMTT(30)
  <2>2. 900 * Nanos * (n + 1) = 900 * Nanos * n + 900 * Nanos
    BY <1>1, SMTT(30)
  <2>3. b * Nanos \in Int /\ 900 * Nanos * n \in Int /\ 900 * Nanos \in Int
    BY <1>1, <1>3
  <2> QED BY <1>5, <2>1, <2>2, <2>3
<1>7. IsAlignedPeriod([start |-> t, duration |-> 15])
  <2>1. t \div Nanos = B
    <3> HIDE DEF B
    <3> QED BY <1>1, <1>3, SMTT(30)
  <2>2. B % 60 = 0 /\ (B \div 60) % 15 = 0
    <3> HIDE DEF B
    <3> QED BY <1>3
  <2> HIDE DEF B, t
  <2> QED BY <2>1, <2>2 DEF IsAlignedPeriod, IsAligned
<1>8. PeriodStart(n, at) = EncodeTimestamp(t)
  BY DEF PeriodStart
<1>9. DecodeTimestamp(PeriodStart(n, at)) = {t}
  BY <1>4, <1>8, InstantSurvives
<1>10. StartsAhead(n, at, t)
  BY <1>6, <1>7, <1>8, <1>9 DEF StartsAhead
<1> HIDE DEF t
<1> QED BY <1>4, <1>10

-----------------------------------------------------------------------------
(* What comes off the wire is what the exchange holds.                     *)
KnownPrices == [amount: Int, currency: Currencies]

(* An instant. *)
LEMMA DecodedInstant ==
  ASSUME NEW ts \in WireTimes PROVE DecodeTimestamp(ts) \in Optional(Int)
<1>1. Nanos \in Int BY RequestsAssumption
<1>2. ts.seconds \in Int /\ ts.nanos \in Int BY DEF WireTimes
<1>3. CASE ts.nanos \in 0 .. Nanos - 1
  <2>1. DecodeTimestamp(ts) = {ts.seconds * Nanos + ts.nanos}
    BY <1>3 DEF DecodeTimestamp
  <2>2. ts.seconds * Nanos + ts.nanos \in Int
    BY <1>1, <1>2
  <2> QED BY <2>1, <2>2 DEF Optional
<1>4. CASE ts.nanos \notin 0 .. Nanos - 1
  BY <1>4 DEF DecodeTimestamp, Optional
<1> QED BY <1>3, <1>4

(* An optional one. *)
LEMMA DecodedInstants ==
  ASSUME NEW f \in Optional(WireTimes)
  PROVE  UNION {DecodeTimestamp(ts) : ts \in f} \in Optional(Int)
<1>1. \A ts \in f : DecodeTimestamp(ts) \in Optional(Int)
  BY DecodedInstant DEF Optional
<1>2. \A x, y \in f : x = y
  BY DEF Optional
<1>3. \A x, y \in UNION {DecodeTimestamp(ts) : ts \in f} : x = y /\ x \in Int
  BY <1>1, <1>2 DEF Optional
<1> QED BY <1>3 DEF Optional

(* A price. *)
LEMMA DecodedPrice ==
  ASSUME NEW w \in WirePrices PROVE DecodePrice(w) \in Optional(KnownPrices)
<1>1. w.amount \in Optional(Int) BY DEF WirePrices
<1>2. DecodePrice(w) = [amount : w.amount, currency : {w.currency} \cap Currencies]
  BY DEF DecodePrice, DecodeEnum
<1> DEFINE S == [amount : w.amount, currency : {w.currency} \cap Currencies]
<1>3. \A x, y \in S : x = y /\ x \in KnownPrices
  <2> SUFFICES ASSUME NEW x \in S, NEW y \in S PROVE x = y /\ x \in KnownPrices
    OBVIOUS
  <2>1. x.amount = y.amount /\ x.amount \in Int
    BY <1>1 DEF Optional
  <2>2. x.currency = y.currency /\ x.currency \in Currencies
    OBVIOUS
  <2>3. /\ x = [amount |-> x.amount, currency |-> x.currency]
        /\ y = [amount |-> y.amount, currency |-> y.currency]
    OBVIOUS
  <2> QED BY <2>1, <2>2, <2>3 DEF KnownPrices
<1>4. S \in Optional(KnownPrices)
  <2> HIDE DEF S
  <2> QED BY <1>3 DEF Optional
<1> QED BY <1>2, <1>4

(* An optional one, its amount and its currency. *)
LEMMA DecodedPrices ==
  ASSUME NEW f \in Optional(WirePrices)
  PROVE  LET prices == UNION {DecodePrice(p) : p \in f} IN
         /\ prices \in Optional(KnownPrices)
         /\ Amounts(prices) \in Optional(Int)
         /\ CurrenciesOf(prices) \in Optional(Currencies)
         /\ prices = {} <=> Amounts(prices) = {}
<1> DEFINE prices == UNION {DecodePrice(p) : p \in f}
<1>1. \A p \in f : DecodePrice(p) \in Optional(KnownPrices)
  BY DecodedPrice DEF Optional
<1>2. \A x, y \in f : x = y
  BY DEF Optional
<1>3. \A x, y \in prices : x = y /\ x \in KnownPrices
  BY <1>1, <1>2 DEF Optional
<1> HIDE DEF prices
<1>4. prices \in Optional(KnownPrices)
  BY <1>3 DEF Optional
<1>5. Amounts(prices) \in Optional(Int)
  <2>1. \A x, y \in Amounts(prices) : x = y /\ x \in Int
    BY <1>3 DEF Amounts, KnownPrices
  <2> QED BY <2>1 DEF Optional
<1>6. CurrenciesOf(prices) \in Optional(Currencies)
  <2>1. \A x, y \in CurrenciesOf(prices) : x = y /\ x \in Currencies
    BY <1>3 DEF CurrenciesOf, KnownPrices
  <2> QED BY <2>1 DEF Optional
<1>7. prices = {} <=> Amounts(prices) = {}
  BY DEF Amounts
<1> QED BY <1>4, <1>5, <1>6, <1>7 DEF prices

(* An area, and a delivery period. *)
LEMMA DecodedArea == ASSUME NEW w \in WireAreas PROVE DecodeArea(w) \subseteq Areas
<1>1. w.code \in STRING BY DEF WireAreas
<1>2. DecodeArea(w) = [code : {w.code}, code_type : {w.code_type} \cap CodeTypes]
  BY DEF DecodeArea, DecodeEnum
<1> QED BY <1>1, <1>2 DEF Areas

(* A delivery period. *)
LEMMA DecodedPeriod ==
  ASSUME NEW w \in WirePeriods PROVE DecodePeriod(w) \subseteq Periods
<1> DEFINE starts == UNION {DecodeTimestamp(ts) : ts \in w.start}
<1>1. starts \in Optional(Int)
  BY DecodedInstants DEF WirePeriods
<1>2. DecodePeriod(w) = [start : starts, duration : {w.duration} \cap Durations]
  BY DEF DecodePeriod, DecodeEnum, Required
<1> HIDE DEF starts
<1>3. starts \subseteq Int
  BY <1>1 DEF Optional
<1>4. {w.duration} \cap Durations \subseteq Durations
  OBVIOUS
<1> DEFINE lengths == {w.duration} \cap Durations
<1> HIDE DEF lengths
<1>5. [start : starts, duration : lengths] \subseteq [start : Int, duration : Durations]
  BY <1>3, <1>4 DEF lengths
<1> QED BY <1>2, <1>5 DEF Periods, lengths

(* An optional field that is present has to decode, and then is in its type. *)
LEMMA DecodedOptional ==
  ASSUME NEW f, NEW D, NEW S, \A x \in D : x \subseteq S
  PROVE  OrAbsent(f, D) \subseteq Optional(S)
<1>1. CASE f = {}
  BY <1>1 DEF OrAbsent, Optional
<1>2. CASE f # {}
  <2>1. OrAbsent(f, D) = {{x} : x \in UNION D}
    BY <1>2 DEF OrAbsent
  <2>2. \A x \in UNION D : {x} \in Optional(S)
    BY DEF Optional
  <2> QED BY <2>1, <2>2
<1> QED BY <1>1, <1>2

(* An optional price, if it is in the order's currency. *)
LEMMA DecodedOtherPrice ==
  ASSUME NEW f \in Optional(WirePrices), NEW currency
  PROVE  OrAbsent(f, {SameCurrency(p, currency) : p \in f}) \subseteq Optional(Int)
<1> DEFINE D == {SameCurrency(p, currency) : p \in f}
<1>1. ASSUME NEW p \in f PROVE SameCurrency(p, currency) \subseteq Int
  <2>1. DecodePrice(p) \in Optional(KnownPrices)
    BY DecodedPrice DEF Optional
  <2>2. Amounts(DecodePrice(p)) \subseteq Int
    BY <2>1 DEF Amounts, Optional, KnownPrices
  <2> QED BY <2>2 DEF SameCurrency
<1>2. \A x \in D : x \subseteq Int
  BY <1>1
<1> HIDE DEF D
<1>3. OrAbsent(f, D) \subseteq Optional(Int)
  BY <1>2, DecodedOptional
<1> QED BY <1>3 DEF D

(* An order, whatever its sender put into its fields: what decodes is an   *)
(* order as the exchange holds it (Order::try_from,                        *)
(* src/proto_conv.rs:211-293).                                             *)
THEOREM DecodedOrder == ASSUME NEW w \in WireOrders PROVE DecodeOrder(w) \subseteq Orders
<1> DEFINE price == Required({DecodePrice(p) : p \in w.price})
           currency == CurrenciesOf(price)
           area == Required({DecodeArea(a) : a \in w.area})
           period == Required({DecodePeriod(d) : d \in w.period})
           stop == OrAbsent(w.stop_price,
                            {SameCurrency(p, currency) : p \in w.stop_price})
           peak == OrAbsent(w.peak_price_delta,
                            {SameCurrency(p, currency) : p \in w.peak_price_delta})
           display == OrAbsent(w.display_quantity, w.display_quantity)
           option == OrAbsent(w.execution_option,
                              {DecodeEnum(e, Options) : e \in w.execution_option})
           until == OrAbsent(w.valid_until,
                             {DecodeTimestamp(ts) : ts \in w.valid_until})
           type == DecodeEnum(w.type, OrderTypes)
           side == DecodeEnum(w.side, Sides)
           quantity == Required(w.quantity)
<1>1. area \subseteq Areas
  <2>1. \A a \in w.area : DecodeArea(a) \subseteq Areas
    BY DecodedArea DEF WireOrders, Optional
  <2> QED BY <2>1 DEF Required
<1>2. period \subseteq Periods
  <2>1. \A d \in w.period : DecodePeriod(d) \subseteq Periods
    BY DecodedPeriod DEF WireOrders, Optional
  <2> QED BY <2>1 DEF Required
<1>3. type \subseteq OrderTypes /\ side \subseteq Sides
  BY DEF DecodeEnum
<1>4. Amounts(price) \subseteq Int /\ currency \subseteq Currencies
  <2>1. w.price \in Optional(WirePrices) BY DEF WireOrders
  <2>2. /\ Amounts(UNION {DecodePrice(p) : p \in w.price}) \in Optional(Int)
        /\ CurrenciesOf(UNION {DecodePrice(p) : p \in w.price}) \in Optional(Currencies)
    BY <2>1, DecodedPrices
  <2> QED BY <2>2 DEF Optional, Required
<1>5. quantity \subseteq Int /\ w.tag \in Optional(STRING)
  BY DEF Required, WireOrders, Optional
<1>6. stop \subseteq Optional(Int)
  <2>1. w.stop_price \in Optional(WirePrices) BY DEF WireOrders
  <2> HIDE DEF currency
  <2> QED BY <2>1, DecodedOtherPrice
<1>7. peak \subseteq Optional(Int)
  <2>1. w.peak_price_delta \in Optional(WirePrices) BY DEF WireOrders
  <2> HIDE DEF currency
  <2> QED BY <2>1, DecodedOtherPrice
<1>8. display \subseteq Optional(Int)
  <2>1. \A x \in w.display_quantity : x \subseteq Int
    BY DEF WireOrders, Optional
  <2> QED BY <2>1, DecodedOptional
<1>9. option \subseteq Optional(Options)
  <2> DEFINE D == {DecodeEnum(e, Options) : e \in w.execution_option}
  <2>1. \A x \in D : x \subseteq Options
    BY DEF DecodeEnum
  <2> HIDE DEF D
  <2>2. OrAbsent(w.execution_option, D) \subseteq Optional(Options)
    BY <2>1, DecodedOptional
  <2> QED BY <2>2 DEF D
<1>10. until \subseteq Optional(Int)
  <2> DEFINE D == {DecodeTimestamp(ts) : ts \in w.valid_until}
  <2>1. \A x \in D : x \subseteq Int
    BY DecodedInstant DEF WireOrders, Optional
  <2> HIDE DEF D
  <2>2. OrAbsent(w.valid_until, D) \subseteq Optional(Int)
    BY <2>1, DecodedOptional
  <2> QED BY <2>2 DEF D
<1>11. DecodeOrder(w) =
          [area : area, period : period, type : type, side : side,
           price : Amounts(price), currency : currency, quantity : quantity,
           stop_price : stop, peak_price_delta : peak, display_quantity : display,
           execution_option : option, valid_until : until, tag : {w.tag}]
  BY Zenon DEF DecodeOrder
<1> QED
  <2> HIDE DEF price, currency, area, period, stop, peak, display, option, until,
               type, side, quantity
  <2> SUFFICES ASSUME NEW o \in DecodeOrder(w) PROVE o \in Orders
    OBVIOUS
  <2>1. /\ o.area \in area
        /\ o.period \in period
        /\ o.type \in type
        /\ o.side \in side
        /\ o.price \in Amounts(price)
        /\ o.currency \in currency
        /\ o.quantity \in quantity
        /\ o.stop_price \in stop
        /\ o.peak_price_delta \in peak
        /\ o.display_quantity \in display
        /\ o.execution_option \in option
        /\ o.valid_until \in until
        /\ o.tag \in {w.tag}
    BY <1>11
  <2>2. o = [area |-> o.area, period |-> o.period,
               type |-> o.type, side |-> o.side,
               price |-> o.price, currency |-> o.currency,
               quantity |-> o.quantity, stop_price |-> o.stop_price,
               peak_price_delta |-> o.peak_price_delta, display_quantity |-> o.display_quantity,
               execution_option |-> o.execution_option, valid_until |-> o.valid_until,
               tag |-> o.tag]
    BY <1>11
  <2>3. o.tag \in Optional(STRING)
    BY <1>5, <2>1
  <2> QED BY <1>1, <1>2, <1>3, <1>4, <1>5, <1>6, <1>7, <1>8, <1>9, <1>10, <2>1, <2>2, <2>3
          DEF Orders

-----------------------------------------------------------------------------
(* A time a command puts on the wire is one.                               *)
LEMMA StartOnWire ==
  ASSUME NEW at \in Int, NEW n \in Nat PROVE PeriodStart(n, at) \in WireTimes
<1>2. Nanos \in Int /\ Nanos > 0 BY RequestsAssumption
<1>3. ASSUME NEW t \in Int PROVE EncodeTimestamp(t) \in WireTimes
  <2>1. t \div Nanos \in Int /\ t % Nanos \in Int
    BY <1>2, SMTT(30)
  <2> QED BY <2>1 DEF EncodeTimestamp, WireTimes
<1>4. at \div Nanos \in Int
  BY <1>2, SMTT(30)
<1>5. (NextQuarterBoundary(at \div Nanos) + 900 * n) * Nanos \in Int
  BY <1>2, <1>4 DEF NextQuarterBoundary
<1> QED BY <1>3, <1>5 DEF PeriodStart

(* So is the request of a command.                                         *)
LEMMA RequestOnWire ==
  ASSUME NEW t \in Commands, NEW at \in Int PROVE RequestOf(t, at) \in WireRequests
<1>1. CASE t \in Places
  <2>1. t.kind = "place" BY <1>1 DEF Places
  <2>2. PlacedOrder(t, at) \in WireOrders
    <3>1. PeriodStart(t.quarters, at) \in WireTimes
      BY <1>1, StartOnWire DEF Places
    <3> DEFINE start == PeriodStart(t.quarters, at)
               area == [code |-> t.area, code_type |-> 1]
               period == [start |-> {start}, duration |-> t.duration]
               price == EncodePrice(t.price, 1)
    <3>2. area \in WireAreas BY <1>1 DEF Places, WireAreas
    <3>3. period \in WirePeriods
      <4> HIDE DEF start
      <4> QED BY <1>1, <3>1 DEF Places, WirePeriods, Optional, start
    <3>4. price \in WirePrices
      BY <1>1 DEF Places, WirePrices, EncodePrice, Optional
    <3>5. PlacedOrder(t, at) =
            [area |-> {area}, period |-> {period}, type |-> 1, side |-> t.side,
             price |-> {price}, quantity |-> {{t.quantity}}, stop_price |-> {},
             peak_price_delta |-> {}, display_quantity |-> {},
             execution_option |-> t.exec, valid_until |-> {}, payload |-> {},
             tag |-> t.tag]
      BY Zenon DEF PlacedOrder
    <3> HIDE DEF start, area, period, price
    <3>6. /\ {area} \in Optional(WireAreas) /\ {period} \in Optional(WirePeriods)
          /\ {price} \in Optional(WirePrices)
      BY <3>2, <3>3, <3>4 DEF Optional
    <3>7. /\ t.side \in Int /\ {{t.quantity}} \in Optional(Optional(Int))
          /\ t.exec \in Optional(Int) /\ t.tag \in Optional(STRING)
      BY <1>1 DEF Places, Optional, Sides, Options
    <3>8. /\ {} \in Optional(WirePrices) /\ {} \in Optional(Optional(Int))
          /\ {} \in Optional(WireTimes) /\ {} \in Optional(STRING)
      BY DEF Optional
    <3> QED BY <3>5, <3>6, <3>7, <3>8 DEF WireOrders
  <2>3. RequestOf(t, at)
          = [kind |-> "create", pool |-> t.pool, order |-> {PlacedOrder(t, at)}]
    BY <2>1 DEF RequestOf
  <2>4. {PlacedOrder(t, at)} \in Optional(WireOrders) /\ t.pool \in Nat
    BY <1>1, <2>2 DEF Optional, Places
  <2> QED BY <2>3, <2>4 DEF WireRequests, Creates
<1>2. CASE t \in Modifies
  <2>1. t.kind = "modify" BY <1>2 DEF Modifies
  <2>2. RequestOf(t, at) =
          [kind |-> "update", pool |-> t.pool, id |-> t.id, price |-> Prices(t.price),
           quantity |-> {{q} : q \in t.quantity}, valid_until |-> {}, tag |-> t.tag]
    BY <2>1 DEF RequestOf
  <2>3. Prices(t.price) \in Optional(WirePrices)
    <3>1. \A p \in Int : EncodePrice(p, 1) \in WirePrices
      BY DEF EncodePrice, WirePrices, Optional
    <3> QED BY <1>2, <3>1 DEF Prices, Modifies, Optional
  <2>4. {{q} : q \in t.quantity} \in Optional(Optional(Int))
    <3>1. t.quantity \in Optional(Int) BY <1>2 DEF Modifies
    <3> QED BY <3>1 DEF Optional
  <2>5. {} \in Optional(WireTimes)
    BY DEF Optional
  <2>6. t.pool \in Nat /\ t.id \in Nat /\ t.tag \in Optional(STRING)
    BY <1>2 DEF Modifies
  <2> QED BY <2>2, <2>3, <2>4, <2>5, <2>6 DEF WireRequests, Updates
<1>3. CASE t \in Bare
  <2>1. t.kind # "place" /\ t.kind # "modify" BY <1>3 DEF Bare
  <2> QED BY <1>3, <2>1 DEF RequestOf, WireRequests
<1> QED BY <1>1, <1>2, <1>3 DEF Commands

(* A request that creates is a place command's, one that updates a modify's. *)
LEMMA RequestKinds ==
  ASSUME NEW t \in Commands, NEW at
  PROVE  /\ RequestOf(t, at).kind = "create"
              => t \in Places /\ RequestOf(t, at).order = {PlacedOrder(t, at)}
         /\ RequestOf(t, at).kind = "update"
              => t \in Modifies /\ RequestOf(t, at).price = Prices(t.price)
<1>1. CASE t \in Places
  BY <1>1 DEF Places, RequestOf
<1>2. CASE t \in Modifies
  BY <1>2 DEF Modifies, RequestOf
<1>3. CASE t \in Bare
  BY <1>3 DEF Bare, RequestOf
<1> QED BY <1>1, <1>2, <1>3 DEF Commands

(* An order as it was typed.                                               *)
IsAsTyped(o, t, at) ==
  /\ o.area.code = t.area /\ o.side = t.side /\ o.execution_option = t.exec
  /\ o.period.duration = t.duration
  /\ o.period.start > at + 900 * Nanos * t.quarters
  /\ o.period.start <= at + 900 * Nanos * (t.quarters + 1)

(* What the exchange decodes of a place command's request is the order     *)
(* that was typed, and nothing else.                                       *)
LEMMA PlacedDecodes ==
  ASSUME NEW t \in Places, Sound(t), NEW at \in Int
  PROVE  \E o \in Orders : /\ DecodeOrder(PlacedOrder(t, at)) = {o}
                           /\ IsAsTyped(o, t, at) /\ o.price = t.price
<1>1. PICK start \in Int :
        /\ DecodeTimestamp(PeriodStart(t.quarters, at)) = {start}
        /\ at + 900 * Nanos * t.quarters < start
        /\ start <= at + 900 * Nanos * (t.quarters + 1)
        /\ PeriodStart(t.quarters, at) = EncodeTimestamp(start)
  <2> DEFINE n == t.quarters
  <2>1. n \in Nat BY DEF Places
  <2> HIDE DEF n
  <2>2. PICK u \in Int : StartsAhead(n, at, u)
    BY <2>1, NamedPeriodIsAhead
  <2> QED BY <2>2 DEF n, StartsAhead
<1> DEFINE area == [code |-> t.area, code_type |-> 1]
           period == [start |-> start, duration |-> t.duration]
           o == [area |-> area, period |-> period, type |-> 1, side |-> t.side,
                 price |-> t.price, currency |-> 1, quantity |-> t.quantity,
                 stop_price |-> {}, peak_price_delta |-> {}, display_quantity |-> {},
                 execution_option |-> t.exec, valid_until |-> {}, tag |-> t.tag]
<1>2. t.duration \in Durations BY DEF Sound, Places
<1>3. o \in Orders
  <2>1. area \in Areas BY DEF Areas, Places, CodeTypes
  <2>2. period \in Periods BY <1>2 DEF Periods
  <2>3. {} \in Optional(Int) BY DEF Optional
  <2>4. /\ 1 \in OrderTypes /\ 1 \in Currencies /\ t.side \in Sides /\ t.price \in Int
        /\ t.quantity \in Int /\ t.exec \in Optional(Options) /\ t.tag \in Optional(STRING)
    BY DEF Places, OrderTypes, Currencies
  <2> HIDE DEF area, period
  <2> QED BY <2>1, <2>2, <2>3, <2>4 DEF Orders
<1>4. EncodeOrder(o) = PlacedOrder(t, at)
  <2>1. EncodeArea(area) = [code |-> t.area, code_type |-> 1]
    BY DEF EncodeArea
  <2>2. EncodePeriod(period)
          = [start |-> {PeriodStart(t.quarters, at)}, duration |-> t.duration]
    BY <1>1 DEF EncodePeriod
  <2>3. EncodeOrder(o) =
          [area |-> {EncodeArea(area)}, period |-> {EncodePeriod(period)}, type |-> 1,
           side |-> t.side, price |-> {EncodePrice(t.price, 1)},
           quantity |-> {{t.quantity}}, stop_price |-> {}, peak_price_delta |-> {},
           display_quantity |-> {}, execution_option |-> t.exec, valid_until |-> {},
           payload |-> {}, tag |-> t.tag]
    <3> HIDE DEF area, period
    <3> QED BY DEF EncodeOrder
  <2> HIDE DEF o
  <2> QED BY <2>1, <2>2, <2>3 DEF PlacedOrder
<1>5. DecodeOrder(PlacedOrder(t, at)) = {o}
  <2> HIDE DEF o
  <2>1. DecodeOrder(EncodeOrder(o)) = {o} BY <1>3, OrderSurvives
  <2> QED BY <1>4, <2>1
<1>6. IsAsTyped(o, t, at) /\ o.price = t.price
  BY <1>1 DEF IsAsTyped
<1> HIDE DEF o
<1> QED BY <1>3, <1>5, <1>6

-----------------------------------------------------------------------------
(* What the calls keep.  An order that can still trade has something left, *)
(* and a detail follows another one of the same order, however much later. *)
Good(d) ==
  /\ d \in Details /\ d.open_quantity \in Nat /\ d.filled_quantity \in Nat
  /\ d.state.state \notin Terminal => d.open_quantity > 0
Follows(e, d) ==
  /\ e.id = d.id /\ e.create_time = d.create_time
  /\ e.order.area = d.order.area /\ e.order.side = d.order.side
  /\ e.order.period = d.order.period
  /\ e.order.execution_option = d.order.execution_option
  /\ e.filled_quantity >= d.filled_quantity
  /\ d.state.state \in Terminal => e.state.state = d.state.state

OrdersInv ==
  /\ orders \in Seq(Details) /\ Len(orders) <= MaxOrders
  /\ \A i \in DOMAIN orders : orders[i].id = i /\ Good(orders[i])

(* What its owner said of an order.                                        *)
Sayings == [typed: SUBSET Commands, at: Int, currency: Currencies, price: SUBSET Int]
SaidInv == said \in Seq(Sayings) /\ Len(said) = Len(orders)

(* A request under way is what its command made of it when it was typed.   *)
RequestStands(k) ==
  /\ k.request \in WireRequests /\ k.at \in Int
  /\ \/ k.typed = {}
     \/ \E t \in Commands : /\ Sound(t) /\ k.typed = {t}
                            /\ k.request = RequestOf(t, k.at)
RequestsInv ==
  /\ call = [c \in Client |-> call[c]]
  /\ \A c \in Client :
       /\ call[c].stage \in {"sent", "served", "done"}
       /\ call[c].stage = "sent" => RequestStands(call[c])

(* An answer holds from the moment it is given.                            *)
LineHolds(line) ==
  /\ line.id \in DOMAIN orders
  /\ \A n \in line.filled : n \in Nat /\ n <= orders[line.id].filled_quantity
  /\ \A s \in line.states : s \in Terminal => orders[line.id].state.state = s
AnswersInv ==
  \A c \in Client : call[c].stage \in {"served", "done"} =>
    \A line \in call[c].lines : LineHolds(line)

Printings == [period: Periods, buy_area: Areas, sell_area: Areas, state: {1}]
PrintsInv == prints \in Seq(Printings)

(* How far a stream is.                                                    *)
Streams ==
  [stage: {"open"}, want: SUBSET WirePeriods, close_at: SUBSET Int, from: Nat,
   upto: Nat, got: Seq(Nat), lost: SUBSET Nat]
StreamStands(s) ==
  /\ s \in Streams /\ s.from <= s.upto /\ s.upto <= Len(prints)
  /\ \A j, k \in DOMAIN s.got : j < k => s.got[j] < s.got[k]
  /\ s.lost \subseteq s.from + 1 .. s.upto /\ \A i \in s.lost : i <= Dropped
  /\ \A i \in (s.from + 1 .. s.upto) \ s.lost :
       (\A w \in s.want : OfContract(prints[i].period, w)) => i \in ToSet(s.got)
  /\ \A i \in ToSet(s.got) :
       /\ i \in (s.from + 1 .. s.upto) \ s.lost
       /\ \A w \in s.want : NearContract(prints[i].period, w)
TapesInv ==
  /\ tape = [c \in Client |-> tape[c]]
  /\ \A c \in Client : /\ tape[c].stage \in {"none", "open"}
                       /\ tape[c].stage = "open" => StreamStands(tape[c])

CallsInv ==
  /\ now \in Instants /\ OrdersInv /\ SaidInv /\ OrdersAsTyped
  /\ swept \in 0 .. Len(orders) /\ SweptStayOver
  /\ RequestsInv /\ AnswersInv /\ PrintsInv /\ TapesInv

(* It says all that the runs check. *)
LEMMA CallsInvImplies == CallsInv => CallsFaithful
<1> SUFFICES ASSUME CallsInv PROVE CallsFaithful
  OBVIOUS
<1>1. CallsTypeOK
  BY DEF CallsInv, CallsTypeOK, OrdersInv, SaidInv, RequestsInv, TapesInv, Good
<1>2. AnswersHold
  BY DEF CallsInv, AnswersInv, AnswersHold, LineHolds
<1>3. TapesKeepUp
  BY DEF CallsInv, TapesInv, TapesKeepUp, StreamStands
<1> QED BY <1>1, <1>2, <1>3 DEF CallsInv, CallsFaithful

-----------------------------------------------------------------------------
(* An order that ends. *)
LEMMA EndedFollows ==
  ASSUME now \in Int, NEW d, Good(d), d.state.state \notin Terminal, NEW s \in Terminal
  PROVE  /\ Good(Ended(d, s)) /\ Follows(Ended(d, s), d)
         /\ Ended(d, s).order = d.order /\ Ended(d, s).state.state = s
<1>1. In(s) \in StateDetails /\ In(s).state = s
  BY DEF In, StateDetails, Terminal, Filled, Canceled, Expired, Failed, OrderStates,
         Reasons, Actors
<1>2. d \in Details BY DEF Good
<1> DEFINE e == Ended(d, s)
<1>3. /\ e \in Details /\ e.id = d.id /\ e.order = d.order /\ e.state = In(s)
      /\ e.open_quantity = d.open_quantity /\ e.filled_quantity = d.filled_quantity
      /\ e.create_time = d.create_time
  BY <1>1, <1>2 DEF Ended, Details
<1> HIDE DEF e
<1>4. Good(e)
  BY <1>1, <1>3 DEF Good
<1>5. Follows(e, d)
  BY <1>3 DEF Follows, Good
<1> QED BY <1>1, <1>3, <1>4, <1>5 DEF e

(* What the state of an order is once the books have seen it. *)
LEMMA OutcomeState ==
  ASSUME NEW mode, NEW open \in Nat
  PROVE  /\ In(Outcome(mode, open)) \in StateDetails
         /\ In(Outcome(mode, open)).state = Outcome(mode, open)
         /\ Outcome(mode, open) \notin Terminal => open > 0
BY DEF In, Outcome, StateDetails, Terminal, Active, Filled, Canceled, Expired, Failed,
       OrderStates, Reasons, Actors

(* A change of these four leaves a detail. *)
LEMMA ChangedDetail ==
  ASSUME NEW d \in Details, NEW open \in Int, NEW filled \in Int, NEW time \in Int,
         NEW state \in StateDetails
  PROVE  [d EXCEPT !.open_quantity = open, !.filled_quantity = filled,
                   !.modification_time = time, !.state = state] \in Details
<1> DEFINE opened == [d EXCEPT !.open_quantity = open]
           dealt == [opened EXCEPT !.filled_quantity = filled]
           timed == [dealt EXCEPT !.modification_time = time]
           ended == [timed EXCEPT !.state = state]
<1>1. opened \in Details BY DEF Details
<1> HIDE DEF opened
<1>2. dealt \in Details BY <1>1 DEF Details
<1> HIDE DEF dealt
<1>3. timed \in Details BY <1>2 DEF Details
<1> HIDE DEF timed
<1>4. ended \in Details BY <1>3 DEF Details
<1> QED BY <1>4 DEF opened, dealt, timed

(* An order that somebody trades with. *)
LEMMA TradedFollows ==
  ASSUME now \in Int, NEW d, Good(d), d.state.state \notin Terminal
  PROVE  LET open == d.open_quantity - 1
             e == [d EXCEPT !.open_quantity = open, !.filled_quantity = @ + 1,
                            !.modification_time = now, !.state = In(Outcome({}, open))]
         IN Good(e) /\ Follows(e, d) /\ e.order = d.order
<1> DEFINE open == d.open_quantity - 1
           state == In(Outcome({}, open))
           n == d.filled_quantity + 1
           e == [d EXCEPT !.open_quantity = open, !.filled_quantity = n,
                          !.modification_time = now, !.state = state]
<1>1. /\ d \in Details /\ open \in Nat /\ n \in Nat /\ n >= d.filled_quantity
  BY DEF Good
<1> HIDE DEF open, n
<1>2. /\ state \in StateDetails
      /\ state.state \notin Terminal => open > 0
  BY <1>1, OutcomeState
<1> HIDE DEF state
<1>3. /\ e \in Details /\ e.id = d.id /\ e.order = d.order /\ e.state = state
      /\ e.open_quantity = open /\ e.filled_quantity = n
      /\ e.create_time = d.create_time
  <2>1. e \in Details
    <3>1. open \in Int /\ n \in Int BY <1>1
    <3> QED BY <1>1, <1>2, <3>1, ChangedDetail
  <2>2. e.id = d.id /\ e.order = d.order /\ e.create_time = d.create_time
    BY <1>1 DEF Details
  <2>3. e.state = state /\ e.open_quantity = open /\ e.filled_quantity = n
    BY <1>1 DEF Details
  <2> QED BY <2>1, <2>2, <2>3
<1> HIDE DEF e
<1>4. Good(e)
  BY <1>1, <1>2, <1>3 DEF Good
<1>5. Follows(e, d)
  BY <1>1, <1>3 DEF Follows
<1> QED BY <1>3, <1>4, <1>5 DEF e, state, open, n

(* What is given is what was given, and what is not stays. *)
LEMMA GivenIn ==
  ASSUME NEW S, NEW new \in Optional(S), NEW old \in S
  PROVE  /\ Given(new, old) \in S
         /\ new = {} => Given(new, old) = old
         /\ new # {} => new = {Given(new, old)}
<1>1. CASE new = {}
  BY <1>1 DEF Given
<1>2. CASE new # {}
  <2>1. PICK x \in S : new = {x} BY <1>2 DEF Optional
  <2>2. (CHOOSE y \in new : TRUE) = x BY <2>1
  <2> QED BY <1>2, <2>1, <2>2 DEF Given
<1> QED BY <1>1, <1>2

(* An order that is updated and looks for a match again. *)
LEMMA RefilledFollows ==
  ASSUME now \in Int, NEW d, Good(d), d.state.state \notin Terminal,
         NEW price \in Optional(Int), NEW quantity \in Optional(Int),
         NEW until \in Optional(Int), NEW tag \in Optional(STRING),
         NEW u, u = Updated(d, price, quantity, until, tag), OnGrid(u),
         NEW filled \in 0 .. u.order.quantity - u.filled_quantity
  PROVE  /\ Good(Refilled(u, filled)) /\ Follows(Refilled(u, filled), d)
         /\ Refilled(u, filled).order = u.order
         /\ u.order \in Orders /\ u.order.price = Given(price, d.order.price)
<1> DEFINE q == Given(quantity, d.filled_quantity + d.open_quantity)
           p == Given(price, d.order.price)
           t == IF until = {} THEN d.order.valid_until ELSE until
           g == IF tag = {} THEN d.order.tag ELSE tag
           o == [d.order EXCEPT !.price = p, !.quantity = q, !.valid_until = t, !.tag = g]
<1>1. /\ d \in Details /\ d.order \in Orders /\ d.filled_quantity \in Nat
      /\ d.open_quantity \in Nat
  BY DEF Good, Details
<1>2. q \in Int
  <2>1. d.filled_quantity + d.open_quantity \in Int BY <1>1
  <2> QED BY <2>1, GivenIn
<1>3. p \in Int
  <2>1. d.order.price \in Int BY <1>1 DEF Orders
  <2> QED BY <2>1, GivenIn
<1>4. t \in Optional(Int) /\ g \in Optional(STRING)
  BY <1>1 DEF Orders
<1>5. u = [d EXCEPT !.order = o]
  BY DEF Updated
<1> HIDE DEF q, p, t, g
<1>6. /\ o \in Orders /\ o.price = p /\ o.quantity = q /\ o.area = d.order.area
      /\ o.side = d.order.side /\ o.period = d.order.period
      /\ o.execution_option = d.order.execution_option
  BY <1>1, <1>2, <1>3, <1>4 DEF Orders
<1> HIDE DEF o
<1>7. /\ u \in Details /\ u.order = o /\ u.id = d.id /\ u.create_time = d.create_time
      /\ u.filled_quantity = d.filled_quantity
  BY <1>1, <1>5, <1>6 DEF Details
<1> DEFINE open == q - d.filled_quantity - filled
           state == In(Outcome({}, open))
           n == u.filled_quantity + filled
           e == [u EXCEPT !.open_quantity = open, !.filled_quantity = n,
                          !.modification_time = now, !.state = state]
<1>8. open \in Nat /\ n \in Nat /\ n >= d.filled_quantity
  BY <1>1, <1>2, <1>6, <1>7
<1>9. e = Refilled(u, filled)
  BY <1>6, <1>7 DEF Refilled
<1> HIDE DEF open, n
<1>10. /\ state \in StateDetails
       /\ state.state \notin Terminal => open > 0
  BY <1>8, OutcomeState
<1> HIDE DEF state
<1>11. /\ e \in Details /\ e.id = u.id /\ e.order = u.order /\ e.state = state
       /\ e.open_quantity = open /\ e.filled_quantity = n
       /\ e.create_time = u.create_time
  <2>1. e \in Details
    <3>1. open \in Int /\ n \in Int BY <1>8
    <3> QED BY <1>7, <1>10, <3>1, ChangedDetail
  <2>2. e.id = u.id /\ e.order = u.order /\ e.create_time = u.create_time
    BY <1>7 DEF Details
  <2>3. e.state = state /\ e.open_quantity = open /\ e.filled_quantity = n
    BY <1>7 DEF Details
  <2> QED BY <2>1, <2>2, <2>3
<1> HIDE DEF e
<1>12. Good(e)
  BY <1>1, <1>8, <1>10, <1>11 DEF Good
<1>13. Follows(e, d)
  BY <1>1, <1>6, <1>7, <1>8, <1>11 DEF Follows
<1> QED BY <1>6, <1>7, <1>9, <1>11, <1>12, <1>13 DEF p

(* A detail as tsctl prints it. *)
LEMMA LineOfDetail ==
  ASSUME NEW d
  PROVE  Line(EncodeDetail(d)) = [id |-> d.id, states |-> {d.state.state},
                                  filled |-> {d.filled_quantity}]
BY DEF Line, EncodeDetail, EncodeState

-----------------------------------------------------------------------------
(* What every step keeps: the orders there were go on, and what was        *)
(* printed stays.                                                          *)
Kept ==
  /\ Len(orders) <= Len(orders')
  /\ \A i \in DOMAIN orders : Follows(orders'[i], orders[i])
Extended ==
  /\ Len(prints) <= Len(prints')
  /\ \A i \in DOMAIN prints : prints'[i] = prints[i]

(* An order follows itself. *)
LEMMA FollowsItself == ASSUME NEW d, Good(d) PROVE Follows(d, d)
<1>1. d.filled_quantity >= d.filled_quantity
  BY DEF Good
<1> QED BY <1>1 DEF Follows

(* Orders of which some have changed. *)
LEMMA RewrittenOrders ==
  ASSUME OrdersInv, orders' = [i \in DOMAIN orders |-> orders'[i]],
         \A i \in DOMAIN orders : Good(orders'[i]) /\ Follows(orders'[i], orders[i])
  PROVE  OrdersInv' /\ Kept /\ Len(orders') = Len(orders)
<1>1. orders \in Seq(Details) /\ DOMAIN orders = 1 .. Len(orders) /\ Len(orders) \in Nat
  BY DEF OrdersInv
<1>2. \A i \in 1 .. Len(orders) : orders'[i] \in Details
  BY <1>1 DEF Good
<1>3. orders' = [i \in 1 .. Len(orders) |-> orders'[i]]
  BY <1>1
<1>4. orders' \in Seq(Details) /\ Len(orders') = Len(orders)
  <2> DEFINE n == Len(orders)
  <2>1. n \in Nat /\ orders' = [i \in 1 .. n |-> orders'[i]]
    BY <1>1, <1>3
  <2>2. \A i \in 1 .. n : orders'[i] \in Details
    BY <1>2
  <2> HIDE DEF n
  <2>3. orders' \in [1 .. n -> Details]
    BY <2>1, <2>2
  <2>4. orders' \in Seq(Details)
    BY <2>1, <2>3, IsASeq
  <2>5. Len(orders') = n
    BY <2>1, <2>3, <2>4
  <2> QED BY <2>4, <2>5 DEF n
<1>5. DOMAIN orders' = DOMAIN orders
  BY <1>1, <1>3
<1>6. \A i \in DOMAIN orders' : orders'[i].id = i
  BY <1>5 DEF OrdersInv, Follows
<1>7. Len(orders) <= Len(orders')
  BY <1>1, <1>4
<1> QED BY <1>4, <1>5, <1>6, <1>7 DEF OrdersInv, Kept

(* They are what was typed as long as their prices are. *)
LEMMA StayAsTyped ==
  ASSUME OrdersInv, SaidInv, OrdersAsTyped, Kept, Len(orders') = Len(orders),
         OrdersInv', said' = said,
         \A i \in DOMAIN orders : orders'[i].order.price = orders[i].order.price
  PROVE  SaidInv' /\ OrdersAsTyped'
<1>1. DOMAIN orders' = DOMAIN orders
  <2>1. DOMAIN orders = 1 .. Len(orders) BY DEF OrdersInv
  <2>2. DOMAIN orders' = 1 .. Len(orders') BY DEF OrdersInv
  <2> QED BY <2>1, <2>2
<1>2. SaidInv'
  BY DEF SaidInv
<1>3. ASSUME NEW i \in DOMAIN orders, NEW t \in said[i].typed
      PROVE  LET o == orders'[i].order IN
             /\ o.area.code = t.area /\ o.side = t.side /\ o.execution_option = t.exec
             /\ o.period.duration = t.duration /\ {o.price} = said[i].price
             /\ o.period.start > said[i].at + 900 * Nanos * t.quarters
             /\ o.period.start <= said[i].at + 900 * Nanos * (t.quarters + 1)
             /\ o.period.start > orders'[i].create_time
  <2>1. Follows(orders'[i], orders[i])
    BY DEF Kept
  <2> QED BY <2>1 DEF Follows, OrdersAsTyped
<1>4. OrdersAsTyped'
  BY <1>1, <1>3 DEF OrdersAsTyped
<1> QED BY <1>2, <1>4

(* The tape is written at its end. *)
LEMMA PrintedExtends ==
  ASSUME PrintsInv, NEW order \in Orders, NEW filled, prints' = Printed(order, filled)
  PROVE  PrintsInv' /\ Extended
<1>1. prints \in Seq(Printings) /\ Len(prints) \in Nat
  BY DEF PrintsInv
<1>2. CASE prints' = prints
  BY <1>1, <1>2 DEF PrintsInv, Extended
<1>3. CASE prints' # prints
  <2> DEFINE p == [period |-> order.period, buy_area |-> order.area,
                   sell_area |-> order.area, state |-> 1]
  <2>1. prints' = Append(prints, p)
    BY <1>3 DEF Printed
  <2>2. p \in Printings
    BY DEF Printings, Orders
  <2> HIDE DEF p
  <2>3. /\ prints' \in Seq(Printings) /\ Len(prints') = Len(prints) + 1
        /\ \A i \in 1 .. Len(prints) : prints'[i] = prints[i]
    BY <1>1, <2>1, <2>2, AppendProperties
  <2>4. DOMAIN prints = 1 .. Len(prints)
    BY <1>1
  <2> QED BY <1>1, <2>3, <2>4 DEF PrintsInv, Extended
<1> QED BY <1>2, <1>3

(* An answer that holds goes on to. *)
LEMMA LinesGoOn ==
  ASSUME OrdersInv, OrdersInv', Kept, NEW line, LineHolds(line)
  PROVE  LineHolds(line)'
<1>1. line.id \in DOMAIN orders
  BY DEF LineHolds
<1>2. line.id \in DOMAIN orders'
  <2>1. DOMAIN orders = 1 .. Len(orders) /\ Len(orders) \in Nat BY DEF OrdersInv
  <2>2. DOMAIN orders' = 1 .. Len(orders') /\ Len(orders') \in Nat BY DEF OrdersInv
  <2> QED BY <1>1, <2>1, <2>2 DEF Kept
<1>3. Follows(orders'[line.id], orders[line.id])
  BY <1>1 DEF Kept
<1>4. /\ orders[line.id].filled_quantity \in Nat
      /\ orders'[line.id].filled_quantity \in Nat
  BY <1>1, <1>2 DEF OrdersInv, Good
<1>5. \A n \in line.filled : n \in Nat /\ n <= orders'[line.id].filled_quantity
  BY <1>3, <1>4 DEF LineHolds, Follows
<1>6. \A s \in line.states : s \in Terminal => orders'[line.id].state.state = s
  BY <1>3 DEF LineHolds, Follows
<1> QED BY <1>2, <1>5, <1>6 DEF LineHolds

(* What an answer says of an order as it is, holds.                        *)
LEMMA AnswersGiven ==
  ASSUME OrdersInv, RequestsInv, AnswersInv, OrdersInv', Kept, NEW c \in Client,
         NEW status, NEW details, Answered(c, status, details),
         \A d \in details : d.id \in DOMAIN orders' /\ orders'[d.id] = d
  PROVE  RequestsInv' /\ AnswersInv'
<1> DEFINE lines == {Line(w) : w \in {EncodeDetail(d) : d \in details}}
           answer == [stage |-> "served", status |-> status, lines |-> lines]
<1>1. call' = [call EXCEPT ![c] = answer]
  BY DEF Answered
<1>2. ASSUME NEW line \in lines PROVE LineHolds(line)'
  <2>1. PICK d \in details : line = Line(EncodeDetail(d))
    BY <1>2
  <2>2. d.id \in DOMAIN orders' /\ orders'[d.id] = d
    OBVIOUS
  <2>3. d.filled_quantity \in Nat
    BY <2>2 DEF OrdersInv, Good
  <2>4. line = [id |-> d.id, states |-> {d.state.state}, filled |-> {d.filled_quantity}]
    BY <2>1, LineOfDetail
  <2>5. d.filled_quantity <= d.filled_quantity
    BY <2>3
  <2> QED BY <2>2, <2>3, <2>4, <2>5 DEF LineHolds
<1> HIDE DEF lines
<1>3. call = [b \in Client |-> call[b]]
  BY DEF RequestsInv
<1>4. call' = [b \in Client |-> IF b = c THEN answer ELSE call[b]]
  <2> HIDE DEF answer
  <2> QED BY <1>1, <1>3
<1>5. answer.stage = "served" /\ answer.lines = lines
  OBVIOUS
<1> HIDE DEF answer
<1>6. RequestsInv'
  <2>1. call' = [b \in Client |-> call'[b]]
    BY <1>4
  <2>2. ASSUME NEW b \in Client
        PROVE  /\ call'[b].stage \in {"sent", "served", "done"}
               /\ call'[b].stage = "sent" => RequestStands(call'[b])
    BY <1>4, <1>5 DEF RequestsInv
  <2> QED BY <2>1, <2>2 DEF RequestsInv, RequestStands
<1>7. AnswersInv'
  <2> SUFFICES ASSUME NEW b \in Client, call'[b].stage \in {"served", "done"},
                      NEW line \in call'[b].lines
               PROVE  LineHolds(line)'
    BY DEF AnswersInv
  <2>1. CASE b = c
    BY <1>2, <1>4, <1>5, <2>1
  <2>2. CASE b # c
    <3>1. call'[b] = call[b]
      BY <1>4, <2>2
    <3>2. LineHolds(line)
      BY <3>1 DEF AnswersInv
    <3> QED BY <3>2, LinesGoOn
  <2> QED BY <2>1, <2>2
<1> QED BY <1>6, <1>7

(* While nobody is answered, answers go on to hold. *)
LEMMA AnswersGoOn ==
  ASSUME OrdersInv, RequestsInv, AnswersInv, OrdersInv', Kept, call' = call
  PROVE  RequestsInv' /\ AnswersInv'
<1>1. RequestsInv'
  BY DEF RequestsInv, RequestStands
<1>2. AnswersInv'
  <2> SUFFICES ASSUME NEW b \in Client, call[b].stage \in {"served", "done"},
                      NEW line \in call[b].lines
               PROVE  LineHolds(line)'
    BY DEF AnswersInv
  <2>1. LineHolds(line)
    BY DEF AnswersInv
  <2> QED BY <2>1, LinesGoOn
<1> QED BY <1>1, <1>2

(* While the tape is only added to, what a stream has passed on stands. *)
LEMMA StreamsGoOn ==
  ASSUME PrintsInv, PrintsInv', Extended, NEW s, StreamStands(s)
  PROVE  StreamStands(s)'
<1>1. DOMAIN prints = 1 .. Len(prints) /\ Len(prints) \in Nat /\ Len(prints') \in Nat
  BY DEF PrintsInv
<1>2. s \in Streams /\ s.from \in Nat /\ s.upto \in Nat
  BY DEF StreamStands, Streams
<1>3. s.upto <= Len(prints')
  BY <1>1, <1>2 DEF StreamStands, Extended
<1>4. \A i \in s.from + 1 .. s.upto : prints'[i] = prints[i]
  <2> SUFFICES ASSUME NEW i \in s.from + 1 .. s.upto PROVE prints'[i] = prints[i]
    OBVIOUS
  <2>1. i \in 1 .. Len(prints)
    BY <1>1, <1>2 DEF StreamStands
  <2> QED BY <1>1, <2>1 DEF Extended
<1>5. \A i \in (s.from + 1 .. s.upto) \ s.lost :
        (\A w \in s.want : OfContract(prints'[i].period, w)) => i \in ToSet(s.got)
  BY <1>4 DEF StreamStands
<1>6. \A i \in ToSet(s.got) :
        /\ i \in (s.from + 1 .. s.upto) \ s.lost
        /\ \A w \in s.want : NearContract(prints'[i].period, w)
  BY <1>4 DEF StreamStands
<1>7. \A i \in s.lost : i <= Dropped'
  <2>1. /\ Dropped \in Nat /\ Dropped' \in Nat /\ Dropped <= Dropped'
        /\ \A i \in s.lost : i \in Nat /\ i <= Dropped
    BY <1>1, <1>2, CallsAssumption DEF Extended, Dropped, StreamStands, Streams
  <2> HIDE DEF Dropped
  <2> QED BY <2>1
<1>8. s.lost \subseteq s.from + 1 .. s.upto
  BY DEF StreamStands
<1> HIDE DEF OfContract, NearContract, Dropped
<1> QED BY <1>2, <1>3, <1>5, <1>6, <1>7, <1>8 DEF StreamStands

(* So it is with all of them. *)
LEMMA TapesGoOn ==
  ASSUME PrintsInv, PrintsInv', Extended, TapesInv, tape' = tape PROVE TapesInv'
<1>1. ASSUME NEW c \in Client, tape[c].stage = "open" PROVE StreamStands(tape[c])'
  <2>1. StreamStands(tape[c])
    BY <1>1 DEF TapesInv
  <2> DEFINE s == tape[c]
  <2>2. s' = s BY DEF s
  <2> QED
    BY <2>1, StreamsGoOn
<1> QED BY <1>1 DEF TapesInv

-----------------------------------------------------------------------------
(* What one step does to orders, to what was said of them, and to the tape. *)
Moved ==
  /\ OrdersInv' /\ SaidInv' /\ OrdersAsTyped' /\ PrintsInv' /\ Kept /\ Extended

(* Nothing, for one. *)
LEMMA StandsStill ==
  ASSUME CallsInv, orders' = orders, said' = said, prints' = prints PROVE Moved
<1>1. OrdersInv' /\ SaidInv' /\ OrdersAsTyped' /\ PrintsInv'
  BY DEF CallsInv, OrdersInv, SaidInv, OrdersAsTyped, PrintsInv
<1>2. Kept
  <2>1. \A i \in DOMAIN orders : Follows(orders[i], orders[i])
    BY FollowsItself DEF CallsInv, OrdersInv
  <2>2. Len(orders) \in Nat
    BY DEF CallsInv, OrdersInv
  <2> QED BY <2>1, <2>2 DEF Kept
<1>3. Extended
  <2>1. Len(prints) \in Nat
    BY DEF CallsInv, PrintsInv
  <2> QED BY <2>1 DEF Extended
<1> QED BY <1>1, <1>2, <1>3 DEF Moved

(* A request that is refused. *)
LEMMA RefusedStep ==
  ASSUME CallsInv, NEW c \in Client, NEW status, Refused(c, status)
  PROVE  Moved /\ RequestsInv' /\ AnswersInv' /\ swept' = swept
<1>1. Moved /\ swept' = swept
  BY StandsStill DEF Refused
<1>2. RequestsInv' /\ AnswersInv'
  <2>1. Answered(c, status, {})
    BY DEF Refused
  <2>2. OrdersInv /\ RequestsInv /\ AnswersInv /\ OrdersInv' /\ Kept
    BY <1>1 DEF CallsInv, Moved
  <2> DEFINE details == {}
  <2>3. \A d \in details : d.id \in DOMAIN orders' /\ orders'[d.id] = d
    OBVIOUS
  <2>4. Answered(c, status, details)
    BY <2>1
  <2> HIDE DEF details
  <2> QED BY <2>2, <2>3, <2>4, AnswersGiven
<1> QED BY <1>1, <1>2

(* What has lapsed or ended before a cancel-all stays over. *)
LEMMA SweptGoesOn ==
  ASSUME CallsInv, Moved, swept' = swept
  PROVE  swept' \in 0 .. Len(orders') /\ SweptStayOver'
<1>1. /\ DOMAIN orders = 1 .. Len(orders) /\ Len(orders) \in Nat /\ Len(orders') \in Nat
      /\ swept \in 0 .. Len(orders)
  BY DEF CallsInv, Moved, OrdersInv
<1>2. swept' \in 0 .. Len(orders')
  BY <1>1 DEF Moved, Kept
<1>3. ASSUME NEW i \in 1 .. swept PROVE orders'[i].state.state \in Terminal
  <2>1. i \in DOMAIN orders
    BY <1>1
  <2>2. orders[i].state.state \in Terminal
    BY DEF CallsInv, SweptStayOver, IsOpen
  <2> QED BY <2>1, <2>2 DEF Moved, Kept, Follows
<1> QED BY <1>2, <1>3 DEF SweptStayOver, IsOpen

(* What the books make of a new order. *)
LEMMA CreatedIsGood ==
  ASSUME now \in Int, NEW o \in Orders, o.quantity > 0, Len(orders) \in Nat,
         NEW filled \in Fills(o.execution_option, o.quantity)
  PROVE  /\ Good(Created(o, filled)) /\ Created(o, filled).id = Len(orders) + 1
         /\ Created(o, filled).order = o /\ Created(o, filled).create_time = now
<1>1. o.quantity \in Nat
  BY DEF Orders
<1> DEFINE open == o.quantity - filled
           state == In(Outcome(o.execution_option, open))
           d == [id |-> Len(orders) + 1, order |-> o, state |-> state,
                 open_quantity |-> open, filled_quantity |-> filled,
                 create_time |-> now, modification_time |-> now]
<1>2. open \in Nat /\ filled \in Nat
  BY <1>1 DEF Fills
<1>3. d = Created(o, filled)
  BY DEF Created
<1> HIDE DEF open
<1>4. /\ state \in StateDetails
      /\ state.state \notin Terminal => open > 0
  BY <1>2, OutcomeState
<1> HIDE DEF state
<1>5. /\ d \in Details /\ d.id = Len(orders) + 1 /\ d.order = o /\ d.state = state
      /\ d.open_quantity = open /\ d.filled_quantity = filled /\ d.create_time = now
  BY <1>2, <1>4 DEF Details
<1> HIDE DEF d
<1>6. Good(d)
  BY <1>2, <1>4, <1>5 DEF Good
<1> QED BY <1>3, <1>5, <1>6

(* The order an accepted request creates is in its type, and is what was   *)
(* typed if its client has a command line.                                 *)
LEMMA DecodedRequest ==
  ASSUME CallsInv, NEW c \in Client, call[c].stage = "sent",
         call[c].request.kind = "create",
         NEW o \in UNION {DecodeOrder(w) : w \in call[c].request.order}
  PROVE  /\ o \in Orders /\ Said(c, o) \in Sayings
         /\ \A t \in call[c].typed :
              IsAsTyped(o, t, call[c].at) /\ {o.price} = Said(c, o).price
<1> DEFINE r == call[c].request
           k == call[c]
<1>1. RequestStands(k)
  BY DEF CallsInv, RequestsInv
<1>2. r \in Creates
  <2>1. r \in WireRequests BY <1>1 DEF RequestStands
  <2>2. r.kind = "create" OBVIOUS
  <2> HIDE DEF r
  <2> QED BY <2>1, <2>2 DEF WireRequests, Updates, Bare
<1>3. o \in Orders
  <2>1. PICK w \in r.order : o \in DecodeOrder(w)
    OBVIOUS
  <2>2. w \in WireOrders
    BY <1>2 DEF Creates, Optional
  <2> QED BY <2>1, <2>2, DecodedOrder
<1>4. k.at \in Int
  BY <1>1 DEF RequestStands
<1>5. ASSUME NEW t \in k.typed
      PROVE  /\ t \in Places /\ k.typed = {t}
             /\ IsAsTyped(o, t, k.at) /\ o.price = t.price
  <2>1. t \in Commands /\ Sound(t) /\ k.typed = {t} /\ r = RequestOf(t, k.at)
    BY <1>1 DEF RequestStands
  <2>2. t \in Places /\ r.order = {PlacedOrder(t, k.at)}
    BY <2>1, RequestKinds
  <2>3. PICK p \in Orders : /\ DecodeOrder(PlacedOrder(t, k.at)) = {p}
                            /\ IsAsTyped(p, t, k.at) /\ p.price = t.price
    BY <1>4, <2>1, <2>2, PlacedDecodes
  <2>4. o = p
    <3>1. o \in UNION {DecodeOrder(w) : w \in r.order}
      OBVIOUS
    <3> HIDE DEF r
    <3> QED BY <2>2, <2>3, <3>1
  <2> QED BY <2>1, <2>2, <2>3, <2>4
<1>6. Said(c, o) = [typed |-> k.typed, at |-> k.at, currency |-> o.currency,
                    price |-> IF k.typed = {} THEN {o.price} ELSE {t.price : t \in k.typed}]
  BY DEF Said
<1> DEFINE price == IF k.typed = {} THEN {o.price} ELSE {t.price : t \in k.typed}
<1>7. price = {o.price}
  <2>1. CASE k.typed = {}
    BY <2>1
  <2>2. CASE k.typed # {}
    <3>1. PICK t \in k.typed : TRUE
      BY <2>2
    <3>2. k.typed = {t} /\ o.price = t.price
      BY <1>5, <3>1
    <3> HIDE DEF k
    <3> QED BY <2>2, <3>2
  <2> QED BY <2>1, <2>2
<1> HIDE DEF price
<1>8. k.typed \subseteq Commands
  BY <1>1 DEF RequestStands
<1>9. o.price \in Int /\ o.currency \in Currencies
  BY <1>3 DEF Orders
<1>10. Said(c, o) \in Sayings /\ Said(c, o).price = {o.price}
  <2>1. Said(c, o) = [typed |-> k.typed, at |-> k.at, currency |-> o.currency,
                      price |-> price]
    BY <1>6 DEF price
  <2> HIDE DEF k
  <2> QED BY <1>4, <1>7, <1>8, <1>9, <2>1 DEF Sayings
<1> QED BY <1>3, <1>5, <1>10

(* A new order, or its refusal. *)
LEMMA CreateStep ==
  ASSUME CallsInv, NEW c \in Client, call[c].stage = "sent", CreateGridpoolOrder(c)
  PROVE  Moved /\ RequestsInv' /\ AnswersInv' /\ swept' = swept
<1> DEFINE r == call[c].request
           decoded == UNION {DecodeOrder(w) : w \in r.order}
<1>1. r.kind = "create"
  BY DEF CreateGridpoolOrder
<1>2. CASE \E status \in {"invalid_argument", "not_found", "failed_precondition"} :
             Refused(c, status)
  BY <1>2, RefusedStep
<1>3. ASSUME NEW o \in decoded, Admissible(o, Rules, now), Len(orders) < MaxOrders,
             NEW filled \in Fills(o.execution_option, o.quantity),
             orders' = Append(orders, Created(o, filled)), prints' = Printed(o, filled),
             said' = Append(said, Said(c, o)), Answered(c, "ok", {Last(orders')}),
             swept' = swept
      PROVE  Moved /\ RequestsInv' /\ AnswersInv'
  <2> DEFINE d == Created(o, filled)
             n == Len(orders)
  <2>1. /\ orders \in Seq(Details) /\ n \in Nat /\ DOMAIN orders = 1 .. n
        /\ said \in Seq(Sayings) /\ Len(said) = n
    BY DEF CallsInv, OrdersInv, SaidInv
  <2>2. /\ o \in Orders /\ Said(c, o) \in Sayings
        /\ \A t \in call[c].typed :
             IsAsTyped(o, t, call[c].at) /\ {o.price} = Said(c, o).price
    BY <1>1, DecodedRequest
  <2>3. o.quantity > 0 /\ o.period.start > now
    BY <1>3 DEF Admissible, Valid
  <2>4. now \in Int
    BY CallsAssumption DEF CallsInv
  <2>5. Good(d) /\ d.id = n + 1 /\ d.order = o /\ d.create_time = now
    BY <1>3, <2>1, <2>2, <2>3, <2>4, CreatedIsGood
  <2> HIDE DEF d
  <2>6. /\ orders' \in Seq(Details) /\ Len(orders') = n + 1
        /\ \A i \in 1 .. n : orders'[i] = orders[i]
        /\ orders'[n + 1] = d
    <3>1. orders' = Append(orders, d) BY <1>3 DEF d
    <3>2. d \in Details BY <2>5 DEF Good
    <3> QED BY <2>1, <3>1, <3>2, AppendProperties
  <2>7. /\ said' \in Seq(Sayings) /\ Len(said') = n + 1
        /\ \A i \in 1 .. n : said'[i] = said[i]
        /\ said'[n + 1] = Said(c, o)
    <3> DEFINE w == Said(c, o)
    <3>1. said' = Append(said, w) /\ w \in Sayings BY <1>3, <2>2
    <3> HIDE DEF w
    <3>2. /\ Append(said, w) \in Seq(Sayings) /\ Len(Append(said, w)) = Len(said) + 1
          /\ \A i \in 1 .. Len(said) : Append(said, w)[i] = said[i]
          /\ Append(said, w)[Len(said) + 1] = w
      BY <2>1, <3>1, AppendProperties
    <3> QED BY <2>1, <3>1, <3>2 DEF w
  <2> HIDE DEF n
  <2>8. DOMAIN orders' = 1 .. n + 1
    BY <2>6
  <2>9. OrdersInv'
    <3>1. ASSUME NEW i \in 1 .. n + 1 PROVE orders'[i].id = i /\ Good(orders'[i])
      <4>1. CASE i = n + 1
        BY <2>5, <2>6, <4>1
      <4>2. CASE i \in 1 .. n
        BY <2>1, <2>6, <4>2 DEF CallsInv, OrdersInv
      <4> QED BY <2>1, <4>1, <4>2
    <3>2. n + 1 <= MaxOrders
      BY <1>3, <2>1, CallsAssumption DEF n
    <3> QED BY <2>6, <2>8, <3>1, <3>2 DEF OrdersInv, Good
  <2>10. SaidInv'
    BY <2>6, <2>7 DEF SaidInv
  <2>11. Kept
    <3>1. ASSUME NEW i \in DOMAIN orders PROVE Follows(orders'[i], orders[i])
      BY <2>1, <2>6, FollowsItself DEF CallsInv, OrdersInv
    <3> QED BY <2>1, <2>6, <3>1 DEF Kept, n
  <2>12. OrdersAsTyped'
    <3>1. ASSUME NEW i \in 1 .. n + 1, NEW t \in said'[i].typed
          PROVE  LET p == orders'[i].order IN
                 /\ p.area.code = t.area /\ p.side = t.side
                 /\ p.execution_option = t.exec /\ p.period.duration = t.duration
                 /\ {p.price} = said'[i].price
                 /\ p.period.start > said'[i].at + 900 * Nanos * t.quarters
                 /\ p.period.start <= said'[i].at + 900 * Nanos * (t.quarters + 1)
                 /\ p.period.start > orders'[i].create_time
      <4>1. CASE i = n + 1
        <5>1. orders'[i].order = o /\ orders'[i].create_time = now
          BY <2>5, <2>6, <4>1
        <5>2. said'[i] = Said(c, o)
          BY <2>7, <4>1
        <5>3. said'[i].typed = call[c].typed /\ said'[i].at = call[c].at
          BY <5>2 DEF Said
        <5>4. IsAsTyped(o, t, call[c].at) /\ {o.price} = said'[i].price
          BY <2>2, <5>2, <5>3
        <5> QED BY <2>3, <5>1, <5>3, <5>4 DEF IsAsTyped
      <4>2. CASE i \in 1 .. n
        <5>1. orders'[i] = orders[i] /\ said'[i] = said[i] /\ i \in DOMAIN orders
          BY <2>1, <2>6, <2>7, <4>2
        <5> QED BY <5>1 DEF CallsInv, OrdersAsTyped
      <4> QED BY <2>1, <4>1, <4>2
    <3> QED BY <2>8, <3>1 DEF OrdersAsTyped
  <2>13. PrintsInv' /\ Extended
    BY <1>3, <2>2, PrintedExtends DEF CallsInv
  <2>14. Moved
    BY <2>9, <2>10, <2>11, <2>12, <2>13 DEF Moved
  <2>15. RequestsInv' /\ AnswersInv'
    <3>1. Last(orders') = d
      BY <2>1, <2>6 DEF Last
    <3>2. \A e \in {Last(orders')} : e.id \in DOMAIN orders' /\ orders'[e.id] = e
      BY <2>1, <2>5, <2>6, <2>8, <3>1
    <3> DEFINE details == {Last(orders')}
    <3>3. Answered(c, "ok", details)
      BY <1>3
    <3>4. \A e \in details : e.id \in DOMAIN orders' /\ orders'[e.id] = e
      BY <3>2
    <3> HIDE DEF details
    <3> QED BY <2>9, <2>11, <3>3, <3>4, AnswersGiven DEF CallsInv
  <2> QED BY <2>14, <2>15
<1>4. \/ \E status \in {"invalid_argument", "not_found", "failed_precondition"} :
           Refused(c, status)
      \/ \E o \in decoded :
           /\ Admissible(o, Rules, now) /\ Len(orders) < MaxOrders
           /\ \E filled \in Fills(o.execution_option, o.quantity) :
                orders' = Append(orders, Created(o, filled)) /\ prints' = Printed(o, filled)
           /\ said' = Append(said, Said(c, o)) /\ Answered(c, "ok", {Last(orders')})
           /\ swept' = swept
  <2> HIDE DEF decoded
  <2>1. CreateGridpoolOrder(c) =>
          \/ \E status \in {"invalid_argument", "not_found", "failed_precondition"} :
               Refused(c, status)
          \/ \E o \in decoded :
               /\ Admissible(o, Rules, now) /\ Len(orders) < MaxOrders
               /\ \E filled \in Fills(o.execution_option, o.quantity) :
                    orders' = Append(orders, Created(o, filled))
                      /\ prints' = Printed(o, filled)
               /\ said' = Append(said, Said(c, o)) /\ Answered(c, "ok", {Last(orders')})
               /\ swept' = swept
    BY Zenon DEF CreateGridpoolOrder, RefusedByBooks, decoded
  <2> QED BY <2>1
<1>5. CASE \E o \in decoded :
             /\ Admissible(o, Rules, now) /\ Len(orders) < MaxOrders
             /\ \E filled \in Fills(o.execution_option, o.quantity) :
                  orders' = Append(orders, Created(o, filled)) /\ prints' = Printed(o, filled)
             /\ said' = Append(said, Said(c, o)) /\ Answered(c, "ok", {Last(orders')})
             /\ swept' = swept
  <2> HIDE DEF decoded
  <2>1. Moved /\ RequestsInv' /\ AnswersInv'
    BY <1>3, <1>5
  <2> QED BY <1>5, <2>1
<1> QED BY <1>2, <1>4, <1>5

(* The price of a modify command comes off the wire as it was typed. *)
LEMMA TypedPriceSurvives ==
  ASSUME NEW f \in Optional(Int)
  PROVE  Amounts(UNION {DecodePrice(p) : p \in Prices(f)}) = f
<1>1. CASE f = {}
  BY <1>1 DEF Prices, Amounts
<1>2. CASE f # {}
  <2>1. PICK n \in Int : f = {n}
    BY <1>2, SMTT(20), ZenonT(20) DEF Optional
  <2> DEFINE w == EncodePrice(n, 1)
             p == [amount |-> n, currency |-> 1]
  <2>2. Prices(f) = {w}
    BY <2>1 DEF Prices
  <2>3. DecodePrice(w) = {p}
    BY PriceSurvives DEF Currencies
  <2>4. Amounts({p}) = {n}
    BY PartsOfPrice
  <2> HIDE DEF w, p
  <2>5. UNION {DecodePrice(x) : x \in Prices(f)} = {p}
    BY <2>2, <2>3
  <2> QED BY <2>1, <2>4, <2>5
<1> QED BY <1>1, <1>2

(* What an owner says again is what the order's price becomes. *)
LEMMA SaidAgainHolds ==
  ASSUME CallsInv, NEW c \in Client, call[c].stage = "sent",
         call[c].request.kind = "update", NEW old \in Sayings, NEW price \in Int,
         NEW prices, prices = UNION {DecodePrice(p) : p \in call[c].request.price}
  PROVE  LET new == SaidAgain(c, old, prices) IN
         /\ prices \in Optional(KnownPrices) /\ Amounts(prices) \in Optional(Int)
         /\ new \in Sayings /\ new.typed = old.typed /\ new.at = old.at
         /\ old.price = {price} => new.price = {Given(Amounts(prices), price)}
<1> DEFINE k == call[c]
           r == k.request
<1>1. RequestStands(k)
  BY DEF CallsInv, RequestsInv
<1>2. r \in Updates
  <2>1. r \in WireRequests BY <1>1 DEF RequestStands
  <2>2. r.kind = "update" OBVIOUS
  <2> HIDE DEF r
  <2> QED BY <2>1, <2>2 DEF WireRequests, Creates, Bare
<1>3. /\ prices \in Optional(KnownPrices) /\ Amounts(prices) \in Optional(Int)
      /\ CurrenciesOf(prices) \in Optional(Currencies)
      /\ prices = {} <=> Amounts(prices) = {}
  <2>1. r.price \in Optional(WirePrices) BY <1>2 DEF Updates
  <2> DEFINE f == r.price
  <2>2. f \in Optional(WirePrices) /\ prices = UNION {DecodePrice(p) : p \in f}
    BY <2>1
  <2> HIDE DEF f
  <2> QED BY <2>2, DecodedPrices
<1> DEFINE said_price == IF prices = {} THEN old.price
                         ELSE IF k.typed = {} THEN Amounts(prices)
                         ELSE UNION {t.price : t \in k.typed}
           currency == Given(CurrenciesOf(prices), old.currency)
           new == SaidAgain(c, old, prices)
<1>4. k.typed # {} => UNION {t.price : t \in k.typed} = Amounts(prices)
  <2> SUFFICES ASSUME k.typed # {}
               PROVE  UNION {t.price : t \in k.typed} = Amounts(prices)
    OBVIOUS
  <2>1. PICK t \in Commands : k.typed = {t} /\ r = RequestOf(t, k.at)
    BY <1>1 DEF RequestStands
  <2>2. t \in Modifies /\ r.price = Prices(t.price)
    BY <2>1, RequestKinds
  <2>3. t.price \in Optional(Int)
    BY <2>2 DEF Modifies
  <2>4. Amounts(prices) = t.price
    BY <2>2, <2>3, TypedPriceSurvives
  <2> HIDE DEF k
  <2> QED BY <2>1, <2>4
<1>5. said_price = IF prices = {} THEN old.price ELSE Amounts(prices)
  BY <1>4
<1>6. new = [old EXCEPT !.price = said_price, !.currency = currency]
  BY DEF SaidAgain
<1>7. currency \in Currencies
  <2>1. old.currency \in Currencies BY DEF Sayings
  <2> QED BY <1>3, <2>1, GivenIn
<1> HIDE DEF said_price, currency, new
<1>8. said_price \in SUBSET Int
  BY <1>3, <1>5 DEF Sayings, Optional
<1>9. /\ new \in Sayings /\ new.typed = old.typed /\ new.at = old.at
      /\ new.price = said_price
  BY <1>6, <1>7, <1>8 DEF Sayings
<1>10. old.price = {price} => new.price = {Given(Amounts(prices), price)}
  <2> SUFFICES ASSUME old.price = {price}
               PROVE  new.price = {Given(Amounts(prices), price)}
    OBVIOUS
  <2>1. CASE prices = {}
    <3>1. Amounts(prices) = {} BY <1>3, <2>1
    <3>2. Given(Amounts(prices), price) = price BY <1>3, <3>1, GivenIn
    <3> QED BY <1>5, <1>9, <2>1, <3>2
  <2>2. CASE prices # {}
    <3>1. Amounts(prices) # {} BY <1>3, <2>2
    <3>2. Amounts(prices) = {Given(Amounts(prices), price)} BY <1>3, <3>1, GivenIn
    <3> QED BY <1>5, <1>9, <2>2, <3>2
  <2> QED BY <2>1, <2>2
<1> QED BY <1>3, <1>9, <1>10 DEF new

(* A modified order, or the refusal to modify it. *)
LEMMA UpdateStep ==
  ASSUME CallsInv, NEW c \in Client, call[c].stage = "sent", UpdateGridpoolOrder(c)
  PROVE  Moved /\ RequestsInv' /\ AnswersInv' /\ swept' = swept
<1> DEFINE r == call[c].request
           prices == UNION {DecodePrice(p) : p \in r.price}
           quantity == UNION r.quantity
           until == UNION {DecodeTimestamp(ts) : ts \in r.valid_until}
           d == Updated(orders[r.id], Amounts(prices), quantity, until, r.tag)
           Done == /\ ~Missing(r) /\ ~Over(r) /\ OnGrid(d)
                   /\ \E filled \in 0 .. d.order.quantity - d.filled_quantity :
                        /\ orders' = [orders EXCEPT ![r.id] = Refilled(d, filled)]
                        /\ prints' = Printed(d.order, filled)
                   /\ said' = [said EXCEPT ![r.id] = SaidAgain(c, @, prices)]
                   /\ Answered(c, "ok", {orders'[r.id]})
                   /\ swept' = swept
<1>1. r.kind = "update"
  BY DEF UpdateGridpoolOrder
<1>2. \/ \E status \in {"invalid_argument", "not_found", "failed_precondition"} :
           Refused(c, status)
      \/ Done
  BY Zenon DEF UpdateGridpoolOrder
<1>3. CASE \E status \in {"invalid_argument", "not_found", "failed_precondition"} :
             Refused(c, status)
  BY <1>3, RefusedStep
<1>4. CASE Done
  <2>1. PICK filled \in 0 .. d.order.quantity - d.filled_quantity :
          /\ orders' = [orders EXCEPT ![r.id] = Refilled(d, filled)]
          /\ prints' = Printed(d.order, filled)
    BY <1>4
  <2> DEFINE n == r.id
             old == orders[n]
             e == Refilled(d, filled)
             new == SaidAgain(c, said[n], prices)
  <2>2. /\ OnGrid(d) /\ Answered(c, "ok", {orders'[n]}) /\ swept' = swept
        /\ said' = [said EXCEPT ![n] = new]
        /\ orders' = [orders EXCEPT ![n] = e]
    BY <1>4, <2>1
  <2>3. n \in DOMAIN orders /\ old.state.state \notin Terminal
    BY <1>4 DEF Missing, Over, IsOpen
  <2>4. r \in Updates
    <3>1. r \in WireRequests BY DEF CallsInv, RequestsInv, RequestStands
    <3> HIDE DEF r
    <3> QED BY <1>1, <3>1 DEF WireRequests, Creates, Bare
  <2>5. /\ Good(old) /\ old.id = n /\ orders \in Seq(Details)
        /\ said \in Seq(Sayings) /\ Len(said) = Len(orders)
        /\ DOMAIN orders = 1 .. Len(orders)
    BY <2>3 DEF CallsInv, OrdersInv, SaidInv
  <2>6. said[n] \in Sayings /\ DOMAIN said = DOMAIN orders
    <3>1. DOMAIN said = 1 .. Len(said)
      BY <2>5, LenProperties
    <3>2. DOMAIN said = DOMAIN orders
      BY <2>5, <3>1
    <3> QED BY <2>3, <2>5, <3>1, <3>2, ElementOfSeq
  <2>7. old.order.price \in Int
    BY <2>5 DEF Good, Details, Orders
  <2>8. /\ Amounts(prices) \in Optional(Int)
        /\ new \in Sayings /\ new.typed = said[n].typed /\ new.at = said[n].at
        /\ said[n].price = {old.order.price}
             => new.price = {Given(Amounts(prices), old.order.price)}
    <3> DEFINE w == said[n]
               p == old.order.price
    <3>1. w \in Sayings /\ p \in Int BY <2>6, <2>7
    <3> HIDE DEF w, p
    <3>2. /\ Amounts(prices) \in Optional(Int)
          /\ SaidAgain(c, w, prices) \in Sayings
          /\ SaidAgain(c, w, prices).typed = w.typed /\ SaidAgain(c, w, prices).at = w.at
          /\ w.price = {p} => SaidAgain(c, w, prices).price = {Given(Amounts(prices), p)}
      BY <1>1, <3>1, SaidAgainHolds
    <3> QED BY <3>2 DEF w, p
  <2>9. quantity \in Optional(Int)
    <3>1. r.quantity \in Optional(Optional(Int)) BY <2>4 DEF Updates
    <3> HIDE DEF r
    <3> QED BY <3>1 DEF Optional
  <2>10. until \in Optional(Int)
    <3>1. r.valid_until \in Optional(WireTimes) BY <2>4 DEF Updates
    <3> HIDE DEF r
    <3> QED BY <3>1, DecodedInstants
  <2>11. r.tag \in Optional(STRING)
    BY <2>4 DEF Updates
  <2>12. now \in Int
    BY CallsAssumption DEF CallsInv
  <2> DEFINE p == Amounts(prices)
  <2> HIDE DEF r, prices, quantity, until
  <2>13. /\ Good(e) /\ Follows(e, old) /\ e.order = d.order /\ d.order \in Orders
         /\ e.order.price = Given(p, old.order.price)
    <3>1. d = Updated(old, p, quantity, until, r.tag)
      OBVIOUS
    <3>2. p \in Optional(Int) BY <2>8
    <3> HIDE DEF old, p, d
    <3> QED BY <2>2, <2>3, <2>5, <2>9, <2>10, <2>11, <2>12, <3>1, <3>2, RefilledFollows
  <2> HIDE DEF d, e, new, n
  <2>14. \A i \in DOMAIN orders : orders'[i] = IF i = n THEN e ELSE orders[i]
    BY <2>2, <2>5
  <2>15. \A i \in DOMAIN orders : Good(orders'[i]) /\ Follows(orders'[i], orders[i])
    BY <2>13, <2>14, FollowsItself DEF CallsInv, OrdersInv
  <2>16. orders' = [i \in DOMAIN orders |-> orders'[i]]
    BY <2>2, <2>5
  <2>17. OrdersInv' /\ Kept /\ Len(orders') = Len(orders)
    BY <2>15, <2>16, RewrittenOrders DEF CallsInv
  <2>18. /\ said' \in Seq(Sayings) /\ Len(said') = Len(said)
         /\ \A i \in DOMAIN orders : said'[i] = IF i = n THEN new ELSE said[i]
    <3>1. n \in 1 .. Len(said) BY <2>3, <2>5
    <3>2. [said EXCEPT ![n] = new] \in Seq(Sayings)
      BY <2>5, <2>8, <3>1, ExceptSeq
    <3>3. Len([said EXCEPT ![n] = new]) = Len(said)
      BY <2>5, <2>8, <3>1, ExceptSeq
    <3>4. \A i \in DOMAIN orders : said'[i] = IF i = n THEN new ELSE said[i]
      BY <2>2, <2>6
    <3> QED BY <2>2, <3>2, <3>3, <3>4
  <2>19. SaidInv'
    BY <2>5, <2>17, <2>18 DEF SaidInv
  <2>20. OrdersAsTyped'
    <3>1. DOMAIN orders' = DOMAIN orders
      BY <2>16
    <3>2. ASSUME NEW i \in DOMAIN orders, NEW t \in said'[i].typed
          PROVE  LET o == orders'[i].order IN
                 /\ o.area.code = t.area /\ o.side = t.side
                 /\ o.execution_option = t.exec /\ o.period.duration = t.duration
                 /\ {o.price} = said'[i].price
                 /\ o.period.start > said'[i].at + 900 * Nanos * t.quarters
                 /\ o.period.start <= said'[i].at + 900 * Nanos * (t.quarters + 1)
                 /\ o.period.start > orders'[i].create_time
      <4>1. /\ t \in said[i].typed /\ said'[i].at = said[i].at
        BY <2>8, <2>18, <3>2
      <4>2. Follows(orders'[i], orders[i])
        BY <2>15
      <4>3. {orders[i].order.price} = said[i].price
        BY <4>1 DEF CallsInv, OrdersAsTyped
      <4>4. {orders'[i].order.price} = said'[i].price
        BY <2>8, <2>13, <2>14, <2>18, <4>3
      <4> QED BY <4>1, <4>2, <4>4 DEF CallsInv, OrdersAsTyped, Follows
    <3> QED BY <3>1, <3>2 DEF OrdersAsTyped
  <2>21. PrintsInv' /\ Extended
    <3> DEFINE o == d.order
    <3>1. prints' = Printed(o, filled) /\ o \in Orders
      BY <2>1, <2>13 DEF d
    <3> HIDE DEF o
    <3> QED BY <3>1, PrintedExtends DEF CallsInv
  <2>22. RequestsInv' /\ AnswersInv'
    <3> DEFINE details == {orders'[n]}
    <3>1. \A x \in details : x.id \in DOMAIN orders' /\ orders'[x.id] = x
      <4>1. orders'[n].id = n BY <2>3, <2>5, <2>15 DEF Follows
      <4> QED BY <2>3, <2>16, <4>1
    <3>2. Answered(c, "ok", details)
      BY <2>2
    <3> HIDE DEF details
    <3> QED BY <2>17, <3>1, <3>2, AnswersGiven DEF CallsInv
  <2> QED BY <2>2, <2>17, <2>19, <2>20, <2>21, <2>22 DEF Moved
<1> QED BY <1>2, <1>3, <1>4

(* Orders that end: those of a set. *)
LEMMA EndStep ==
  ASSUME CallsInv, NEW over \in Terminal, NEW S, \A i \in S : i \in DOMAIN orders /\ IsOpen(i),
         orders' = [i \in DOMAIN orders |->
                      IF i \in S THEN Ended(orders[i], over) ELSE orders[i]],
         said' = said, prints' = prints
  PROVE  Moved /\ Len(orders') = Len(orders)
<1>1. now \in Int
  BY CallsAssumption DEF CallsInv
<1>2. ASSUME NEW i \in DOMAIN orders
      PROVE  /\ Good(orders'[i]) /\ Follows(orders'[i], orders[i])
             /\ orders'[i].order = orders[i].order
  <2>1. Good(orders[i])
    BY DEF CallsInv, OrdersInv
  <2>2. CASE i \in S
    <3>1. orders'[i] = Ended(orders[i], over)
      BY <2>2
    <3>2. orders[i].state.state \notin Terminal
      BY <2>2 DEF IsOpen
    <3> DEFINE d == orders[i]
    <3>3. Good(d) /\ d.state.state \notin Terminal
      BY <2>1, <3>2
    <3> HIDE DEF d
    <3>4. Good(Ended(d, over)) /\ Follows(Ended(d, over), d) /\ Ended(d, over).order = d.order
      BY <1>1, <3>3, EndedFollows
    <3> QED BY <3>1, <3>4 DEF d
  <2>3. CASE i \notin S
    BY <2>1, <2>3, FollowsItself
  <2> QED BY <2>2, <2>3
<1>3. orders' = [i \in DOMAIN orders |-> orders'[i]]
  OBVIOUS
<1>4. OrdersInv' /\ Kept /\ Len(orders') = Len(orders)
  BY <1>2, <1>3, RewrittenOrders DEF CallsInv
<1>5. SaidInv' /\ OrdersAsTyped'
  BY <1>2, <1>4, StayAsTyped DEF CallsInv
<1>6. PrintsInv' /\ Extended
  <2>1. Len(prints) \in Nat BY DEF CallsInv, PrintsInv
  <2> QED BY <2>1 DEF CallsInv, PrintsInv, Extended
<1> QED BY <1>4, <1>5, <1>6 DEF Moved

(* One canceled order, or the refusal to cancel it. *)
LEMMA CancelStep ==
  ASSUME CallsInv, NEW c \in Client, CancelGridpoolOrder(c)
  PROVE  Moved /\ RequestsInv' /\ AnswersInv' /\ swept' = swept
<1> DEFINE r == call[c].request
           Done == /\ ~Missing(r) /\ ~Over(r)
                   /\ orders' = [orders EXCEPT ![r.id] = Ended(@, Canceled)]
                   /\ Answered(c, "ok", {orders'[r.id]})
                   /\ UNCHANGED <<said, swept, prints>>
<1>1. Done \/ \E status \in {"not_found", "failed_precondition"} : Refused(c, status)
  BY Zenon DEF CancelGridpoolOrder
<1>2. CASE \E status \in {"not_found", "failed_precondition"} : Refused(c, status)
  BY <1>2, RefusedStep
<1>3. CASE Done
  <2> DEFINE n == r.id
             S == {n}
  <2>1. n \in DOMAIN orders /\ IsOpen(n)
    BY <1>3 DEF Missing, Over
  <2>2. /\ orders' = [orders EXCEPT ![n] = Ended(orders[n], Canceled)]
        /\ Answered(c, "ok", {orders'[n]})
        /\ said' = said /\ prints' = prints /\ swept' = swept
    BY <1>3
  <2> HIDE DEF n, r
  <2>3. /\ orders = [i \in DOMAIN orders |-> orders[i]]
        /\ \A i \in DOMAIN orders : orders[i].id = i
    BY DEF CallsInv, OrdersInv
  <2>4. orders' = [i \in DOMAIN orders |->
                     IF i \in S THEN Ended(orders[i], Canceled) ELSE orders[i]]
    BY <2>2, <2>3
  <2>5. \A i \in S : i \in DOMAIN orders /\ IsOpen(i)
    BY <2>1
  <2>6. Canceled \in Terminal
    BY DEF Terminal
  <2> HIDE DEF S
  <2>7. Moved
    BY <2>2, <2>4, <2>5, <2>6, EndStep
  <2>8. RequestsInv' /\ AnswersInv'
    <3> DEFINE details == {orders'[n]}
    <3>1. \A x \in details : x.id \in DOMAIN orders' /\ orders'[x.id] = x
      <4>1. n \in DOMAIN orders' BY <2>1, <2>4
      <4>2. orders'[n].id = n BY <4>1, <2>7 DEF Moved, OrdersInv
      <4> QED BY <4>1, <4>2
    <3>2. Answered(c, "ok", details)
      BY <2>2
    <3> HIDE DEF details
    <3> QED BY <2>7, <3>1, <3>2, AnswersGiven DEF CallsInv, Moved
  <2> QED BY <2>2, <2>7, <2>8
<1> QED BY <1>1, <1>2, <1>3

(* All of them: nothing is left open of what there is. *)
LEMMA CancelAllStep ==
  ASSUME CallsInv, NEW c \in Client, CancelAllGridpoolOrders(c)
  PROVE  /\ Moved /\ RequestsInv' /\ AnswersInv'
         /\ swept' \in 0 .. Len(orders') /\ SweptStayOver'
<1> DEFINE r == call[c].request
<1>1. CASE Refused(c, "not_found")
  <2>1. Moved /\ RequestsInv' /\ AnswersInv' /\ swept' = swept
    BY <1>1, RefusedStep
  <2> QED BY <2>1, SweptGoesOn
<1>2. CASE /\ orders' = CanceledAll /\ swept' = Len(orders)
           /\ Answered(c, "ok", {}) /\ said' = said /\ prints' = prints
  <2> DEFINE S == {i \in DOMAIN orders : IsOpen(i)}
  <2>1. orders' = [i \in DOMAIN orders |->
                     IF i \in S THEN Ended(orders[i], Canceled) ELSE orders[i]]
    BY <1>2 DEF CanceledAll
  <2>2. \A i \in S : i \in DOMAIN orders /\ IsOpen(i)
    OBVIOUS
  <2>3. \A i \in DOMAIN orders : i \notin S => ~IsOpen(i)
    OBVIOUS
  <2>4. Canceled \in Terminal
    BY DEF Terminal
  <2> HIDE DEF S
  <2>5. Moved /\ Len(orders') = Len(orders)
    BY <1>2, <2>1, <2>2, <2>4, EndStep
  <2>6. Len(orders) \in Nat /\ DOMAIN orders = 1 .. Len(orders)
    BY DEF CallsInv, OrdersInv
  <2>7. ASSUME NEW i \in DOMAIN orders PROVE orders'[i].state.state \in Terminal
    <3>1. CASE i \in S
      <4>1. orders'[i] = Ended(orders[i], Canceled)
        BY <2>1, <3>1
      <4>2. Ended(orders[i], Canceled).state.state = Canceled
        <5> DEFINE d == orders[i]
        <5>1. Good(d) /\ d.state.state \notin Terminal /\ now \in Int
          BY <2>2, <3>1, CallsAssumption DEF CallsInv, OrdersInv, IsOpen
        <5> HIDE DEF d
        <5>2. Ended(d, Canceled).state.state = Canceled
          BY <2>4, <5>1, EndedFollows
        <5> QED BY <5>2 DEF d
      <4> QED BY <2>4, <4>1, <4>2
    <3>2. CASE i \notin S
      BY <2>1, <2>3, <3>2 DEF IsOpen
    <3> QED BY <3>1, <3>2
  <2>8. swept' \in 0 .. Len(orders') /\ SweptStayOver'
    BY <1>2, <2>5, <2>6, <2>7 DEF SweptStayOver, IsOpen
  <2>9. RequestsInv' /\ AnswersInv'
    <3> DEFINE details == {}
    <3>1. \A x \in details : x.id \in DOMAIN orders' /\ orders'[x.id] = x
      OBVIOUS
    <3>2. Answered(c, "ok", details)
      BY <1>2
    <3> HIDE DEF details
    <3> QED BY <2>5, <3>1, <3>2, AnswersGiven DEF CallsInv, Moved
  <2> QED BY <2>5, <2>8, <2>9
<1> QED BY <1>1, <1>2 DEF CancelAllGridpoolOrders

(* An order looked at, if it is there. *)
LEMMA GetStep ==
  ASSUME CallsInv, NEW c \in Client, GetGridpoolOrder(c)
  PROVE  Moved /\ RequestsInv' /\ AnswersInv' /\ swept' = swept
<1> DEFINE r == call[c].request
<1>1. CASE Refused(c, "not_found")
  BY <1>1, RefusedStep
<1>2. CASE /\ ~Missing(r) /\ Answered(c, "ok", {orders[r.id]})
           /\ UNCHANGED <<orders, said, swept, prints>>
  <2>1. Moved
    BY <1>2, StandsStill
  <2> DEFINE n == r.id
             details == {orders[n]}
  <2>2. n \in DOMAIN orders /\ orders' = orders /\ Answered(c, "ok", details)
    BY <1>2 DEF Missing
  <2>3. orders[n].id = n
    BY <2>2 DEF CallsInv, OrdersInv
  <2>4. \A x \in details : x.id \in DOMAIN orders' /\ orders'[x.id] = x
    BY <2>2, <2>3
  <2> HIDE DEF details
  <2>5. RequestsInv' /\ AnswersInv'
    BY <2>1, <2>2, <2>4, AnswersGiven DEF CallsInv, Moved
  <2> QED BY <1>2, <2>1, <2>5
<1> QED BY <1>1, <1>2 DEF GetGridpoolOrder

(* A request that is carried out. *)
LEMMA ServeStep ==
  ASSUME CallsInv, NEW c \in Client, Serve(c) PROVE CallsInv'
<1>1. call[c].stage = "sent" /\ now' = now /\ tape' = tape
  BY DEF Serve
<1>2. /\ Moved /\ RequestsInv' /\ AnswersInv'
      /\ swept' \in 0 .. Len(orders') /\ SweptStayOver'
  <2>1. CASE CreateGridpoolOrder(c)
    BY <1>1, <2>1, CreateStep, SweptGoesOn
  <2>2. CASE UpdateGridpoolOrder(c)
    BY <1>1, <2>2, UpdateStep, SweptGoesOn
  <2>3. CASE CancelGridpoolOrder(c)
    BY <2>3, CancelStep, SweptGoesOn
  <2>4. CASE CancelAllGridpoolOrders(c)
    BY <2>4, CancelAllStep
  <2>5. CASE GetGridpoolOrder(c)
    BY <2>5, GetStep, SweptGoesOn
  <2> QED BY <2>1, <2>2, <2>3, <2>4, <2>5 DEF Serve
<1>3. TapesInv'
  BY <1>1, <1>2, TapesGoOn DEF CallsInv, Moved
<1> QED BY <1>1, <1>2, <1>3 DEF CallsInv, Moved

-----------------------------------------------------------------------------
(* What may become of a client's call, and of its stream. *)
CallStands(k) ==
  \/ k.stage = "sent" /\ RequestStands(k)
  \/ k.stage \in {"served", "done"} /\ \A line \in k.lines : LineHolds(line)
TapeStands(s) == s.stage = "none" \/ (s.stage = "open" /\ StreamStands(s))

(* A client that turns to something else. *)
LEMMA CallChanges ==
  ASSUME CallsInv, NEW c \in Client, NEW k, CallStands(k),
         call' = [call EXCEPT ![c] = k], orders' = orders
  PROVE  RequestsInv' /\ AnswersInv'
<1>1. call = [b \in Client |-> call[b]]
  BY DEF CallsInv, RequestsInv
<1>2. call' = [b \in Client |-> IF b = c THEN k ELSE call[b]]
  BY <1>1
<1>3. call' = [b \in Client |-> call'[b]]
  BY <1>2
<1>4. ASSUME NEW b \in Client
      PROVE  /\ call'[b].stage \in {"sent", "served", "done"}
             /\ call'[b].stage = "sent" => RequestStands(call'[b])
  BY <1>2 DEF CallsInv, RequestsInv, CallStands
<1>5. RequestsInv'
  BY <1>3, <1>4 DEF RequestsInv, RequestStands
<1>6. ASSUME NEW b \in Client, call'[b].stage \in {"served", "done"},
             NEW line \in call'[b].lines
      PROVE  LineHolds(line)
  BY <1>2, <1>6 DEF CallsInv, AnswersInv, CallStands
<1>7. AnswersInv'
  BY <1>6 DEF AnswersInv, LineHolds
<1> QED BY <1>5, <1>7

(* A stream that moves on, or ends. *)
LEMMA TapeChanges ==
  ASSUME CallsInv, NEW c \in Client, NEW s, TapeStands(s),
         tape' = [tape EXCEPT ![c] = s], prints' = prints
  PROVE  TapesInv'
<1>1. tape = [b \in Client |-> tape[b]]
  BY DEF CallsInv, TapesInv
<1>2. tape' = [b \in Client |-> IF b = c THEN s ELSE tape[b]]
  BY <1>1
<1>3. tape' = [b \in Client |-> tape'[b]]
  BY <1>2
<1>4. ASSUME NEW b \in Client
      PROVE  /\ tape'[b].stage \in {"none", "open"}
             /\ tape'[b].stage = "open" => StreamStands(tape'[b])
  BY <1>2 DEF CallsInv, TapesInv, TapeStands
<1>5. Dropped' = Dropped
  BY DEF Dropped
<1> HIDE DEF OfContract, NearContract, Dropped
<1> QED BY <1>3, <1>4, <1>5 DEF TapesInv, StreamStands

(* Of the rest nothing changes. *)
LEMMA OrdersAside ==
  ASSUME CallsInv, orders' = orders, said' = said, swept' = swept, prints' = prints
  PROVE  /\ OrdersInv' /\ SaidInv' /\ OrdersAsTyped' /\ PrintsInv'
         /\ swept' \in 0 .. Len(orders') /\ SweptStayOver'
<1>1. Moved
  BY StandsStill
<1> QED BY <1>1, SweptGoesOn DEF Moved

(* A command that is typed. *)
LEMMA TypeStep ==
  ASSUME CallsInv, NEW c \in Client, NEW t \in Typed[c], Type(c, t) PROVE CallsInv'
<1>1. t \in Commands
  BY CallsAssumption
<1>2. now \in Int
  BY CallsAssumption DEF CallsInv
<1> DEFINE sent == [stage |-> "sent", request |-> RequestOf(t, now), typed |-> {t},
                    at |-> now]
           k == IF Sound(t) THEN sent ELSE NoCall
<1>3. call' = [call EXCEPT ![c] = k]
  BY DEF Type
<1>4. Sound(t) => RequestStands(sent)
  <2>1. RequestOf(t, now) \in WireRequests
    BY <1>1, <1>2, RequestOnWire
  <2> QED BY <1>1, <1>2, <2>1 DEF RequestStands
<1>5. CallStands(k)
  BY <1>4 DEF NoCall, CallStands
<1> HIDE DEF k
<1>6. /\ now' = now /\ orders' = orders /\ said' = said /\ swept' = swept
      /\ prints' = prints /\ tape' = tape
  BY DEF Type
<1>7. RequestsInv' /\ AnswersInv'
  BY <1>3, <1>5, <1>6, CallChanges
<1>8. TapesInv'
  BY <1>6, StandsStill, TapesGoOn DEF CallsInv, Moved
<1> QED BY <1>6, <1>7, <1>8, OrdersAside DEF CallsInv

(* A request that another client puts on the wire. *)
LEMMA SendStep ==
  ASSUME CallsInv, NEW c \in Client, NEW r \in Wires[c], SendWire(c, r) PROVE CallsInv'
<1>1. r \in WireRequests
  BY CallsAssumption
<1>2. now \in Int
  BY CallsAssumption DEF CallsInv
<1> DEFINE k == [stage |-> "sent", request |-> r, typed |-> {}, at |-> now]
<1>3. call' = [call EXCEPT ![c] = k]
  BY DEF SendWire
<1>4. CallStands(k)
  BY <1>1, <1>2 DEF CallStands, RequestStands
<1> HIDE DEF k
<1>5. /\ now' = now /\ orders' = orders /\ said' = said /\ swept' = swept
      /\ prints' = prints /\ tape' = tape
  BY DEF SendWire
<1>6. RequestsInv' /\ AnswersInv'
  BY <1>3, <1>4, <1>5, CallChanges
<1>7. TapesInv'
  BY <1>5, StandsStill, TapesGoOn DEF CallsInv, Moved
<1> QED BY <1>5, <1>6, <1>7, OrdersAside DEF CallsInv

(* A command that ends, with an answer or without. *)
LEMMA EndOfCallStep ==
  ASSUME CallsInv, NEW c \in Client, Return(c) \/ Break(c) PROVE CallsInv'
<1>1. PICK k : call' = [call EXCEPT ![c] = k] /\ CallStands(k)
  <2>1. CASE Return(c)
    <3> DEFINE lines == call[c].lines
               k == [stage |-> "done", lines |-> lines]
    <3>1. call' = [call EXCEPT ![c] = k]
      BY <2>1 DEF Return
    <3>2. \A line \in lines : LineHolds(line)
      BY <2>1 DEF Return, CallsInv, AnswersInv
    <3>3. CallStands(k)
      BY <3>2 DEF CallStands
    <3> HIDE DEF k
    <3> QED BY <3>1, <3>3
  <2>2. CASE Break(c)
    <3> DEFINE k == NoCall
    <3>1. call' = [call EXCEPT ![c] = k]
      BY <2>2 DEF Break
    <3>2. CallStands(k)
      BY DEF NoCall, CallStands
    <3> HIDE DEF k
    <3> QED BY <3>1, <3>2
  <2> QED BY <2>1, <2>2
<1>2. /\ now' = now /\ orders' = orders /\ said' = said /\ swept' = swept
      /\ prints' = prints /\ tape' = tape
  BY DEF Return, Break
<1>3. RequestsInv' /\ AnswersInv'
  BY <1>1, <1>2, CallChanges
<1>4. TapesInv'
  BY <1>2, StandsStill, TapesGoOn DEF CallsInv, Moved
<1> QED BY <1>2, <1>3, <1>4, OrdersAside DEF CallsInv

(* A stream that is opened. *)
LEMMA WatchStep ==
  ASSUME CallsInv, NEW c \in Client, NEW quarters \in Wants[c], Watch(c, quarters)
  PROVE  CallsInv'
<1> DEFINE want == {[start |-> {PeriodStart(n, now)}, duration |-> 15] : n \in quarters}
           s == [stage |-> "open", want |-> want, close_at |-> CloseAt(want),
                 from |-> Len(prints), upto |-> Len(prints), got |-> << >>, lost |-> {}]
<1>1. now \in Int
  BY CallsAssumption DEF CallsInv
<1>2. want \subseteq WirePeriods
  <2> SUFFICES ASSUME NEW n \in quarters
               PROVE  [start |-> {PeriodStart(n, now)}, duration |-> 15] \in WirePeriods
    OBVIOUS
  <2>1. n \in Nat
    BY CallsAssumption DEF Optional
  <2>2. PeriodStart(n, now) \in WireTimes
    BY <1>1, <2>1, StartOnWire
  <2>3. {PeriodStart(n, now)} \in Optional(WireTimes)
    BY <2>2 DEF Optional
  <2> QED BY <2>3 DEF WirePeriods
<1>3. CloseAt(want) \subseteq Int
  <2> HIDE DEF want
  <2> SUFFICES ASSUME NEW w \in want, NEW ts \in w.start, NEW t \in DecodeTimestamp(ts)
               PROVE  t + 900 * Nanos \in Int
    BY DEF CloseAt
  <2>1. ts \in WireTimes
    BY <1>2 DEF WirePeriods, Optional
  <2>2. t \in Int
    BY <2>1, DecodedInstant DEF Optional
  <2> QED BY <2>2, RequestsAssumption
<1>4. tape' = [tape EXCEPT ![c] = s]
  BY DEF Watch
<1>5. Len(prints) \in Nat
  BY DEF CallsInv, PrintsInv
<1>6. TapeStands(s)
  <2> HIDE DEF want
  <2>1. s \in Streams
    BY <1>2, <1>3, <1>5 DEF Streams
  <2>2. /\ s.from = Len(prints) /\ s.upto = Len(prints) /\ s.got = << >>
        /\ s.stage = "open" /\ s.lost = {}
    OBVIOUS
  <2> HIDE DEF s
  <2>3. s.from + 1 .. s.upto = {} /\ DOMAIN s.got = {} /\ ToSet(s.got) = {}
    BY <1>5, <2>2 DEF ToSet
  <2> HIDE DEF OfContract, NearContract
  <2> QED BY <1>5, <2>1, <2>2, <2>3 DEF StreamStands, TapeStands
<1> HIDE DEF s
<1>7. /\ now' = now /\ orders' = orders /\ said' = said /\ swept' = swept
      /\ prints' = prints /\ call' = [call EXCEPT ![c] = NoCall]
  BY DEF Watch
<1>8. TapesInv'
  BY <1>4, <1>6, <1>7, TapeChanges
<1>9. RequestsInv' /\ AnswersInv'
  <2> DEFINE k == NoCall
  <2>1. CallStands(k) /\ call' = [call EXCEPT ![c] = k]
    BY <1>7 DEF NoCall, CallStands
  <2> HIDE DEF k
  <2> QED BY <1>7, <2>1, CallChanges
<1> QED BY <1>7, <1>8, <1>9, OrdersAside DEF CallsInv

(* A stream that ends. *)
LEMMA EndOfStreamStep ==
  ASSUME CallsInv, NEW c \in Client, Close(c) \/ StopWatching(c) PROVE CallsInv'
<1>1. /\ now' = now /\ orders' = orders /\ said' = said /\ swept' = swept
      /\ prints' = prints /\ call' = call /\ tape' = [tape EXCEPT ![c] = NoTape]
  BY DEF Close, StopWatching
<1>2. TapeStands(NoTape)
  BY DEF NoTape, TapeStands
<1>3. TapesInv'
  BY <1>1, <1>2, TapeChanges
<1>4. RequestsInv' /\ AnswersInv'
  BY <1>1, StandsStill, AnswersGoOn DEF CallsInv, Moved
<1> QED BY <1>1, <1>3, <1>4, OrdersAside DEF CallsInv

(* A time off the wire is in the second it names. *)
LEMMA SameSecond ==
  ASSUME NEW ts \in WireTimes, NEW t \in Int, DecodeTimestamp(ts) = {t}
  PROVE  ts.seconds = t \div Nanos
<1>1. Nanos \in Int /\ Nanos > 0 BY RequestsAssumption
<1>2. ts.seconds \in Int /\ ts.nanos \in Int BY DEF WireTimes
<1>3. ts.nanos \in 0 .. Nanos - 1 /\ t = ts.seconds * Nanos + ts.nanos
  BY DEF DecodeTimestamp
<1> DEFINE s == ts.seconds
           n == ts.nanos
<1> HIDE DEF s, n
<1>4. s \in Int /\ n \in Int /\ 0 <= n /\ n < Nanos /\ t = s * Nanos + n
  BY <1>1, <1>2, <1>3 DEF s, n
<1>5. s = t \div Nanos
  BY <1>1, <1>4, SMTT(30)
<1> QED BY <1>5 DEF s

(* The filter of a stream passes on the trades of its contract, and none   *)
(* of another second. *)
LEMMA FilterPasses ==
  ASSUME NEW p \in Printings, NEW want \in SUBSET WirePeriods
  PROVE  /\ (\A w \in want : OfContract(p.period, w))
              => MatchesPublicTradeFilter(p, TapeFilter(want))
         /\ MatchesPublicTradeFilter(p, TapeFilter(want))
              => \A w \in want : NearContract(p.period, w)
<1>1. MatchesPublicTradeFilter(p, TapeFilter(want)) <=> ExactPeriodPasses(want, p.period)
  <2> DEFINE f == TapeFilter(want)
  <2>1. f.states = {1} /\ f.period = want /\ f.buy_area = {} /\ f.sell_area = {}
    BY DEF TapeFilter
  <2>2. p.state = 1 BY DEF Printings
  <2> HIDE DEF f
  <2>3. /\ EnumListPasses(f.states, p.state) /\ AreaPasses(f.buy_area, p.buy_area)
        /\ AreaPasses(f.sell_area, p.sell_area)
    BY <2>1, <2>2 DEF EnumListPasses, AreaPasses
  <2>4. MatchesPublicTradeFilter(p, f) <=> ExactPeriodPasses(want, p.period)
    BY <2>1, <2>3 DEF MatchesPublicTradeFilter
  <2> QED BY <2>4 DEF f
<1>2. ASSUME NEW w \in want, OfContract(p.period, w)
      PROVE  /\ {ts.seconds : ts \in w.start} = {p.period.start \div Nanos}
             /\ w.duration = p.period.duration
  <2>1. p.period.start \in Int
    BY DEF Printings, Periods
  <2>2. w.start \subseteq WireTimes
    BY DEF WirePeriods, Optional
  <2>3. \A ts \in w.start : DecodeTimestamp(ts) = {p.period.start}
    BY <1>2 DEF OfContract
  <2>4. w.start # {}
    BY <1>2 DEF OfContract
  <2>5. \A ts \in w.start : ts.seconds = p.period.start \div Nanos
    BY <2>1, <2>2, <2>3, SameSecond
  <2> QED BY <1>2, <2>4, <2>5 DEF OfContract
<1>3. (\A w \in want : OfContract(p.period, w)) => ExactPeriodPasses(want, p.period)
  BY <1>2 DEF ExactPeriodPasses
<1>4. ExactPeriodPasses(want, p.period) => \A w \in want : NearContract(p.period, w)
  <2> SUFFICES ASSUME ExactPeriodPasses(want, p.period), NEW w \in want,
                      NEW ts \in w.start
               PROVE  /\ w.duration = p.period.duration
                      /\ ts.seconds = p.period.start \div Nanos
    BY DEF NearContract, ExactPeriodPasses
  <2>1. {u.seconds : u \in w.start} = {p.period.start \div Nanos}
    BY DEF ExactPeriodPasses
  <2>2. ts.seconds \in {u.seconds : u \in w.start}
    OBVIOUS
  <2> QED BY <2>1, <2>2 DEF ExactPeriodPasses
<1> QED BY <1>1, <1>3, <1>4

(* A trade that a stream looks at, and passes on or not. *)
LEMMA ForwardStep ==
  ASSUME CallsInv, NEW c \in Client, Forward(c) PROVE CallsInv'
<1> DEFINE s == tape[c]
           i == s.upto + 1
           f == TapeFilter(s.want)
           one == Passed(i, f)
           passed == s.got \o one
           z == [[s EXCEPT !.upto = i] EXCEPT !.got = passed]
<1>1. /\ now' = now /\ orders' = orders /\ said' = said /\ swept' = swept
      /\ prints' = prints /\ call' = call
  BY DEF Forward
<1>2. /\ s.stage = "open" /\ StreamStands(s) /\ i <= Len(prints)
      /\ Len(prints) \in Nat
  <2>1. s.stage = "open" /\ s.upto < Len(prints) /\ StreamStands(s)
    BY DEF Forward, CallsInv, TapesInv
  <2>2. s.upto \in Nat /\ Len(prints) \in Nat
    BY <2>1 DEF StreamStands, Streams, CallsInv, PrintsInv
  <2> QED BY <2>1, <2>2
<1>3. tape' = [tape EXCEPT ![c] = z]
  <2>1. tape = [b \in Client |-> tape[b]]
    BY DEF CallsInv, TapesInv
  <2>2. tape' = [tape EXCEPT ![c].upto = i, ![c].got = @ \o one]
    BY DEF Forward
  <2> HIDE DEF i, one
  <2>3. tape' = [tape EXCEPT ![c].upto = i, ![c].got = passed]
    BY <2>1, <2>2, <1>2 DEF StreamStands, Streams
  <2> QED BY <2>1, <2>3
<1>4. /\ s \in Streams /\ s.got \in Seq(Nat) /\ s.from \in Nat /\ s.upto \in Nat
      /\ s.want \in SUBSET WirePeriods /\ i \in Nat
  BY <1>2 DEF StreamStands, Streams
<1>5. prints[i] \in Printings
  <2>1. prints \in Seq(Printings) BY DEF CallsInv, PrintsInv
  <2> HIDE DEF i
  <2>2. i \in 1 .. Len(prints) BY <1>2, <1>4 DEF i
  <2> QED BY <2>1, <2>2
<1>6. /\ (\A w \in s.want : OfContract(prints[i].period, w)) => one = <<i>>
      /\ one = <<i>> \/ one = << >>
      /\ one = <<i>> => \A w \in s.want : NearContract(prints[i].period, w)
  <2> DEFINE p == prints[i]
             want == s.want
  <2>1. p \in Printings /\ want \in SUBSET WirePeriods
    BY <1>4, <1>5
  <2>2. one = IF MatchesPublicTradeFilter(p, TapeFilter(want)) THEN <<i>> ELSE << >>
    BY DEF Passed
  <2>3. <<i>> # << >>
    OBVIOUS
  <2> HIDE DEF p, want, one, i, OfContract, NearContract
  <2>4. /\ (\A w \in want : OfContract(p.period, w))
             => MatchesPublicTradeFilter(p, TapeFilter(want))
        /\ MatchesPublicTradeFilter(p, TapeFilter(want))
             => \A w \in want : NearContract(p.period, w)
    BY <2>1, FilterPasses
  <2>5. /\ (\A w \in want : OfContract(p.period, w)) => one = <<i>>
        /\ one = <<i>> \/ one = << >>
        /\ one = <<i>> => \A w \in want : NearContract(p.period, w)
    BY <2>2, <2>3, <2>4
  <2> QED BY <2>5 DEF p, want
<1>7. /\ z \in Streams /\ z.stage = "open" /\ z.from = s.from /\ z.want = s.want
      /\ z.upto = i /\ z.got = passed /\ z.lost = s.lost
  <2>1. passed \in Seq(Nat)
    <3>1. i \in Nat /\ (one = <<i>> \/ one = << >>) BY <1>4, <1>6
    <3> HIDE DEF one, i
    <3>2. <<i>> \in Seq(Nat) /\ << >> \in Seq(Nat) BY <3>1
    <3>3. one \in Seq(Nat) BY <3>1, <3>2, Zenon
    <3> QED BY <1>4, <3>3
  <2> DEFINE y == [s EXCEPT !.upto = i]
  <2> HIDE DEF passed, i, s
  <2>2. y \in Streams /\ y.stage = "open" /\ y.from = s.from /\ y.want = s.want
        /\ y.upto = i /\ y.lost = s.lost
    BY <1>4 DEF Streams
  <2>3. z = [y EXCEPT !.got = passed]
    OBVIOUS
  <2> HIDE DEF y, z
  <2> QED BY <2>1, <2>2, <2>3 DEF Streams
<1> HIDE DEF z
<1>8. StreamStands(z)
  <2> DEFINE old == s.got
             u == s.upto
             v == s.from
             want == s.want
             lost == s.lost
             New(k) == \A w \in want : OfContract(prints[k].period, w)
             Near(k) == \A w \in want : NearContract(prints[k].period, w)
  <2>1. /\ old \in Seq(Nat) /\ u \in Nat /\ v \in Nat /\ v <= u /\ i = u + 1
        /\ \A j, k \in DOMAIN old : j < k => old[j] < old[k]
        /\ lost \subseteq v + 1 .. u /\ i \notin lost
        /\ \A k \in (v + 1 .. u) \ lost : New(k) => k \in ToSet(old)
        /\ \A k \in ToSet(old) : k \in (v + 1 .. u) \ lost /\ Near(k)
    BY <1>2, <1>4 DEF StreamStands
  <2>2. /\ New(i) => one = <<i>>
        /\ one = <<i>> \/ one = << >>
        /\ one = <<i>> => Near(i)
    BY <1>6
  <2> HIDE DEF old, u, v, i, one, lost, New, Near
  <2>3. /\ \A k \in (v + 1 .. i) \ lost : New(k) => k \in ToSet(old \o one)
        /\ \A k \in ToSet(old \o one) : k \in (v + 1 .. i) \ lost /\ Near(k)
        /\ \A j, k \in DOMAIN (old \o one) : j < k => (old \o one)[j] < (old \o one)[k]
    <3>1. CASE one = << >>
      <4>1. one # <<i>> /\ old \o one = old
        BY <2>1, <3>1
      <4>2. ~New(i)
        BY <2>2, <4>1
      <4>3. \A k \in (v + 1 .. i) \ lost : k \in (v + 1 .. u) \ lost \/ k = i
        BY <2>1
      <4>4. \A k \in (v + 1 .. u) \ lost : k \in (v + 1 .. i) \ lost
        BY <2>1
      <4> QED BY <2>1, <4>1, <4>2, <4>3, <4>4
    <3>2. CASE one = <<i>>
      <4>1. /\ DOMAIN old = 1 .. Len(old) /\ Len(old) \in Nat
            /\ Len(old \o one) = Len(old) + 1
            /\ DOMAIN (old \o one) = 1 .. Len(old) + 1
            /\ \A k \in 1 .. Len(old) : (old \o one)[k] = old[k]
            /\ (old \o one)[Len(old) + 1] = i
        BY <2>1, <3>2
      <4>2. \A k \in 1 .. Len(old) : old[k] \in ToSet(old)
        BY <4>1 DEF ToSet
      <4>3. ToSet(old \o one) = ToSet(old) \cup {i}
        <5> DEFINE m == old \o one
                   n == Len(old)
        <5>1. /\ DOMAIN m = 1 .. n + 1 /\ n \in Nat /\ DOMAIN old = 1 .. n
              /\ \A k \in 1 .. n : m[k] = old[k]
              /\ m[n + 1] = i
          BY <4>1
        <5> HIDE DEF m, n
        <5>2. {m[k] : k \in DOMAIN m} = {old[k] : k \in DOMAIN old} \cup {i}
          BY <5>1
        <5> QED BY <5>2 DEF m, ToSet
      <4>4. \A j, k \in DOMAIN (old \o one) : j < k => (old \o one)[j] < (old \o one)[k]
        <5> SUFFICES ASSUME NEW j \in 1 .. Len(old) + 1, NEW k \in 1 .. Len(old) + 1, j < k
                     PROVE  (old \o one)[j] < (old \o one)[k]
          BY <4>1
        <5>1. CASE k = Len(old) + 1
          <6>1. j \in 1 .. Len(old) BY <4>1, <5>1
          <6>2. old[j] \in v + 1 .. u BY <2>1, <4>2, <6>1
          <6> QED BY <2>1, <4>1, <5>1, <6>1, <6>2
        <5>2. CASE k # Len(old) + 1
          <6>1. j \in 1 .. Len(old) /\ k \in 1 .. Len(old) BY <4>1, <5>2
          <6> QED BY <2>1, <4>1, <6>1
        <5> QED BY <5>1, <5>2
      <4>5. \A k \in (v + 1 .. i) \ lost : k \in (v + 1 .. u) \ lost \/ k = i
        BY <2>1
      <4>6. \A k \in (v + 1 .. u) \ lost : k \in (v + 1 .. i) \ lost
        BY <2>1
      <4>7. i \in (v + 1 .. i) \ lost
        BY <2>1
      <4> QED BY <2>1, <2>2, <3>2, <4>3, <4>4, <4>5, <4>6, <4>7
    <3> QED BY <2>2, <3>1, <3>2
  <2>4. /\ z.got = old \o one /\ z.upto = i /\ z.from = v /\ z.want = want
        /\ z \in Streams /\ z.lost = lost
    BY <1>7 DEF old, v, lost
  <2>5. z.from <= z.upto /\ z.upto <= Len(prints)
    BY <1>2, <2>1, <2>4
  <2>6. \A k \in (v + 1 .. i) \ lost :
          (\A w \in want : OfContract(prints[k].period, w)) => k \in ToSet(old \o one)
    BY <2>3 DEF New
  <2>7. \A k \in ToSet(old \o one) :
          k \in (v + 1 .. i) \ lost /\ \A w \in want : NearContract(prints[k].period, w)
    BY <2>3 DEF Near
  <2>8. lost \subseteq v + 1 .. i /\ \A k \in lost : k <= Dropped
    BY <1>2, <2>1 DEF StreamStands, lost
  <2> HIDE DEF OfContract, NearContract, want, Dropped
  <2> QED BY <2>3, <2>4, <2>5, <2>6, <2>7, <2>8 DEF StreamStands
<1>9. TapesInv'
  <2>1. TapeStands(z)
    BY <1>7, <1>8 DEF TapeStands
  <2> QED BY <1>1, <1>3, <2>1, TapeChanges
<1>10. RequestsInv' /\ AnswersInv'
  BY <1>1, StandsStill, AnswersGoOn DEF CallsInv, Moved
<1> QED BY <1>1, <1>9, <1>10, OrdersAside DEF CallsInv

(* The trades that were dropped before a stream has read them. *)
LEMMA LoseTradesStep ==
  ASSUME CallsInv, NEW c \in Client, LoseTrades(c) PROVE CallsInv'
<1> DEFINE s == tape[c]
           d == Dropped
           lost == s.lost \cup (s.upto + 1 .. d)
           z == [[s EXCEPT !.upto = d] EXCEPT !.lost = lost]
<1>1. /\ now' = now /\ orders' = orders /\ said' = said /\ swept' = swept
      /\ prints' = prints /\ call' = call
  BY DEF LoseTrades
<1>2. s.stage = "open" /\ StreamStands(s) /\ s.upto < d
  BY DEF LoseTrades, CallsInv, TapesInv
<1>3. /\ s \in Streams /\ s.from \in Nat /\ s.upto \in Nat /\ s.lost \in SUBSET Nat
      /\ d \in Nat /\ d <= Len(prints)
  <2>1. Len(prints) \in Nat
    BY DEF CallsInv, PrintsInv
  <2> QED BY <1>2, <2>1, CallsAssumption DEF StreamStands, Streams, Dropped
<1>4. tape' = [tape EXCEPT ![c] = z]
  <2>1. tape = [b \in Client |-> tape[b]]
    BY DEF CallsInv, TapesInv
  <2>2. tape' = [tape EXCEPT ![c].upto = d,
                             ![c].lost = @ \cup (tape[c].upto + 1 .. d)]
    BY DEF LoseTrades
  <2> HIDE DEF d
  <2>3. tape' = [tape EXCEPT ![c].upto = d, ![c].lost = lost]
    BY <2>1, <2>2, <1>3 DEF Streams
  <2> QED BY <2>1, <2>3
<1> HIDE DEF d
<1>5. lost \in SUBSET Nat
  BY <1>3
<1>6. /\ z \in Streams /\ z.stage = "open" /\ z.from = s.from /\ z.want = s.want
      /\ z.upto = d /\ z.got = s.got /\ z.lost = lost
  <2> HIDE DEF lost, s
  <2> QED BY <1>3, <1>5 DEF Streams
<1> HIDE DEF z
<1>7. StreamStands(z)
  <2> DEFINE u == s.upto
             v == s.from
             old == s.lost
             handed == ToSet(s.got)
  <2>1. /\ v <= u /\ old \subseteq v + 1 .. u /\ \A i \in old : i <= d
        /\ \A i \in handed : i \in (v + 1 .. u) \ old
    BY <1>2 DEF StreamStands, d
  <2>2. v \in Nat /\ u \in Nat /\ d \in Nat /\ u < d /\ lost = old \cup (u + 1 .. d)
    BY <1>2, <1>3
  <2> HIDE DEF u, v, old, handed, lost
  <2>3. (v + 1 .. d) \ lost = (v + 1 .. u) \ old
    BY <2>1, <2>2
  <2>4. lost \subseteq v + 1 .. d /\ \A i \in lost : i <= d
    BY <2>1, <2>2
  <2>5. v <= d
    BY <2>1, <2>2
  <2>6. /\ \A j, k \in DOMAIN s.got : j < k => s.got[j] < s.got[k]
        /\ \A i \in (v + 1 .. u) \ old :
             (\A w \in s.want : OfContract(prints[i].period, w)) => i \in handed
        /\ \A i \in handed : /\ i \in (v + 1 .. u) \ old
                             /\ \A w \in s.want : NearContract(prints[i].period, w)
    BY <1>2 DEF StreamStands, u, v, old, handed
  <2>7. z.from = v /\ ToSet(z.got) = handed
    BY <1>6 DEF v, handed
  <2> HIDE DEF OfContract, NearContract, s
  <2> QED BY <1>3, <1>6, <2>3, <2>4, <2>5, <2>6, <2>7 DEF StreamStands, d
<1>8. TapesInv'
  <2>1. TapeStands(z)
    BY <1>6, <1>7 DEF TapeStands
  <2> QED BY <1>1, <1>4, <2>1, TapeChanges
<1>9. RequestsInv' /\ AnswersInv'
  BY <1>1, StandsStill, AnswersGoOn DEF CallsInv, Moved
<1> QED BY <1>1, <1>8, <1>9, OrdersAside DEF CallsInv

(* What only orders and the tape have to do with. *)
LEMMA OfExchange ==
  ASSUME CallsInv, Moved, now' = now, swept' = swept, call' = call, tape' = tape
  PROVE  CallsInv'
<1>1. RequestsInv' /\ AnswersInv'
  BY AnswersGoOn DEF CallsInv, Moved
<1>2. TapesInv'
  BY TapesGoOn DEF CallsInv, Moved
<1> QED BY <1>1, <1>2, SweptGoesOn DEF CallsInv, Moved

(* Somebody trades with an order. *)
LEMMA TradeStep ==
  ASSUME CallsInv, NEW n \in DOMAIN orders, Trade(n) PROVE CallsInv'
<1> DEFINE d == orders[n]
           open == d.open_quantity - 1
           e == [d EXCEPT !.open_quantity = open, !.filled_quantity = @ + 1,
                          !.modification_time = now, !.state = In(Outcome({}, open))]
<1>1. /\ now' = now /\ said' = said /\ swept' = swept /\ call' = call /\ tape' = tape
      /\ prints' = Printed(d.order, 1) /\ d.state.state \notin Terminal
  BY DEF Trade, IsOpen
<1>2. now \in Int /\ Good(d) /\ DOMAIN orders = 1 .. Len(orders)
  BY CallsAssumption DEF CallsInv, OrdersInv
<1>3. orders' = [orders EXCEPT ![n] = e]
  BY <1>2 DEF Trade
<1>4. Good(e) /\ Follows(e, d) /\ e.order = d.order
  <2> HIDE DEF d
  <2> QED BY <1>1, <1>2, TradedFollows
<1> HIDE DEF e
<1>5. \A i \in DOMAIN orders : orders'[i] = IF i = n THEN e ELSE orders[i]
  BY <1>3
<1>6. \A i \in DOMAIN orders : Good(orders'[i]) /\ Follows(orders'[i], orders[i])
  BY <1>4, <1>5, FollowsItself DEF CallsInv, OrdersInv
<1>7. orders' = [i \in DOMAIN orders |-> orders'[i]]
  BY <1>3, <1>2 DEF CallsInv, OrdersInv
<1>8. OrdersInv' /\ Kept /\ Len(orders') = Len(orders)
  BY <1>6, <1>7, RewrittenOrders DEF CallsInv
<1>9. SaidInv' /\ OrdersAsTyped'
  <2>1. \A i \in DOMAIN orders : orders'[i].order.price = orders[i].order.price
    BY <1>4, <1>5
  <2> QED BY <1>1, <1>8, <2>1, StayAsTyped DEF CallsInv
<1>10. PrintsInv' /\ Extended
  <2> DEFINE o == d.order
  <2>1. o \in Orders /\ prints' = Printed(o, 1) BY <1>1, <1>2 DEF Good, Details
  <2> HIDE DEF o
  <2> QED BY <2>1, PrintedExtends DEF CallsInv
<1> QED BY <1>1, <1>8, <1>9, <1>10, OfExchange DEF Moved

(* The sweep expires what has lapsed. *)
LEMMA ExpireStep ==
  ASSUME CallsInv, ExpireLapsedOrders PROVE CallsInv'
<1> DEFINE S == {i \in DOMAIN orders : Lapsed(i)}
<1>1. /\ now' = now /\ said' = said /\ swept' = swept /\ call' = call /\ tape' = tape
      /\ prints' = prints
  BY DEF ExpireLapsedOrders
<1>2. orders' = [i \in DOMAIN orders |->
                   IF i \in S THEN Ended(orders[i], Expired) ELSE orders[i]]
  BY DEF ExpireLapsedOrders
<1>3. \A i \in S : i \in DOMAIN orders /\ IsOpen(i)
  BY DEF Lapsed
<1>4. Expired \in Terminal
  BY DEF Terminal
<1> HIDE DEF S
<1>5. Moved
  BY <1>1, <1>2, <1>3, <1>4, EndStep
<1> QED BY <1>1, <1>5, OfExchange

(* Time passes, or nothing does. *)
LEMMA TickStep ==
  ASSUME CallsInv, Tick \/ UNCHANGED callsVars PROVE CallsInv'
<1>1. /\ now' \in Instants /\ orders' = orders /\ said' = said /\ swept' = swept
      /\ call' = call /\ tape' = tape /\ prints' = prints
  BY DEF Tick, callsVars, CallsInv
<1>2. Moved
  BY <1>1, StandsStill
<1>3. RequestsInv' /\ AnswersInv'
  BY <1>1, <1>2, AnswersGoOn DEF CallsInv, Moved
<1>4. TapesInv'
  BY <1>1, <1>2, TapesGoOn DEF CallsInv, Moved
<1> QED BY <1>1, <1>2, <1>3, <1>4, SweptGoesOn DEF CallsInv, Moved

(* The calls keep it. *)
LEMMA CallsInvariant == CallsSpec => []CallsInv
<1>1. CallsInit => CallsInv
  <2> SUFFICES ASSUME CallsInit PROVE CallsInv
    OBVIOUS
  <2>1. now \in Instants /\ orders = << >> /\ said = << >> /\ swept = 0 /\ prints = << >>
    BY DEF CallsInit
  <2>2. DOMAIN orders = {} /\ Len(orders) = 0 /\ Len(said) = 0
    BY <2>1
  <2>3. OrdersInv /\ SaidInv /\ OrdersAsTyped
    BY <2>1, <2>2, CallsAssumption DEF OrdersInv, SaidInv, OrdersAsTyped
  <2>4. swept \in 0 .. Len(orders) /\ SweptStayOver /\ PrintsInv
    BY <2>1, <2>2 DEF SweptStayOver, PrintsInv
  <2>5. RequestsInv /\ AnswersInv
    BY DEF CallsInit, NoCall, RequestsInv, AnswersInv
  <2>6. TapesInv
    BY DEF CallsInit, NoTape, TapesInv
  <2> QED BY <2>1, <2>3, <2>4, <2>5, <2>6 DEF CallsInv
<1>2. CallsInv /\ [CallsNext]_callsVars => CallsInv'
  <2> SUFFICES ASSUME CallsInv, [CallsNext]_callsVars PROVE CallsInv'
    OBVIOUS
  <2>1. ASSUME NEW c \in Client, NEW t \in Typed[c], Type(c, t) PROVE CallsInv'
    BY <2>1, TypeStep
  <2>2. ASSUME NEW c \in Client, NEW r \in Wires[c], SendWire(c, r) PROVE CallsInv'
    BY <2>2, SendStep
  <2>3. ASSUME NEW c \in Client, Serve(c) PROVE CallsInv'
    BY <2>3, ServeStep
  <2>4. ASSUME NEW c \in Client, Return(c) \/ Break(c) PROVE CallsInv'
    BY <2>4, EndOfCallStep
  <2>5. ASSUME NEW c \in Client, NEW w \in Wants[c], Watch(c, w) PROVE CallsInv'
    BY <2>5, WatchStep
  <2>6. ASSUME NEW c \in Client, Forward(c) PROVE CallsInv'
    BY <2>6, ForwardStep
  <2>11. ASSUME NEW c \in Client, LoseTrades(c) PROVE CallsInv'
    BY <2>11, LoseTradesStep
  <2>7. ASSUME NEW c \in Client, Close(c) \/ StopWatching(c) PROVE CallsInv'
    BY <2>7, EndOfStreamStep
  <2>8. ASSUME NEW i \in DOMAIN orders, Trade(i) PROVE CallsInv'
    BY <2>8, TradeStep
  <2>9. CASE ExpireLapsedOrders
    BY <2>9, ExpireStep
  <2>10. CASE Tick \/ UNCHANGED callsVars
    BY <2>10, TickStep
  <2> QED BY <2>1, <2>2, <2>3, <2>4, <2>5, <2>6, <2>7, <2>8, <2>9, <2>10, <2>11
     DEF CallsNext
<1> QED BY <1>1, <1>2, PTL DEF CallsSpec

(* Whatever is typed and whatever crosses the wire, whenever the service   *)
(* gets to it: an order stays what its owner typed, what a cancel-all has  *)
(* swept stays over, what an answer says stays true, and a stream passes   *)
(* on the trades of its contract, each once and in order, but those it lost*)
(* to the ring (src/server.rs, src/proto_conv.rs, src/bin/tsctl.rs).       *)
THEOREM CallsStayFaithful == CallsSpec => []CallsFaithful
BY CallsInvariant, CallsInvImplies, PTL

-----------------------------------------------------------------------------
(* Listing.  Records are kept in the order of their ids; two share one only*)
(* in the trade list.                                                      *)
ListedRecord == [id: Position, side: Sides, state: OrderStates]
RecordsInv ==
  /\ stream \in [on: BOOLEAN, queue: Seq(ListedRecord), lost: BOOLEAN]
  /\ \A i \in DOMAIN records : records[i].id <= i
  /\ \A i, j \in DOMAIN records : i < j => records[i].id <= records[j].id
  /\ list = "orders" => \A i \in DOMAIN records : records[i].id = i
  /\ stream.on => list = "orders"
  /\ ~stream.on => stream = NoStream
  /\ ~stream.on => stream = NoStream

(* What was returned lies up to the cursor, and of what matched all along  *)
(* everything up to there was.                                             *)
Reached(i) == walk = "done" \/ (walk = "walking" /\ records[i].id <= token.last)
WalkInv ==
  /\ returned \in Seq(SUBSET Position) /\ Returned \subseteq DOMAIN records
  /\ walk = "idle" => returned = << >>
  /\ steady \subseteq Matching
  /\ walk = "walking" => \A i \in Returned : records[i].id <= token.last
  /\ ReturnedOnce
  /\ \A i \in steady : Reached(i) => records[i].id \in Ids(Returned)

(* The last that the stream holds of an order is the order as it is; of an *)
(* order of which it holds nothing the client knows, once the walk has     *)
(* reached it.                                                             *)
IsOrder(r) == r.id \in DOMAIN records /\ r.side = records[r.id].side
LastSaid(n) == \A m \in DOMAIN stream.queue :
                 n < m => stream.queue[m].id # stream.queue[n].id
Silent(i) == \A n \in DOMAIN stream.queue : stream.queue[n].id # i
StreamInv ==
  list = "orders" =>
    /\ \A n \in DOMAIN stream.queue : IsOrder(stream.queue[n])
    /\ filter.states = {} => DOMAIN view \subseteq Matching
    /\ stream.on /\ ~stream.lost =>
         /\ \A n \in DOMAIN stream.queue :
              LastSaid(n) => stream.queue[n] = records[stream.queue[n].id]
         /\ \A i \in Matching : Reached(i) /\ Silent(i) => Holds(records[i])

ListingInv == ListingTypeOK /\ RecordsInv /\ WalkInv /\ StreamInv

-----------------------------------------------------------------------------
(* A set of positions that is not empty has a greatest.                    *)
LEMMA GreatestIsIn ==
  ASSUME NEW n \in Nat, NEW D \in SUBSET (1 .. n), D # {}
  PROVE  Max(D) \in D /\ \A j \in D : j <= Max(D)
<1> DEFINE H(i) == {k \in D : i < k}
           T == {H(i) : i \in D}
<1>1. IsWellFoundedOn(StrictSubsetOrdering(D), SUBSET D)
  <2>1. IsFiniteSet(D)
    <3>1. IsFiniteSet(1 .. n) BY FS_Interval
    <3> QED BY <3>1, FS_Subset
  <2> QED BY <2>1, FS_StrictSubsetOrderingWellFounded, FS_FiniteSubsetsOfFinite
<1>2. T \subseteq SUBSET D /\ T # {}
  OBVIOUS
<1>3. PICK x \in T : \A y \in T : <<y, x>> \notin StrictSubsetOrdering(D)
  <2> HIDE DEF T
  <2> QED BY <1>1, <1>2, WFMin
<1>4. PICK i \in D : x = H(i)
  OBVIOUS
<1>5. ASSUME NEW j \in D, i < j PROVE FALSE
  <2>1. H(j) \in T /\ H(j) \in SUBSET D /\ H(i) \in SUBSET D
    OBVIOUS
  <2>2. H(j) \subseteq H(i) /\ j \in H(i) /\ j \notin H(j)
    <3>1. i \in Nat /\ j \in Nat /\ \A k \in D : k \in Nat
      OBVIOUS
    <3>2. \A k \in D : j < k => i < k
      BY <1>5, <3>1
    <3>3. ~(j < j)
      BY <3>1
    <3> QED BY <1>5, <3>2, <3>3
  <2> HIDE DEF H, T
  <2> QED BY <1>3, <1>4, <2>1, <2>2 DEF StrictSubsetOrdering
<1>6. \A j \in D : j <= i
  BY <1>5
<1>7. \A y \in D : (\A j \in D : y >= j) => y = i
  BY <1>6
<1>8. Max(D) = i
  BY <1>6, <1>7 DEF Max
<1> QED BY <1>6, <1>8


(* The first few of some positions: with one of them all that come before, *)
(* and at least one if there is any.                                       *)
LEMMA FirstAreFirst ==
  ASSUME NEW m \in Nat, NEW S \in SUBSET (1 .. m), NEW n \in Nat \ {0}
  PROVE  /\ FirstOf(S, n) \subseteq S
         /\ \A i \in FirstOf(S, n), j \in S : j < i => j \in FirstOf(S, n)
         /\ S # {} => FirstOf(S, n) # {}
<1> DEFINE B(i) == {j \in S : j < i}
<1>1. \A i : IsFiniteSet(B(i)) /\ Cardinality(B(i)) \in Nat
  <2> SUFFICES ASSUME NEW i PROVE IsFiniteSet(B(i)) /\ Cardinality(B(i)) \in Nat
    OBVIOUS
  <2>1. IsFiniteSet(1 .. m)
    BY FS_Interval
  <2>2. B(i) \subseteq 1 .. m
    OBVIOUS
  <2> QED BY <2>1, <2>2, FS_Subset, FS_CardinalityType
<1>2. ASSUME NEW i \in FirstOf(S, n), NEW j \in S, j < i PROVE j \in FirstOf(S, n)
  <2>1. i \in S /\ Cardinality(B(i)) < n
    BY <1>2 DEF FirstOf
  <2>2. B(j) \subseteq B(i)
    <3>1. i \in Nat /\ j \in Nat /\ \A k \in S : k \in Nat
      BY <2>1
    <3>2. \A k \in S : k < j => k < i
      BY <1>2, <3>1
    <3> QED BY <3>2
  <2>3. Cardinality(B(j)) <= Cardinality(B(i))
    BY <1>1, <2>2, FS_Subset
  <2>4. Cardinality(B(j)) < n
    BY <1>1, <2>1, <2>3
  <2> QED BY <2>4 DEF FirstOf
<1>3. ASSUME S # {} PROVE FirstOf(S, n) # {}
  <2> DEFINE T == {B(i) : i \in S}
  <2>1. IsWellFoundedOn(StrictSubsetOrdering(S), SUBSET S)
    <3>1. IsFiniteSet(1 .. m)
      BY FS_Interval
    <3>2. IsFiniteSet(S)
      BY <3>1, FS_Subset
    <3> QED BY <3>2, FS_StrictSubsetOrderingWellFounded, FS_FiniteSubsetsOfFinite
  <2>2. T \subseteq SUBSET S /\ T # {}
    BY <1>3
  <2>3. PICK x \in T : \A y \in T : <<y, x>> \notin StrictSubsetOrdering(S)
    <3> HIDE DEF T
    <3> QED BY <2>1, <2>2, WFMin
  <2>4. PICK i \in S : x = B(i)
    OBVIOUS
  <2>5. ASSUME NEW j \in S, j < i PROVE FALSE
    <3>1. B(j) \in T /\ B(j) \in SUBSET S /\ B(i) \in SUBSET S
      OBVIOUS
    <3>2. B(j) \subseteq B(i) /\ j \in B(i) /\ j \notin B(j)
      <4>1. i \in Nat /\ j \in Nat /\ \A k \in S : k \in Nat
        OBVIOUS
      <4>2. \A k \in S : k < j => k < i
        BY <2>5, <4>1
      <4>3. ~(j < j)
        BY <4>1
      <4> QED BY <2>5, <4>2, <4>3
    <3> HIDE DEF B, T
    <3> QED BY <2>3, <2>4, <3>1, <3>2 DEF StrictSubsetOrdering
  <2>6. B(i) = {}
    BY <2>5
  <2>7. Cardinality(B(i)) = 0
    BY <2>6, FS_EmptySet
  <2>8. i \in FirstOf(S, n)
    BY <2>7 DEF FirstOf
  <2> QED BY <2>8
<1> QED BY <1>2, <1>3 DEF FirstOf

(* A sequence and one more.                                                *)
LEMMA OneMore ==
  ASSUME NEW T, NEW s \in Seq(T), NEW e \in T
  PROVE  /\ Append(s, e) \in Seq(T) /\ Len(s) \in Nat /\ DOMAIN s = 1 .. Len(s)
         /\ DOMAIN Append(s, e) = 1 .. Len(s) + 1 /\ Append(s, e)[Len(s) + 1] = e
         /\ \A i \in DOMAIN s : i \in DOMAIN Append(s, e) /\ Append(s, e)[i] = s[i]
         /\ \A i \in DOMAIN Append(s, e) : i \in DOMAIN s \/ i = Len(s) + 1
OBVIOUS

(* A filter stays what it is, and so does what it says of a record.        *)
LEMMA SameFilter ==
  ASSUME list' = list, filter' = filter
  PROVE  /\ \A r : Matches(r)' <=> Matches(r)
         /\ Matching' = {i \in DOMAIN records' : Matches(records'[i])}
  BY DEF Matches, Wanted, Matching

(* Without a filter on the state an order that changes stays as wanted as  *)
(* it was.                                                                 *)
LEMMA StateAside ==
  ASSUME list = "orders", filter.states = {}, NEW r, NEW q, r.side = q.side
  PROVE  Matches(r) <=> Matches(q)
BY DEF Matches, Wanted, MatchesOrderFilter, EnumListPasses, OptionalPasses, AreaPasses

(* What is published comes last, and a channel that is full says so.       *)
LEMMA PublishedFacts ==
  ASSUME RecordsInv, Len(stream.queue) <= Capacity, NEW r \in ListedRecord
  PROVE  /\ Published(r) \in [on: BOOLEAN, queue: Seq(ListedRecord), lost: BOOLEAN]
         /\ Len(Published(r).queue) <= Capacity /\ Published(r).on = stream.on
         /\ stream.on /\ ~Published(r).lost =>
              ~stream.lost /\ Published(r).queue = Append(stream.queue, r)
         /\ \A n \in DOMAIN Published(r).queue :
              \/ Published(r).queue[n] = r
              \/ \E m \in DOMAIN stream.queue : Published(r).queue[n] = stream.queue[m]
         /\ ~stream.on => Published(r) = stream
<1>1. stream \in [on: BOOLEAN, queue: Seq(ListedRecord), lost: BOOLEAN] /\ Capacity \in Nat \ {0}
  BY ListingAssumption DEF RecordsInv
<1>2. CASE ~stream.on
  BY <1>1, <1>2 DEF Published
<1>3. CASE stream.on
  <2> DEFINE full == Len(stream.queue) = Capacity
             kept == IF full THEN Tail(stream.queue) ELSE stream.queue
  <2>1. /\ kept \in Seq(ListedRecord) /\ Len(kept) < Capacity /\ Len(kept) \in Nat
        /\ \A m \in DOMAIN kept : \E n \in DOMAIN stream.queue : kept[m] = stream.queue[n]
    <3>1. CASE full
      <4>1. /\ stream.queue # << >> /\ kept = Tail(stream.queue) /\ kept \in Seq(ListedRecord)
            /\ Len(kept) = Len(stream.queue) - 1 /\ DOMAIN kept = 1 .. Len(stream.queue) - 1
            /\ \A m \in DOMAIN kept : kept[m] = stream.queue[m + 1]
            /\ DOMAIN stream.queue = 1 .. Len(stream.queue)
        BY <1>1, <3>1
      <4>2. \A m \in DOMAIN kept : m + 1 \in DOMAIN stream.queue
        BY <1>1, <4>1
      <4> QED BY <1>1, <3>1, <4>1, <4>2
    <3>2. CASE ~full
      BY <1>1, <3>2
    <3> QED BY <3>1, <3>2
  <2>2. Published(r) = [on |-> stream.on, queue |-> Append(kept, r), lost |-> stream.lost \/ full]
    BY <1>1, <1>3 DEF Published
  <2>3. /\ Append(kept, r) \in Seq(ListedRecord) /\ Len(Append(kept, r)) = Len(kept) + 1
        /\ \A n \in DOMAIN Append(kept, r) : Append(kept, r)[n] = r
             \/ \E m \in DOMAIN kept : Append(kept, r)[n] = kept[m]
    <3> HIDE DEF kept
    <3>1. Len(Append(kept, r)) = Len(kept) + 1
      BY <2>1
    <3> QED BY <2>1, <3>1, OneMore
  <2>4. Len(kept) + 1 <= Capacity
    BY <1>1, <2>1
  <2>5. ~full => kept = stream.queue
    OBVIOUS
  <2> HIDE DEF full, kept
  <2>6. \A n \in DOMAIN Append(kept, r) :
          Append(kept, r)[n] = r \/ \E m \in DOMAIN stream.queue : Append(kept, r)[n] = stream.queue[m]
    BY <2>1, <2>3
  <2>7. stream.lost \/ full \in BOOLEAN
    BY <1>1 DEF full
  <2> QED BY <1>1, <1>3, <2>2, <2>3, <2>4, <2>5, <2>6, <2>7
<1> QED BY <1>2, <1>3

(* An order that is recorded or changes, and is published.                 *)
LEMMA OrderPublished ==
  ASSUME RecordsInv, StreamInv, Len(stream.queue) <= Capacity, records \in Seq(ListedRecord),
         list = "orders", NEW r \in ListedRecord,
         r.id \in DOMAIN records', records'[r.id] = r, DOMAIN records \subseteq DOMAIN records',
         \A i \in DOMAIN records' : i \in DOMAIN records \/ i = r.id,
         \A i \in DOMAIN records : i # r.id => records'[i] = records[i],
         \A i \in DOMAIN records : records'[i].side = records[i].side /\ records'[i].id = i,
         stream' = Published(r), UNCHANGED <<list, filter, view, walk, token>>
  PROVE  StreamInv'
<1>1. /\ \A n \in DOMAIN stream.queue : IsOrder(stream.queue[n])
      /\ filter.states = {} => DOMAIN view \subseteq Matching
      /\ \A i \in DOMAIN records : records[i].id = i
  BY DEF StreamInv, RecordsInv
<1>2. Matching' = {i \in DOMAIN records' : Matches(records'[i])}
  BY SameFilter
<1>3. ASSUME NEW n \in DOMAIN stream'.queue
      PROVE  /\ stream'.queue[n].id \in DOMAIN records'
             /\ stream'.queue[n].side = records'[stream'.queue[n].id].side
  <2>1. CASE stream'.queue[n] = r
    BY <2>1 DEF IsOrder
  <2>2. CASE \E m \in DOMAIN stream.queue : stream'.queue[n] = stream.queue[m]
    BY <1>1, <2>2 DEF IsOrder
  <2> QED BY <2>1, <2>2, PublishedFacts
<1>4. ASSUME filter'.states = {} PROVE DOMAIN view' \subseteq Matching'
  <2> SUFFICES ASSUME NEW i \in DOMAIN view PROVE i \in Matching'
    OBVIOUS
  <2>1. i \in DOMAIN records /\ Matches(records[i])
    BY <1>1, <1>4 DEF Matching
  <2>2. Matches(records'[i])
    BY <1>4, <2>1, StateAside
  <2> QED BY <1>2, <2>1, <2>2
<1>5. ASSUME stream'.on, ~stream'.lost
      PROVE  /\ \A n \in DOMAIN stream'.queue :
                  LastSaid(n)' => stream'.queue[n] = records'[stream'.queue[n].id]
             /\ \A i \in Matching' : Reached(i)' /\ Silent(i)' => Holds(records[i])'
  <2>1. stream.on /\ ~stream.lost /\ stream'.queue = Append(stream.queue, r)
    BY <1>5, PublishedFacts
  <2>2. stream.queue \in Seq(ListedRecord)
    BY DEF RecordsInv
  <2>3. /\ Len(stream.queue) \in Nat /\ DOMAIN stream.queue = 1 .. Len(stream.queue)
        /\ DOMAIN stream'.queue = 1 .. Len(stream.queue) + 1
        /\ stream'.queue[Len(stream.queue) + 1] = r
        /\ \A n \in DOMAIN stream.queue :
             n \in DOMAIN stream'.queue /\ stream'.queue[n] = stream.queue[n]
        /\ \A n \in DOMAIN stream'.queue : n \in DOMAIN stream.queue \/ n = Len(stream.queue) + 1
    BY <2>1, <2>2, OneMore
  <2>4. /\ \A n \in DOMAIN stream.queue :
             LastSaid(n) => stream.queue[n] = records[stream.queue[n].id]
        /\ \A i \in Matching : Reached(i) /\ Silent(i) => Holds(records[i])
    BY <2>1 DEF StreamInv
  <2>5. ASSUME NEW n \in DOMAIN stream'.queue, LastSaid(n)'
        PROVE  stream'.queue[n] = records'[stream'.queue[n].id]
    <3>1. CASE n = Len(stream.queue) + 1
      BY <2>3, <3>1
    <3>2. CASE n \in DOMAIN stream.queue
      <4>1. stream'.queue[n] = stream.queue[n] /\ stream.queue[n].id # r.id
        <5>1. n < Len(stream.queue) + 1 /\ Len(stream.queue) + 1 \in DOMAIN stream'.queue
          BY <2>3, <3>2
        <5> QED BY <2>3, <2>5, <3>2, <5>1, SMTT(20), ZenonT(20) DEF LastSaid
      <4>2. LastSaid(n)
        BY <2>3, <2>5, <3>2 DEF LastSaid
      <4>3. stream.queue[n].id \in DOMAIN records
        BY <1>1, <3>2 DEF IsOrder
      <4> QED BY <2>4, <3>2, <4>1, <4>2, <4>3
    <3> QED BY <2>3, <3>1, <3>2
  <2>6. ASSUME NEW i \in Matching', Reached(i)', Silent(i)' PROVE Holds(records[i])'
    <3>1. i # r.id
      <4>1. Len(stream.queue) + 1 \in DOMAIN stream'.queue
        BY <2>3
      <4> QED BY <2>3, <2>6, <4>1 DEF Silent
    <3>2. i \in DOMAIN records /\ records'[i] = records[i] /\ Matches(records[i])
      BY <1>2, <2>6, <3>1
    <3>3. Silent(i) /\ Reached(i) /\ i \in Matching
      BY <2>3, <2>6, <3>2 DEF Silent, Reached, Matching
    <3>4. Holds(records[i])
      BY <2>4, <3>3
    <3> QED BY <3>2, <3>4 DEF Holds
  <2> QED BY <2>5, <2>6
<1> QED BY <1>3, <1>4, <1>5 DEF StreamInv, IsOrder

(* What a record is by now the walk does not look at, beyond its id.       *)
LEMMA WalkUndisturbed ==
  ASSUME WalkInv, UNCHANGED <<list, filter, walk, token, returned>>,
         \A i \in DOMAIN records : i \in DOMAIN records' /\ records'[i].id = records[i].id,
         steady' \subseteq steady, \A i \in steady' : Matches(records'[i])
  PROVE  WalkInv'
<1>1. Returned' = Returned
  BY DEF Returned
<1>2. Matching \subseteq DOMAIN records
  BY DEF Matching
<1>3. steady' \subseteq Matching' /\ steady' \subseteq DOMAIN records
  <2>1. Matching' = {i \in DOMAIN records' : Matches(records'[i])}
    BY SameFilter
  <2> QED BY <1>2, <2>1 DEF WalkInv
<1>4. Returned \subseteq DOMAIN records /\ Ids(Returned)' = Ids(Returned)
  BY <1>1 DEF WalkInv, Ids
<1>5. ReturnedOnce'
  BY DEF WalkInv, ReturnedOnce
<1>6. ASSUME NEW i \in steady', Reached(i)' PROVE records'[i].id \in Ids(Returned)'
  <2>1. records'[i].id = records[i].id /\ Reached(i)
    BY <1>3, <1>6 DEF Reached
  <2> QED BY <1>4, <2>1 DEF WalkInv
<1>7. \A i \in Returned' : records'[i].id = records[i].id /\ i \in DOMAIN records'
  BY <1>1, <1>4
<1> QED BY <1>1, <1>3, <1>4, <1>5, <1>6, <1>7 DEF WalkInv

(* What the pages hold together, with one page more.                       *)
LEMMA OnePageMore ==
  ASSUME returned \in Seq(SUBSET Position), NEW page \in SUBSET Position,
         returned' = Append(returned, page)
  PROVE  /\ returned' \in Seq(SUBSET Position)
         /\ Returned' = Returned \cup page
         /\ ReturnedOnce /\ page \cap Returned = {} => ReturnedOnce'
<1>1. /\ returned' \in Seq(SUBSET Position) /\ Len(returned) \in Nat
      /\ DOMAIN returned = 1 .. Len(returned)
      /\ DOMAIN returned' = 1 .. Len(returned) + 1 /\ returned'[Len(returned) + 1] = page
      /\ \A i \in DOMAIN returned : i \in DOMAIN returned' /\ returned'[i] = returned[i]
      /\ \A i \in DOMAIN returned' : i \in DOMAIN returned \/ i = Len(returned) + 1
  BY OneMore
<1>2. /\ Returned = UNION {returned[i] : i \in DOMAIN returned}
      /\ Returned' = UNION {returned'[i] : i \in DOMAIN returned'}
  BY DEF Returned, ToSet
<1>3. Returned' = Returned \cup page
  <2>1. Len(returned) + 1 \in DOMAIN returned'
    BY <1>1
  <2>2. \A x : x \in Returned' <=> x \in Returned \/ x \in page
    BY <1>1, <1>2, <2>1
  <2> QED BY <2>2
<1>4. ASSUME ReturnedOnce, page \cap Returned = {}, NEW m \in DOMAIN returned',
             NEW n \in DOMAIN returned', m # n
      PROVE  returned'[m] \cap returned'[n] = {}
  <2>1. \A i \in DOMAIN returned : returned[i] \subseteq Returned
    BY <1>2
  <2>2. CASE m \in DOMAIN returned /\ n \in DOMAIN returned
    BY <1>1, <1>4, <2>2 DEF ReturnedOnce
  <2>3. CASE m = Len(returned) + 1 /\ n \in DOMAIN returned
    BY <1>1, <1>4, <2>1, <2>3
  <2>4. CASE n = Len(returned) + 1 /\ m \in DOMAIN returned
    BY <1>1, <1>4, <2>1, <2>4
  <2> QED BY <1>1, <1>4, <2>2, <2>3, <2>4
<1> QED BY <1>1, <1>3, <1>4 DEF ReturnedOnce

(* The exchange records an order or a trade.                               *)
LEMMA NewFacts ==
  ASSUME ListingTypeOK, RecordsInv, NEW side \in Sides, Len(records) < MaxRecords
  PROVE  /\ NewRecord(side) \in ListedRecord /\ NewRecord(side).side = side
         /\ NewRecord(side).id <= Len(records) + 1
         /\ \A i \in DOMAIN records : records[i].id < NewRecord(side).id
         /\ list = "orders" => NewRecord(side).id = Len(records) + 1
<1>1. records \in Seq(ListedRecord) /\ Len(records) \in Nat /\ DOMAIN records = 1 .. Len(records)
      /\ MaxRecords \in Nat
  BY ListingAssumption DEF ListingTypeOK, ListedRecord
<1>0. \A i \in DOMAIN records : records[i].id \in Position
  <2>1. \A i \in DOMAIN records : records[i] \in ListedRecord
    BY <1>1
  <2> QED BY <2>1 DEF ListedRecord
<1>2. CASE records = << >>
  BY <1>1, <1>2 DEF NewRecord, LastId, None, ListedRecord, Position, Sides, OrderStates
<1>3. CASE records # << >>
  <2>1. Len(records) \in DOMAIN records /\ LastId = records[Len(records)].id
    BY <1>1, <1>3 DEF LastId, Last
  <2>2. LastId \in Position /\ LastId <= Len(records)
        /\ (list = "orders" => LastId = Len(records))
    BY <1>0, <2>1 DEF RecordsInv
  <2>3. ASSUME NEW i \in DOMAIN records PROVE records[i].id <= LastId /\ records[i].id \in Int
    <3>1. i = Len(records) \/ i < Len(records)
      BY <1>1
    <3>2. records[i].id \in Position
      BY <1>0
    <3>3. records[i].id \in Int /\ LastId \in Int
      BY <2>2, <3>2 DEF Position
    <3>4. i < Len(records) => records[i].id <= records[Len(records)].id
      BY <2>1 DEF RecordsInv
    <3> QED BY <2>1, <3>1, <3>3, <3>4
  <2>4. LastId + 1 \in Position /\ LastId \in Int
    <3> DEFINE k == LastId
               n == Len(records)
    <3>0. k \in Position /\ k <= n /\ n \in Nat /\ n < MaxRecords /\ MaxRecords \in Nat
      BY <1>1, <2>2
    <3> HIDE DEF k, n
    <3>2. k \in Int /\ k >= 1 /\ k + 1 <= MaxRecords
      BY <3>0 DEF Position
    <3>1. LastId \in Int /\ LastId >= 1 /\ LastId + 1 <= MaxRecords
      BY <3>2 DEF k
    <3> QED BY <1>1, <3>1 DEF Position
  <2>5. /\ NewRecord(side).id = LastId + 1 /\ NewRecord(side).side = side
        /\ NewRecord(side) \in ListedRecord
    BY <2>4 DEF NewRecord, ListedRecord, Sides, OrderStates
  <2>6. \A i \in DOMAIN records : records[i].id < LastId + 1
    BY <2>3, <2>4
  <2>7. LastId + 1 <= Len(records) + 1 /\ (list = "orders" => LastId + 1 = Len(records) + 1)
    <3> DEFINE k == LastId
               n == Len(records)
    <3>0. k \in Int /\ n \in Int /\ k <= n /\ (list = "orders" => k = n)
      <4>1. n \in Nat /\ k <= n /\ (list = "orders" => k = n)
        BY <1>1, <2>2
      <4> QED BY <2>4, <4>1
    <3> HIDE DEF k, n
    <3>1. k + 1 <= n + 1 /\ (list = "orders" => k + 1 = n + 1)
      BY <3>0
    <3> QED BY <3>1 DEF k, n
  <2> QED BY <2>5, <2>6, <2>7
<1> QED BY <1>2, <1>3

LEMMA RecordStep ==
  ASSUME ListingInv, NEW side \in Sides, Record(side)
  PROVE  ListingInv'
<1> DEFINE r == NewRecord(side)
           k == Len(records)
<1>1. ListingTypeOK /\ RecordsInv /\ WalkInv /\ StreamInv
  BY DEF ListingInv
<1>2. /\ k < MaxRecords /\ records' = Append(records, r) /\ stream' = Published(r)
      /\ UNCHANGED <<list, filter, walk, token, returned, steady, view>>
  BY DEF Record
<1>3. /\ r \in ListedRecord /\ r.side = side /\ r.id <= k + 1
      /\ \A i \in DOMAIN records : records[i].id < r.id
      /\ list = "orders" => r.id = k + 1
  BY <1>1, <1>2, NewFacts
<1>4. records \in Seq(ListedRecord) /\ Len(stream.queue) <= Capacity
  BY <1>1 DEF ListingTypeOK, ListedRecord
<1> HIDE DEF r
<1>5. /\ records' \in Seq(ListedRecord) /\ k \in Nat /\ DOMAIN records = 1 .. k
      /\ DOMAIN records' = 1 .. k + 1 /\ records'[k + 1] = r
      /\ \A i \in DOMAIN records : i \in DOMAIN records' /\ records'[i] = records[i]
      /\ \A i \in DOMAIN records' : i \in DOMAIN records \/ i = k + 1
      /\ Len(records') = k + 1
  <2>1. Len(Append(records, r)) = Len(records) + 1
    BY <1>3, <1>4
  <2> QED BY <1>2, <1>3, <1>4, <2>1, OneMore
<1> HIDE DEF k
<1>6. ListingTypeOK'
  <2>1. Len(records') <= MaxRecords
    BY <1>2, <1>5, ListingAssumption
  <2>2. Len(stream'.queue) <= Capacity
    BY <1>1, <1>2, <1>3, <1>4, PublishedFacts
  <2>3. records' \in Seq([id: Position, side: Sides, state: OrderStates])
    BY <1>5 DEF ListedRecord
  <2>4. Returned' = Returned
    BY <1>2 DEF Returned
  <2> QED BY <1>1, <1>2, <2>1, <2>2, <2>3, <2>4 DEF ListingTypeOK
<1>7. RecordsInv'
  <2>1. /\ stream' \in [on: BOOLEAN, queue: Seq(ListedRecord), lost: BOOLEAN]
        /\ stream'.on = stream.on /\ (~stream.on => stream' = stream)
    BY <1>1, <1>2, <1>3, <1>4, PublishedFacts
  <2>2. \A i \in DOMAIN records' : records'[i].id <= i
    BY <1>1, <1>3, <1>5 DEF RecordsInv
  <2>3. ASSUME NEW i \in DOMAIN records', NEW j \in DOMAIN records', i < j
        PROVE  records'[i].id <= records'[j].id
    <3>1. i \in DOMAIN records
      BY <1>5, <2>3
    <3>2. CASE j \in DOMAIN records
      BY <1>1, <1>5, <2>3, <3>1, <3>2 DEF RecordsInv
    <3>3. CASE j = k + 1
      <4>1. records[i] \in ListedRecord
        BY <1>4, <3>1
      <4>2. records[i].id \in Int /\ r.id \in Int
        BY <1>3, <4>1 DEF ListedRecord, Position
      <4> QED BY <1>3, <1>5, <3>1, <3>3, <4>2
    <3> QED BY <1>5, <3>2, <3>3
  <2>4. list' = "orders" => \A i \in DOMAIN records' : records'[i].id = i
    BY <1>1, <1>2, <1>3, <1>5 DEF RecordsInv
  <2> QED BY <1>1, <1>2, <2>1, <2>2, <2>3, <2>4 DEF RecordsInv
<1>8. WalkInv'
  <2>1. \A i \in steady : i \in DOMAIN records /\ Matches(records[i])
    BY <1>1 DEF WalkInv, Matching
  <2>2. \A i \in steady' : Matches(records'[i])
    BY <1>2, <1>5, <2>1
  <2> QED BY <1>1, <1>2, <1>5, <2>2, WalkUndisturbed
<1>9. StreamInv'
  <2>1. CASE list = "orders"
    <3>1. \A i \in DOMAIN records : records[i].id = i
      BY <1>1, <2>1 DEF RecordsInv
    <3>2. r.id = k + 1
      BY <1>3, <2>1
    <3>3. \A i \in DOMAIN records : records'[i].side = records[i].side /\ records'[i].id = i
      BY <1>5, <3>1
    <3> QED BY <1>1, <1>2, <1>3, <1>4, <1>5, <2>1, <3>2, <3>3, OrderPublished
  <2>2. CASE list # "orders"
    BY <1>2, <2>2 DEF StreamInv
  <2> QED BY <2>1, <2>2
<1> QED BY <1>6, <1>7, <1>8, <1>9 DEF ListingInv

LEMMA BothSidesStep ==
  ASSUME ListingInv, RecordBothSides
  PROVE  ListingInv'
<1> DEFINE r == NewRecord(1)
           q == NewRecord(2)
           k == Len(records)
<1>1. ListingTypeOK /\ RecordsInv /\ WalkInv /\ StreamInv
  BY DEF ListingInv
<1>2. /\ list = "trades" /\ k + 1 < MaxRecords /\ records' = records \o <<r, q>>
      /\ UNCHANGED <<list, filter, walk, token, returned, steady, stream, view>>
  BY DEF RecordBothSides
<1>3. records \in Seq(ListedRecord) /\ k \in Nat
  BY <1>1 DEF ListingTypeOK, ListedRecord
<1>4. /\ r \in ListedRecord /\ q \in ListedRecord /\ r.id = q.id /\ r.id <= k + 1
      /\ \A i \in DOMAIN records : records[i].id < r.id
  <2>1. k < MaxRecords
    BY <1>2, <1>3, ListingAssumption
  <2>2. r.id = q.id
    BY DEF NewRecord
  <2> QED BY <1>1, <2>1, <2>2, NewFacts DEF Sides
<1> HIDE DEF r, q
<1>5. /\ records' \in Seq(ListedRecord) /\ DOMAIN records = 1 .. k
      /\ DOMAIN records' = 1 .. k + 2 /\ records'[k + 1] = r /\ records'[k + 2] = q
      /\ \A i \in DOMAIN records : i \in DOMAIN records' /\ records'[i] = records[i]
      /\ \A i \in DOMAIN records' : i \in DOMAIN records \/ i = k + 1 \/ i = k + 2
      /\ Len(records') = k + 2
  <2> DEFINE more == <<r, q>>
  <2>1. more \in Seq(ListedRecord) /\ Len(more) = 2 /\ more[1] = r /\ more[2] = q
    BY <1>4
  <2> HIDE DEF more
  <2>2. records' = records \o more
    BY <1>2 DEF more
  <2>0. /\ records \o more \in Seq(ListedRecord)
        /\ Len(records \o more) = Len(records) + Len(more)
        /\ \A i \in 1 .. Len(records) + Len(more) : (records \o more)[i] =
             IF i <= Len(records) THEN records[i] ELSE more[i - Len(records)]
    BY <1>3, <2>1, ConcatProperties
  <2>3. Len(records') = k + 2 /\ records' \in Seq(ListedRecord) /\ DOMAIN records = 1 .. k
    BY <1>3, <2>0, <2>1, <2>2
  <2>4. DOMAIN records' = 1 .. k + 2
    BY <2>3
  <2>5. \A i \in 1 .. k + 2 : records'[i] = IF i <= k THEN records[i] ELSE more[i - k]
    BY <2>0, <2>1, <2>2
  <2> HIDE DEF k
  <2>6. k + 1 \in 1 .. k + 2 /\ k + 2 \in 1 .. k + 2 /\ ~(k + 1 <= k) /\ ~(k + 2 <= k)
        /\ (k + 1) - k = 1 /\ (k + 2) - k = 2
    BY <1>3
  <2>7. records'[k + 1] = r /\ records'[k + 2] = q
    BY <2>1, <2>5, <2>6
  <2>8. \A i \in DOMAIN records' : i \in DOMAIN records \/ i = k + 1 \/ i = k + 2
    BY <1>3, <2>3, <2>4
  <2>9. \A i \in DOMAIN records : i \in DOMAIN records' /\ records'[i] = records[i]
    BY <1>3, <2>3, <2>4, <2>5
  <2> QED BY <2>3, <2>4, <2>7, <2>8, <2>9
<1> HIDE DEF k
<1>6. ListingTypeOK'
  <2>1. Len(records') <= MaxRecords
    BY <1>2, <1>3, <1>5, ListingAssumption
  <2>3. records' \in Seq([id: Position, side: Sides, state: OrderStates])
    BY <1>5 DEF ListedRecord
  <2>4. Returned' = Returned
    BY <1>2 DEF Returned
  <2> QED BY <1>1, <1>2, <2>1, <2>3, <2>4 DEF ListingTypeOK
<1>7. RecordsInv'
  <2>1. r.id \in Int /\ \A i \in DOMAIN records : records[i].id \in Int
    <3>1. \A i \in DOMAIN records : records[i] \in ListedRecord
      BY <1>3
    <3> QED BY <1>4, <3>1 DEF ListedRecord, Position
  <2>2. \A i \in DOMAIN records' : records'[i].id <= i
    <3>1. \A i \in DOMAIN records : records[i].id <= i
      BY <1>1 DEF RecordsInv
    <3> QED BY <1>3, <1>4, <1>5, <2>1, <3>1
  <2>3. ASSUME NEW i \in DOMAIN records', NEW j \in DOMAIN records', i < j
        PROVE  records'[i].id <= records'[j].id
    <3>1. CASE j \in DOMAIN records
      <4>1. i \in DOMAIN records
        BY <1>3, <1>5, <2>3, <3>1
      <4> QED BY <1>1, <1>5, <2>3, <3>1, <4>1 DEF RecordsInv
    <3>2. CASE j = k + 1 \/ j = k + 2
      <4>1. records'[j].id = r.id
        BY <1>4, <1>5, <3>2
      <4>2. CASE i \in DOMAIN records
        BY <1>4, <1>5, <2>1, <4>1, <4>2
      <4>3. CASE i = k + 1 \/ i = k + 2
        <5>1. records'[i].id = r.id
          BY <1>4, <1>5, <4>3
        <5> QED BY <2>1, <4>1, <5>1
      <4> QED BY <1>5, <4>2, <4>3
    <3> QED BY <1>5, <3>1, <3>2
  <2> QED BY <1>1, <1>2, <2>2, <2>3 DEF RecordsInv
<1>8. WalkInv'
  <2>1. \A i \in steady : i \in DOMAIN records /\ Matches(records[i])
    BY <1>1 DEF WalkInv, Matching
  <2>2. \A i \in steady' : Matches(records'[i])
    BY <1>2, <1>5, <2>1
  <2> QED BY <1>1, <1>2, <1>5, <2>2, WalkUndisturbed
<1>9. StreamInv'
  BY <1>2 DEF StreamInv
<1> QED BY <1>6, <1>7, <1>8, <1>9 DEF ListingInv

(* An order is filled.                                                     *)
LEMMA ChangeStep ==
  ASSUME ListingInv, NEW i \in DOMAIN records, Change(i)
  PROVE  ListingInv'
<1> DEFINE r == [records[i] EXCEPT !.state = 3]
<1>1. ListingTypeOK /\ RecordsInv /\ WalkInv /\ StreamInv
  BY DEF ListingInv
<1>2. /\ list = "orders" /\ records' = [records EXCEPT ![i] = r] /\ stream' = Published(r)
      /\ steady' = (IF Matches(r) THEN steady ELSE steady \ {i})
      /\ UNCHANGED <<list, filter, walk, token, returned, view>>
  BY DEF Change
<1>3. records \in Seq(ListedRecord) /\ Len(stream.queue) <= Capacity
  BY <1>1 DEF ListingTypeOK, ListedRecord
<1>4. r \in ListedRecord /\ r.side = records[i].side /\ r.id = i
  <2>1. records[i] \in ListedRecord /\ records[i].id = i
    BY <1>1, <1>2, <1>3 DEF RecordsInv
  <2> QED BY <2>1 DEF ListedRecord, OrderStates
<1> HIDE DEF r
<1>5. /\ records' \in Seq(ListedRecord) /\ DOMAIN records' = DOMAIN records
      /\ Len(records') = Len(records) /\ records'[i] = r
      /\ \A j \in DOMAIN records : j # i => records'[j] = records[j]
  BY <1>2, <1>3, <1>4
<1>6. \A j \in DOMAIN records : /\ records'[j].side = records[j].side
                                 /\ records'[j].id = j /\ records[j].id = j
  BY <1>1, <1>2, <1>4, <1>5 DEF RecordsInv
<1>7. ListingTypeOK'
  <2>1. Len(stream'.queue) <= Capacity
    BY <1>1, <1>2, <1>3, <1>4, PublishedFacts
  <2>2. records' \in Seq([id: Position, side: Sides, state: OrderStates])
    BY <1>5 DEF ListedRecord
  <2>3. Returned' = Returned
    BY <1>2 DEF Returned
  <2>4. steady' \subseteq steady
    BY <1>2
  <2> QED BY <1>1, <1>2, <1>5, <2>1, <2>2, <2>3, <2>4 DEF ListingTypeOK
<1>8. RecordsInv'
  <2>1. /\ stream' \in [on: BOOLEAN, queue: Seq(ListedRecord), lost: BOOLEAN]
        /\ stream'.on = stream.on /\ (~stream.on => stream' = stream)
    BY <1>1, <1>2, <1>3, <1>4, PublishedFacts
  <2> QED BY <1>1, <1>2, <1>5, <1>6, <2>1 DEF RecordsInv
<1>9. WalkInv'
  <2>1. \A j \in steady : j \in DOMAIN records /\ Matches(records[j])
    BY <1>1 DEF WalkInv, Matching
  <2>2. ASSUME NEW j \in steady' PROVE Matches(records'[j])
    <3>1. CASE j = i
      BY <1>2, <1>5, <2>2, <3>1
    <3>2. CASE j # i
      BY <1>2, <1>5, <2>1, <2>2, <3>2
    <3> QED BY <3>1, <3>2
  <2>3. steady' \subseteq steady
    BY <1>2
  <2> QED BY <1>1, <1>2, <1>5, <1>6, <2>2, <2>3, WalkUndisturbed
<1>10. StreamInv'
  <2>1. r.id \in DOMAIN records' /\ records'[r.id] = r /\ DOMAIN records \subseteq DOMAIN records'
    BY <1>4, <1>5
  <2>2. /\ \A j \in DOMAIN records' : j \in DOMAIN records \/ j = r.id
        /\ \A j \in DOMAIN records : j # r.id => records'[j] = records[j]
        /\ \A j \in DOMAIN records : records'[j].side = records[j].side /\ records'[j].id = j
    BY <1>4, <1>5, <1>6
  <2> QED BY <1>1, <1>2, <1>3, <1>4, <2>1, <2>2, OrderPublished
<1> QED BY <1>7, <1>8, <1>9, <1>10 DEF ListingInv

(* What the client holds once it is told of some records, each of an order *)
(* of its own, or of a single one.                                         *)
LEMMA ToldFacts ==
  ASSUME NEW rs, \A r, q \in rs : r.id = q.id => r = q
  PROVE  /\ DOMAIN Told(rs) = {r.id : r \in rs} \cup DOMAIN view
         /\ \A r \in rs : Told(rs)[r.id] = r.state
         /\ \A n \in DOMAIN view : n \notin {r.id : r \in rs} => Told(rs)[n] = view[n]
<1> DEFINE ids == {r.id : r \in rs}
           its(n) == CHOOSE r \in rs : r.id = n
<1>1. Told(rs) = [n \in ids \cup DOMAIN view |-> IF n \in ids THEN its(n).state ELSE view[n]]
  BY DEF Told
<1>2. \A r \in rs : r.id \in ids /\ its(r.id) = r
  OBVIOUS
<1> HIDE DEF its
<1> QED BY <1>1, <1>2

(* A page: what it adds lies past the cursor, and up to its own cursor all *)
(* that was past the old one is on it.                                     *)
LEMMA PageStep ==
  ASSUME ListingInv, NEW size \in 1 .. MaxPageSize, NEW last \in 0 .. MaxRecords,
         Page(size, last), steady' \subseteq Matching,
         \A i \in Returned : records[i].id <= last,
         \A i \in steady' : records[i].id <= last => records[i].id \in Ids(Returned),
         list = "orders" => \A i \in Matching : records[i].id <= last => Reached(i)
  PROVE  ListingInv'
<1> DEFINE past == PastCursor(last)
           page == FirstOf(past, size)
           more == page # past /\ page # {}
           m == Max(page)
           told == {records[i] : i \in page}
<1>1. ListingTypeOK /\ RecordsInv /\ WalkInv /\ StreamInv
  BY DEF ListingInv
<1>2. /\ returned' = Append(returned, page)
      /\ token' = (IF more THEN [size |-> size, last |-> records[m].id]
                           ELSE [size |-> 0, last |-> None])
      /\ walk' = (IF more THEN "walking" ELSE "done")
      /\ view' = Told(told)
      /\ UNCHANGED <<list, filter, records, stream>>
  BY DEF Page
<1>3. /\ Len(records) \in Nat /\ DOMAIN records = 1 .. Len(records)
      /\ \A i \in DOMAIN records : i \in Position /\ i \in Int
      /\ \A i \in DOMAIN records : records[i].id \in Position /\ records[i].id \in Int
  <2>1. records \in Seq(ListedRecord) /\ Len(records) <= MaxRecords /\ MaxRecords \in Nat
    BY <1>1, ListingAssumption DEF ListingTypeOK, ListedRecord
  <2>2. \A i \in DOMAIN records : records[i] \in ListedRecord
    BY <2>1
  <2>3. Len(records) \in Nat /\ DOMAIN records = 1 .. Len(records)
    BY <2>1
  <2>4. \A i \in DOMAIN records : i \in Position /\ i \in Int
    BY <2>1, <2>3 DEF Position
  <2> QED BY <2>2, <2>3, <2>4 DEF ListedRecord, Position
<1>4. /\ past = {i \in Matching : records[i].id > last}
      /\ past \subseteq Matching /\ Matching \subseteq DOMAIN records
  BY DEF PastCursor, Matching
<1>5. /\ page \subseteq past
      /\ \A i \in page, j \in past : j < i => j \in page
      /\ past # {} => page # {}
  <2>1. size \in Nat \ {0} /\ past \in SUBSET (1 .. Len(records))
    BY <1>3, <1>4, ListingAssumption
  <2> HIDE DEF past
  <2> QED BY <1>3, <2>1, FirstAreFirst
<1>6. ASSUME more PROVE m \in page /\ \A j \in page : j <= m
  <2>1. page \in SUBSET (1 .. Len(records)) /\ page # {}
    BY <1>3, <1>4, <1>5, <1>6
  <2> HIDE DEF page
  <2> QED BY <1>3, <2>1, GreatestIsIn
<1>7. last \in Int
  OBVIOUS
<1> HIDE DEF past, page, m
<1>8. /\ returned' \in Seq(SUBSET Position) /\ Returned' = Returned \cup page /\ ReturnedOnce'
  <2>1. page \in SUBSET Position /\ returned \in Seq(SUBSET Position) /\ ReturnedOnce
    BY <1>1, <1>3, <1>4, <1>5 DEF WalkInv
  <2>2. page \cap Returned = {}
    <3>1. ASSUME NEW i \in page, i \in Returned PROVE FALSE
      <4>1. records[i].id > last /\ records[i].id <= last /\ records[i].id \in Int
        BY <1>3, <1>4, <1>5, <3>1
      <4> QED BY <1>7, <4>1
    <3> QED BY <3>1
  <2> QED BY <1>2, <2>1, <2>2, OnePageMore
<1>9. Ids(Returned)' = Ids(Returned) \cup {records[j].id : j \in page}
  BY <1>2, <1>8 DEF Ids
<1>10. ASSUME NEW i \in past, Reached(i)'
       PROVE  /\ records[i].id \in {records[j].id : j \in page}
              /\ list = "orders" => i \in page
  <2>1. CASE more
    <3>1. m \in page /\ records[i].id <= records[m].id
      BY <1>2, <1>6, <1>10, <2>1 DEF Reached
    <3>2. i \in DOMAIN records /\ m \in DOMAIN records /\ m \in past
      BY <1>4, <1>5, <3>1
    <3>3. CASE i <= m
      <4>1. i < m \/ i = m
        BY <1>3, <3>2, <3>3
      <4>2. i \in page
        BY <1>5, <3>1, <4>1
      <4> QED BY <4>2
    <3>4. CASE m < i
      <4>1. records[m].id <= records[i].id
        BY <1>1, <3>2, <3>4 DEF RecordsInv
      <4>2. records[m].id = records[i].id
        BY <1>3, <3>1, <3>2, <4>1
      <4>3. list # "orders"
        <5>1. list = "orders" => records[m].id = m /\ records[i].id = i
          BY <1>1, <3>2 DEF RecordsInv
        <5> QED BY <1>3, <3>2, <3>4, <4>2, <5>1
      <4> QED BY <3>1, <4>2, <4>3
    <3> QED BY <1>3, <3>2, <3>3, <3>4
  <2>2. CASE ~more
    BY <1>5, <2>2
  <2> QED BY <2>1, <2>2
<1>11. more => records[m].id \in Position /\ records[m].id > last /\ m \in DOMAIN records
  BY <1>3, <1>4, <1>5, <1>6
<1>12. ListingTypeOK'
  <2>1. size \in 0 .. MaxPageSize /\ size > 0 /\ 0 \in 0 .. MaxPageSize /\ 0 \in 0 .. MaxRecords
    BY ListingAssumption
  <2>2. more => records[m].id \in 0 .. MaxRecords
    BY <1>11, ListingAssumption DEF Position
  <2>3. /\ walk' \in {"idle", "walking", "done"}
        /\ token'.size \in 0 .. MaxPageSize /\ token'.last \in 0 .. MaxRecords
        /\ walk' = "walking" <=> token'.size > 0
    <3>1. CASE more
      BY <1>2, <2>1, <2>2, <3>1
    <3>2. CASE ~more
      BY <1>2, <2>1, <3>2 DEF None
    <3> QED BY <3>1, <3>2
  <2>4. Returned' \subseteq Position /\ steady' \subseteq Position
    BY <1>1, <1>3, <1>4, <1>5, <1>8 DEF ListingTypeOK
  <2>5. DOMAIN view' \subseteq Position
    <3>1. DOMAIN view' = {r.id : r \in told} \cup DOMAIN view
      BY <1>2 DEF Told
    <3>2. {r.id : r \in told} \subseteq Position
      BY <1>3, <1>4, <1>5
    <3> QED BY <1>1, <3>1, <3>2 DEF ListingTypeOK
  <2> QED BY <1>1, <1>2, <2>3, <2>4, <2>5 DEF ListingTypeOK
<1>13. RecordsInv'
  BY <1>1, <1>2 DEF RecordsInv
<1>14. Matching' = Matching
  BY <1>2, SameFilter DEF Matching
<1>15. WalkInv'
  <2>1. Returned' \subseteq DOMAIN records' /\ walk' # "idle" /\ steady' \subseteq Matching'
    BY <1>1, <1>2, <1>4, <1>5, <1>8, <1>14 DEF WalkInv
  <2>2. ASSUME walk' = "walking", NEW i \in Returned' PROVE records'[i].id <= token'.last
    <3>1. more /\ token'.last = records[m].id
      BY <1>2, <2>2
    <3>2. CASE i \in page
      <4>1. i \in DOMAIN records /\ i <= m /\ m \in DOMAIN records
        BY <1>4, <1>5, <1>6, <3>1, <3>2
      <4>2. i < m \/ i = m
        BY <1>3, <4>1
      <4>3. records[i].id <= records[m].id
        BY <1>1, <1>3, <4>1, <4>2 DEF RecordsInv
      <4> QED BY <1>2, <3>1, <4>3
    <3>3. CASE i \in Returned
      <4>1. records[i].id <= last /\ i \in DOMAIN records
        BY <1>1, <3>3 DEF WalkInv
      <4>2. records[i].id <= records[m].id
        BY <1>3, <1>7, <1>11, <3>1, <4>1
      <4> QED BY <1>2, <3>1, <4>2
    <3> QED BY <1>8, <2>2, <3>2, <3>3
  <2>3. ASSUME NEW i \in steady', Reached(i)' PROVE records'[i].id \in Ids(Returned)'
    <3>1. CASE records[i].id <= last
      BY <1>2, <1>9, <2>3, <3>1
    <3>2. CASE records[i].id > last
      BY <1>2, <1>4, <1>9, <1>10, <2>3, <3>2
    <3> QED BY <1>3, <1>4, <1>7, <3>1, <3>2
  <2> QED BY <1>8, <2>1, <2>2, <2>3 DEF WalkInv
<1>16. StreamInv'
  <2> SUFFICES ASSUME list = "orders" PROVE StreamInv'
    BY <1>2 DEF StreamInv
  <2>1. /\ \A i \in DOMAIN records : records[i].id = i
        /\ \A n \in DOMAIN stream.queue : IsOrder(stream.queue[n])
        /\ filter.states = {} => DOMAIN view \subseteq Matching
    BY <1>1 DEF RecordsInv, StreamInv
  <2>2. \A r, q \in told : r.id = q.id => r = q
    BY <1>4, <1>5, <2>1
  <2>3. {r.id : r \in told} = page
    BY <1>4, <1>5, <2>1
  <2> HIDE DEF told
  <2>4. /\ DOMAIN view' = page \cup DOMAIN view
        /\ \A r \in told : view'[r.id] = r.state
        /\ \A n \in DOMAIN view : n \notin page => view'[n] = view[n]
    BY <1>2, <2>2, <2>3, ToldFacts
  <2>5. \A i \in page : view'[i] = records[i].state
    BY <1>4, <1>5, <2>1, <2>4 DEF told
  <2>6. \A n \in DOMAIN stream.queue : IsOrder(stream.queue[n])'
    BY <1>2, <2>1 DEF IsOrder
  <2>7. filter'.states = {} => DOMAIN view' \subseteq Matching'
    BY <1>2, <1>4, <1>5, <1>14, <2>1, <2>4
  <2>8. ASSUME stream.on, ~stream.lost
        PROVE  /\ \A n \in DOMAIN stream.queue :
                    LastSaid(n) => stream.queue[n] = records[stream.queue[n].id]
               /\ \A i \in Matching : Reached(i)' /\ Silent(i) =>
                    i \in DOMAIN view' /\ view'[i] = records[i].state
    <3>1. /\ \A n \in DOMAIN stream.queue :
               LastSaid(n) => stream.queue[n] = records[stream.queue[n].id]
          /\ \A i \in Matching : Reached(i) /\ Silent(i) => Holds(records[i])
      BY <1>1, <2>8 DEF StreamInv
    <3>2. ASSUME NEW i \in Matching, Reached(i)', Silent(i)
          PROVE  i \in DOMAIN view' /\ view'[i] = records[i].state
      <4>1. i \in DOMAIN records /\ records[i].id = i
        BY <1>4, <2>1
      <4>2. CASE i \in page
        BY <2>4, <2>5, <4>2
      <4>3. CASE i \notin page
        <5>1. records[i].id <= last
          <6>1. records[i].id > last => i \in past
            BY <1>4
          <6>2. i \notin past
            BY <1>10, <3>2, <4>3
          <6> QED BY <1>3, <1>7, <4>1, <6>1, <6>2
        <5>2. Holds(records[i])
          BY <3>1, <3>2, <5>1
        <5> QED BY <2>4, <4>1, <4>3, <5>2 DEF Holds
      <4> QED BY <4>2, <4>3
    <3> QED BY <3>1, <3>2
  <2>9. /\ \A n : LastSaid(n)' <=> LastSaid(n)
        /\ \A i : Silent(i)' <=> Silent(i)
    BY <1>2 DEF LastSaid, Silent
  <2>10. \A i \in Matching : Holds(records[i])' <=>
            i \in DOMAIN view' /\ view'[i] = records[i].state
    BY <1>2, <1>4, <2>1 DEF Holds
  <2>11. stream' = stream /\ records' = records /\ list' = list
    BY <1>2
  <2> QED BY <1>14, <2>6, <2>7, <2>8, <2>9, <2>10, <2>11 DEF StreamInv, IsOrder
<1> QED BY <1>12, <1>13, <1>15, <1>16 DEF ListingInv

LEMMA FirstPageStep ==
  ASSUME ListingInv, NEW sz \in Requested, FirstPage(sz)
  PROVE  ListingInv'
<1>1. walk = "idle" /\ Page(PageSize(sz), None) /\ steady' = Matching
  BY DEF FirstPage
<1>2. PageSize(sz) \in 1 .. MaxPageSize /\ None \in 0 .. MaxRecords
  BY ListingAssumption DEF PageSize, Min2, None
<1>3. Returned = {}
  BY <1>1 DEF ListingInv, WalkInv, Returned, ToSet
<1>4. \A i \in Matching : ~(records[i].id <= None)
  <2>1. records \in Seq(ListedRecord)
    BY DEF ListingInv, ListingTypeOK, ListedRecord
  <2>2. \A i \in Matching : records[i] \in ListedRecord
    BY <2>1 DEF Matching
  <2> QED BY <2>2 DEF ListedRecord, Position, None
<1> QED BY <1>1, <1>2, <1>3, <1>4, PageStep

LEMMA NextPageStep ==
  ASSUME ListingInv, NextPage
  PROVE  ListingInv'
<1>1. walk = "walking" /\ Page(token.size, token.last) /\ steady' = steady
  BY DEF NextPage
<1>2. token.size \in 1 .. MaxPageSize /\ token.last \in 0 .. MaxRecords
  BY <1>1, ListingAssumption DEF ListingInv, ListingTypeOK
<1>3. /\ steady \subseteq Matching
      /\ \A i \in Returned : records[i].id <= token.last
      /\ \A i \in steady : Reached(i) => records[i].id \in Ids(Returned)
  BY <1>1 DEF ListingInv, WalkInv
<1>4. \A i : records[i].id <= token.last => Reached(i)
  BY <1>1 DEF Reached
<1> QED BY <1>1, <1>2, <1>3, <1>4, PageStep

LEMMA SubscribeStep ==
  ASSUME ListingInv, Subscribe
  PROVE  ListingInv'
<1>1. ListingTypeOK /\ RecordsInv /\ WalkInv /\ StreamInv
  BY DEF ListingInv
<1>2. /\ list = "orders" /\ walk = "idle" /\ stream = NoStream
      /\ stream' = [stream EXCEPT !.on = TRUE]
      /\ UNCHANGED <<list, filter, records, walk, token, returned, steady, view>>
  BY <1>1 DEF Subscribe, RecordsInv
<1>3. stream' = [on |-> TRUE, queue |-> << >>, lost |-> FALSE]
  BY <1>2 DEF NoStream
<1>4. ListingTypeOK'
  <2>1. Returned' = Returned
    BY <1>2 DEF Returned
  <2> QED BY <1>1, <1>2, <1>3, <2>1, ListingAssumption DEF ListingTypeOK
<1>5. RecordsInv'
  BY <1>1, <1>2, <1>3 DEF RecordsInv
<1>6. WalkInv'
  <2>1. \A i \in steady : i \in DOMAIN records /\ Matches(records[i])
    BY <1>1 DEF WalkInv, Matching
  <2> QED BY <1>1, <1>2, <2>1, WalkUndisturbed
<1>7. StreamInv'
  <2>1. Matching' = Matching
    BY <1>2, SameFilter DEF Matching
  <2>2. \A i : ~Reached(i)'
    BY <1>2 DEF Reached
  <2>3. filter'.states = {} => DOMAIN view' \subseteq Matching'
    BY <1>1, <1>2, <2>1 DEF StreamInv
  <2>4. DOMAIN stream'.queue = {}
    BY <1>3
  <2> QED BY <2>2, <2>3, <2>4 DEF StreamInv
<1> QED BY <1>4, <1>5, <1>6, <1>7 DEF ListingInv

(* The stream passes on what is at its head.                               *)
LEMMA PassOnStep ==
  ASSUME ListingInv, PassOn
  PROVE  ListingInv'
<1> DEFINE r == Head(stream.queue)
           q == stream.queue
<1>1. ListingTypeOK /\ RecordsInv /\ WalkInv /\ StreamInv
  BY DEF ListingInv
<1>2. /\ q # << >> /\ stream' = [stream EXCEPT !.queue = Tail(q)]
      /\ view' = (IF Matches(r) THEN Told({r}) ELSE view)
      /\ UNCHANGED <<list, filter, records, walk, token, returned, steady>>
  BY DEF PassOn
<1>3. stream \in [on: BOOLEAN, queue: Seq(ListedRecord), lost: BOOLEAN]
  BY <1>1 DEF RecordsInv
<1>4. /\ q \in Seq(ListedRecord) /\ Len(q) \in Nat /\ Len(q) >= 1 /\ DOMAIN q = 1 .. Len(q)
      /\ r = q[1] /\ r \in ListedRecord /\ Tail(q) \in Seq(ListedRecord)
      /\ DOMAIN Tail(q) = 1 .. Len(q) - 1 /\ Len(Tail(q)) = Len(q) - 1
      /\ \A n \in DOMAIN Tail(q) : Tail(q)[n] = q[n + 1]
  <2>1. q \in Seq(ListedRecord) /\ q # << >>
    BY <1>2, <1>3
  <2> HIDE DEF q
  <2> QED BY <2>1 DEF q
<1>5. stream' = [on |-> stream.on, queue |-> Tail(q), lost |-> stream.lost]
  BY <1>2, <1>3
<1>6. /\ list = "orders"
      /\ \A i \in DOMAIN records : records[i].id = i
      /\ \A n \in DOMAIN q : IsOrder(q[n])
      /\ filter.states = {} => DOMAIN view \subseteq Matching
  <2>1. q # << >> => stream # NoStream
    BY DEF NoStream
  <2>2. list = "orders"
    BY <1>1, <1>2, <2>1 DEF RecordsInv
  <2> QED BY <1>1, <2>2 DEF RecordsInv, StreamInv
<1> HIDE DEF r, q
<1>7. /\ 1 \in DOMAIN q
      /\ \A n \in DOMAIN Tail(q) : n + 1 \in DOMAIN q /\ n + 1 \in Nat /\ n \in Nat /\ 1 < n + 1
      /\ \A n \in DOMAIN q : n = 1 \/ n - 1 \in DOMAIN Tail(q)
  BY <1>4
<1>8. /\ DOMAIN view' = (IF Matches(r) THEN {r.id} ELSE {}) \cup DOMAIN view
      /\ Matches(r) => view'[r.id] = r.state
      /\ \A n \in DOMAIN view : n # r.id \/ ~Matches(r) => view'[n] = view[n]
  <2>1. CASE Matches(r)
    <3>1. {x.id : x \in {r}} = {r.id}
      OBVIOUS
    <3>2. /\ DOMAIN Told({r}) = {r.id} \cup DOMAIN view
          /\ \A x \in {r} : Told({r})[x.id] = x.state
          /\ \A n \in DOMAIN view : n \notin {r.id} => Told({r})[n] = view[n]
      BY <3>1, ToldFacts
    <3> QED BY <1>2, <2>1, <3>2
  <2>2. CASE ~Matches(r)
    BY <1>2, <2>2
  <2> QED BY <2>1, <2>2
<1>9. IsOrder(r)
  BY <1>4, <1>6, <1>7
<1>10. Matching' = Matching
  BY <1>2, SameFilter DEF Matching
<1>11. ListingTypeOK'
  <2>1. Returned' = Returned
    BY <1>2 DEF Returned
  <2>2. r.id \in Position
    BY <1>4 DEF ListedRecord
  <2>3. DOMAIN view' \subseteq Position
    BY <1>1, <1>8, <2>2 DEF ListingTypeOK
  <2>4. Len(stream'.queue) <= Capacity
    <3>1. Len(q) <= Capacity
      BY <1>1 DEF ListingTypeOK, q
    <3> QED BY <1>4, <1>5, <3>1, ListingAssumption
  <2> QED BY <1>1, <1>2, <2>1, <2>3, <2>4 DEF ListingTypeOK
<1>12. RecordsInv'
  <2>1. stream' \in [on: BOOLEAN, queue: Seq(ListedRecord), lost: BOOLEAN]
    BY <1>3, <1>4, <1>5
  <2>2. stream.on
    BY <1>1, <1>2 DEF RecordsInv, NoStream, q
  <2> QED BY <1>1, <1>2, <1>5, <2>1, <2>2 DEF RecordsInv
<1>13. WalkInv'
  <2>1. \A i \in steady : i \in DOMAIN records /\ Matches(records[i])
    BY <1>1 DEF WalkInv, Matching
  <2> QED BY <1>1, <1>2, <2>1, WalkUndisturbed
<1>14. StreamInv'
  <2>1. stream'.queue = Tail(q) /\ stream'.on = stream.on /\ stream'.lost = stream.lost
    BY <1>5
  <2>2. \A n \in DOMAIN stream'.queue : stream'.queue[n] = q[n + 1]
    BY <1>4, <2>1
  <2>3. ASSUME NEW n \in DOMAIN stream'.queue PROVE IsOrder(stream.queue[n])'
    <3>1. IsOrder(q[n + 1])
      BY <1>6, <1>7, <2>1, <2>3
    <3> QED BY <1>2, <2>2, <2>3, <3>1 DEF IsOrder
  <2>4. ASSUME filter'.states = {} PROVE DOMAIN view' \subseteq Matching'
    <3>1. DOMAIN view \subseteq Matching
      BY <1>2, <1>6, <2>4
    <3>2. Matches(r) => r.id \in Matching
      <4>1. r.id \in DOMAIN records /\ r.side = records[r.id].side
        BY <1>9 DEF IsOrder
      <4>2. Matches(r) <=> Matches(records[r.id])
        BY <1>2, <1>6, <2>4, <4>1, StateAside
      <4> QED BY <4>1, <4>2 DEF Matching
    <3> QED BY <1>8, <1>10, <3>1, <3>2
  <2>5. ASSUME stream'.on, ~stream'.lost
        PROVE  /\ \A n \in DOMAIN stream'.queue :
                    LastSaid(n)' => stream'.queue[n] = records'[stream'.queue[n].id]
               /\ \A i \in Matching' : Reached(i)' /\ Silent(i)' => Holds(records[i])'
    <3>1. /\ \A n \in DOMAIN q : LastSaid(n) => q[n] = records[q[n].id]
          /\ \A i \in Matching : Reached(i) /\ Silent(i) => Holds(records[i])
      BY <1>1, <1>6, <2>1, <2>5 DEF StreamInv, q
    <3>2. ASSUME NEW n \in DOMAIN stream'.queue, LastSaid(n)'
          PROVE  stream'.queue[n] = records'[stream'.queue[n].id]
      <4>1. ASSUME NEW k \in DOMAIN q, n + 1 < k PROVE q[k].id # q[n + 1].id
        <5>1. k - 1 \in DOMAIN Tail(q) /\ n < k - 1 /\ (k - 1) + 1 = k
          BY <1>4, <1>7, <2>1, <3>2, <4>1
        <5> QED BY <2>1, <2>2, <3>2, <5>1 DEF LastSaid
      <4>2. LastSaid(n + 1)
        BY <4>1 DEF LastSaid, q
      <4> QED BY <1>2, <1>7, <2>1, <2>2, <3>1, <3>2, <4>2
    <3>3. ASSUME NEW i \in Matching', Reached(i)', Silent(i)' PROVE Holds(records[i])'
      <4>1. i \in Matching /\ Reached(i) /\ i \in DOMAIN records /\ records[i].id = i
        BY <1>2, <1>6, <1>10, <3>3 DEF Reached, Matching
      <4>2. \A n \in DOMAIN q : n # 1 => q[n].id # i
        <5>1. \A n \in DOMAIN Tail(q) : Tail(q)[n].id # i
          BY <2>1, <3>3 DEF Silent
        <5>2. ASSUME NEW n \in DOMAIN q, n # 1 PROVE q[n].id # i
          <6>1. n - 1 \in DOMAIN Tail(q) /\ (n - 1) + 1 = n
            BY <1>4, <1>7, <5>2
          <6> QED BY <1>4, <5>1, <6>1
        <5> QED BY <5>2
      <4>3. CASE r.id = i
        <5>1. LastSaid(1)
          <6>1. \A n \in DOMAIN q : 1 < n => n # 1
            OBVIOUS
          <6> QED BY <1>4, <4>2, <4>3, <6>1 DEF LastSaid, q
        <5>2. r = records[i]
          BY <1>4, <1>7, <3>1, <4>3, <5>1
        <5>3. Matches(r)
          BY <4>1, <5>2 DEF Matching
        <5> QED BY <1>2, <1>8, <4>1, <4>3, <5>2, <5>3 DEF Holds
      <4>4. CASE r.id # i
        <5>1. Silent(i)
          BY <1>4, <4>2, <4>4 DEF Silent, q
        <5>2. i \in DOMAIN view /\ view[i] = records[i].state
          BY <3>1, <4>1, <5>1 DEF Holds
        <5> QED BY <1>2, <1>8, <4>1, <4>4, <5>2 DEF Holds
      <4> QED BY <4>3, <4>4
    <3> QED BY <3>2, <3>3
  <2> QED BY <2>3, <2>4, <2>5 DEF StreamInv, IsOrder
<1> QED BY <1>11, <1>12, <1>13, <1>14 DEF ListingInv

LEMMA AgainStep ==
  ASSUME ListingInv, Again
  PROVE  ListingInv'
<1>1. ListingTypeOK /\ RecordsInv /\ WalkInv /\ StreamInv
  BY DEF ListingInv
<1>2. /\ walk = "done" /\ walk' = "idle" /\ returned' = << >> /\ steady' = {}
      /\ stream' = NoStream /\ view' = << >>
      /\ UNCHANGED <<list, filter, records, token>>
  BY DEF Again
<1>3. Returned' = {}
  BY <1>2 DEF Returned, ToSet
<1>4. ListingTypeOK'
  BY <1>1, <1>2, <1>3, ListingAssumption DEF ListingTypeOK, NoStream
<1>5. RecordsInv'
  BY <1>1, <1>2 DEF RecordsInv, NoStream
<1>6. WalkInv'
  <2>1. returned' \in Seq(SUBSET Position) /\ ReturnedOnce'
    BY <1>2 DEF ReturnedOnce
  <2> QED BY <1>2, <1>3, <2>1 DEF WalkInv
<1>7. StreamInv'
  BY <1>2 DEF StreamInv, NoStream
<1> QED BY <1>4, <1>5, <1>6, <1>7 DEF ListingInv

(* What is returned, reached and held at every moment of a walk.           *)
THEOREM ListingInvariant == ListingSpec => []ListingInv
<1>1. ListingInit => ListingInv
  <2> SUFFICES ASSUME ListingInit PROVE ListingInv
    OBVIOUS
  <2>1. /\ list \in Lists /\ filter \in Filters[list]
        /\ records = << >> /\ walk = "idle" /\ token = [size |-> 0, last |-> None]
        /\ returned = << >> /\ steady = {}
        /\ stream = [on |-> FALSE, queue |-> << >>, lost |-> FALSE] /\ view = << >>
    BY DEF ListingInit, NoStream
  <2>2. Returned = {} /\ ReturnedOnce
    BY <2>1 DEF Returned, ReturnedOnce, ToSet
  <2>3. ListingTypeOK
    BY <2>1, <2>2, ListingAssumption DEF ListingTypeOK, None
  <2>4. RecordsInv
    BY <2>1 DEF RecordsInv, NoStream
  <2>5. WalkInv
    BY <2>1, <2>2 DEF WalkInv
  <2>6. StreamInv
    BY <2>1 DEF StreamInv
  <2> QED BY <2>3, <2>4, <2>5, <2>6 DEF ListingInv
<1>2. ListingInv /\ [ListingNext]_listingVars => ListingInv'
  <2> SUFFICES ASSUME ListingInv, [ListingNext]_listingVars PROVE ListingInv'
    OBVIOUS
  <2>1. ASSUME NEW side \in Sides, Record(side) PROVE ListingInv'
    BY <2>1, RecordStep
  <2>2. CASE RecordBothSides
    BY <2>2, BothSidesStep
  <2>3. ASSUME NEW i \in DOMAIN records, Change(i) PROVE ListingInv'
    BY <2>3, ChangeStep
  <2>4. ASSUME NEW sz \in Requested, FirstPage(sz) PROVE ListingInv'
    BY <2>4, FirstPageStep
  <2>5. CASE NextPage
    BY <2>5, NextPageStep
  <2>6. CASE Subscribe
    BY <2>6, SubscribeStep
  <2>7. CASE PassOn
    BY <2>7, PassOnStep
  <2>8. CASE Again
    BY <2>8, AgainStep
  <2>9. CASE UNCHANGED listingVars
    <3>1. UNCHANGED <<list, filter, records, walk, token, returned, steady, stream, view>>
      BY <2>9 DEF listingVars
    <3>2. Matching' = Matching /\ Returned' = Returned
      BY <3>1, SameFilter DEF Matching, Returned
    <3>3. ListingTypeOK' /\ RecordsInv'
      BY <3>1, <3>2 DEF ListingInv, ListingTypeOK, RecordsInv
    <3>4. WalkInv'
      <4>1. \A i \in steady : i \in DOMAIN records /\ Matches(records[i])
        BY DEF ListingInv, WalkInv, Matching
      <4> QED BY <3>1, <4>1, WalkUndisturbed DEF ListingInv
    <3>5. StreamInv'
      BY <3>1, <3>2 DEF ListingInv, StreamInv, IsOrder, LastSaid, Silent, Reached, Holds
    <3> QED BY <3>3, <3>4, <3>5 DEF ListingInv
  <2> QED BY <2>1, <2>2, <2>3, <2>4, <2>5, <2>6, <2>7, <2>8, <2>9 DEF ListingNext
<1> QED BY <1>1, <1>2, PTL DEF ListingSpec

(* However records are added and orders change between two pages: a walk   *)
(* returns no record twice and in the end all that matched from its start, *)
(* and a client that subscribed first and has read its stream holds every  *)
(* order that matches as it is (list_gridpool_orders and _trades,          *)
(* receive_gridpool_orders_stream, src/server.rs:361-474).                 *)
THEOREM ListingStaysConsistent == ListingSpec => []ListingConsistent
<1>1. ASSUME ListingInv PROVE ListingConsistent
  <2>1. ListingTypeOK /\ RecordsInv /\ WalkInv /\ StreamInv
    BY <1>1 DEF ListingInv
  <2>2. ReturnedOnce
    BY <2>1 DEF WalkInv
  <2>3. WalkIsComplete
    BY <2>1 DEF WalkInv, WalkIsComplete, Reached, Ids
  <2>4. ASSUME KeptUp
        PROVE  /\ \A i \in Matching : Holds(records[i])
               /\ filter.states = {} => \A i \in DOMAIN records :
                                          records[i].id \in DOMAIN view => Holds(records[i])
    <3>1. list = "orders" /\ stream.on /\ ~stream.lost /\ walk = "done" /\ stream.queue = << >>
      BY <2>4 DEF KeptUp
    <3>2. \A i : Reached(i) /\ Silent(i)
      BY <3>1 DEF Reached, Silent
    <3>3. \A i \in Matching : Holds(records[i])
      BY <2>1, <3>1, <3>2 DEF StreamInv
    <3> QED BY <2>1, <3>1, <3>3 DEF StreamInv, RecordsInv
  <2>5. ViewIsCurrent
    BY <2>4 DEF ViewIsCurrent
  <2> QED BY <2>1, <2>2, <2>3, <2>5 DEF ListingConsistent
<1> QED BY <1>1, ListingInvariant, PTL

-----------------------------------------------------------------------------
(* Weather.  An area's index leads to a slot, and the slot has the point   *)
(* that was linked.                                                        *)
RegistryInv ==
  /\ OneSlotPerPoint
  /\ \A a \in DOMAIN by_area : /\ by_area[a] \in DOMAIN locations
                               /\ locations[by_area[a]].point = linked[a]

(* A stream has offered the frames it has done with; of the one it is at   *)
(* the log has what is pushed.                                             *)
Under(c) == task[c] \in {"push", "send"}
FramesDone(c) == IF Under(c) THEN built[c] - 1 ELSE built[c]
FeedInv(c) ==
  /\ \A i \in DOMAIN frame[c] : frame[c][i].by = c /\ frame[c][i].no = built[c]
  /\ Under(c) => IsRecorded(log, c, built[c], frame[c], pushed[c])
  /\ task[c] = "push" => pushed[c] < Len(frame[c])
  /\ task[c] = "send" => pushed[c] = Len(frame[c])
  /\ Len(Offered(c)) <= FramesDone(c)
  /\ ~gone[c] => Len(Offered(c)) = FramesDone(c)
  /\ task[c] \in {"build", "sleep", "none"} \/ ~gone[c] => built[c] <= MaxFrames
FeedsInv == \A c \in Subscriber : FeedInv(c)

(* The ring is the end of the log.                                         *)
RingInv ==
  /\ Len(history) = IF Len(log) < HistoryCap THEN Len(log) ELSE HistoryCap
  /\ \A i \in DOMAIN history : history[i] = log[(Len(log) - Len(history)) + i]
  /\ \A n \in DOMAIN log : log[n].no <= built[log[n].by]
  /\ ReceivedWasRecorded

WeatherInv == TypeOK /\ RegistryInv /\ FeedsInv /\ RingInv

-----------------------------------------------------------------------------
(* One forecast more in the log: to other frames it is nothing, its own    *)
(* frame has it next.                                                      *)
LEMMA LogGrows ==
  ASSUME NEW T, NEW l \in Seq(T), NEW x \in T, NEW c, NEW k, NEW f, NEW n \in Nat,
         IsRecorded(l, c, k, f, n)
  PROVE  /\ x.by # c \/ x.no # k => IsRecorded(Append(l, x), c, k, f, n)
         /\ x.by = c /\ x.no = k /\ x = f[n + 1] => IsRecorded(Append(l, x), c, k, f, n + 1)
<1> DEFINE m == Append(l, x)
           e == Len(l) + 1
<1>1. /\ DOMAIN l = 1 .. Len(l) /\ Len(l) \in Nat /\ DOMAIN m = 1 .. e /\ m[e] = x
      /\ \A i \in DOMAIN l : i \in DOMAIN m /\ m[i] = l[i]
      /\ \A i \in DOMAIN m : i \in DOMAIN l \/ i = e
  BY AppendProperties, LenProperties
<1> HIDE DEF m
<1>2. PICK place \in [1 .. n -> Mine(l, c, k)] :
        /\ \A i, j \in 1 .. n : i < j => place[i] < place[j]
        /\ \A i \in 1 .. n : l[place[i]] = f[i]
        /\ Mine(l, c, k) = {place[i] : i \in 1 .. n}
  BY DEF IsRecorded
<1>3. /\ Mine(l, c, k) \subseteq DOMAIN l /\ Mine(l, c, k) \subseteq Mine(m, c, k)
      /\ \A i \in 1 .. n : m[place[i]] = f[i] /\ place[i] \in DOMAIN l
  <2>1. Mine(l, c, k) \subseteq DOMAIN l /\ Mine(l, c, k) \subseteq Mine(m, c, k)
    BY <1>1 DEF Mine
  <2>2. \A i \in 1 .. n : place[i] \in Mine(l, c, k)
    BY <1>2
  <2> QED BY <1>1, <1>2, <2>1, <2>2
<1>4. ASSUME x.by # c \/ x.no # k PROVE IsRecorded(m, c, k, f, n)
  <2>1. Mine(m, c, k) = Mine(l, c, k)
    BY <1>1, <1>4 DEF Mine
  <2> QED BY <1>2, <1>3, <2>1, SMTT(20), ZenonT(20) DEF IsRecorded
<1>5. ASSUME x.by = c, x.no = k, x = f[n + 1] PROVE IsRecorded(m, c, k, f, n + 1)
  <2> DEFINE q == [i \in 1 .. n + 1 |-> IF i = n + 1 THEN e ELSE place[i]]
  <2>1. Mine(m, c, k) = Mine(l, c, k) \cup {e}
    <3>1. e \in DOMAIN m
      BY <1>1
    <3> QED BY <1>1, <1>5, <3>1 DEF Mine
  <2>2. /\ \A i \in 1 .. n : i \in 1 .. n + 1 /\ q[i] = place[i]
        /\ n + 1 \in 1 .. n + 1 /\ q[n + 1] = e
        /\ \A i \in 1 .. n + 1 : i \in 1 .. n \/ i = n + 1
    OBVIOUS
  <2>3. q \in [1 .. n + 1 -> Mine(m, c, k)]
    BY <1>2, <2>1
  <2> HIDE DEF q
  <2>4. \A i, j \in 1 .. n + 1 : i < j => q[i] < q[j]
    <3> SUFFICES ASSUME NEW i \in 1 .. n + 1, NEW j \in 1 .. n + 1, i < j PROVE q[i] < q[j]
      OBVIOUS
    <3>1. i \in 1 .. n
      OBVIOUS
    <3>2. CASE j \in 1 .. n
      BY <1>2, <2>2, <3>1, <3>2
    <3>3. CASE j = n + 1
      <4>1. place[i] \in 1 .. Len(l)
        BY <1>1, <1>3, <3>1
      <4> QED BY <1>1, <2>2, <3>1, <3>3, <4>1
    <3> QED BY <2>2, <3>2, <3>3
  <2>5. \A i \in 1 .. n + 1 : m[q[i]] = f[i]
    BY <1>1, <1>3, <1>5, <2>2
  <2>6. Mine(m, c, k) = {q[i] : i \in 1 .. n + 1}
    <3>1. {q[i] : i \in 1 .. n + 1} = {place[i] : i \in 1 .. n} \cup {e}
      BY <2>2
    <3> QED BY <1>2, <2>1, <3>1
  <2> QED BY <2>3, <2>4, <2>5, <2>6 DEF IsRecorded
<1> QED BY <1>4, <1>5 DEF m

(* Nothing of a frame is recorded before it is begun.                      *)
LEMMA NoneRecorded ==
  ASSUME NEW l, NEW c, NEW k, NEW f, Mine(l, c, k) = {}
  PROVE  IsRecorded(l, c, k, f, 0)
<1>1. 1 .. 0 = {}
  OBVIOUS
<1> DEFINE p == [i \in 1 .. 0 |-> i]
<1>2. p \in [1 .. 0 -> Mine(l, c, k)] /\ {p[i] : i \in 1 .. 0} = {}
  BY <1>1
<1> HIDE DEF p
<1> QED BY <1>1, <1>2 DEF IsRecorded

(* A frame goes from the channel to the client.                            *)
LEMMA HeadMoves ==
  ASSUME NEW T, NEW s \in Seq(T), NEW t \in Seq(T), t # << >>
  PROVE  Append(s, Head(t)) \o Tail(t) = s \o t
<1>1. Head(t) \in T /\ Tail(t) \in Seq(T) /\ <<Head(t)>> \in Seq(T)
  BY HeadTailProperties
<1>2. Append(s, Head(t)) = s \o <<Head(t)>>
  BY <1>1, AppendIsConcat
<1>3. (s \o <<Head(t)>>) \o Tail(t) = s \o (<<Head(t)>> \o Tail(t))
  BY <1>1, ConcatAssociative
<1>4. <<Head(t)>> \o Tail(t) = t
  <2> DEFINE h == <<Head(t)>>
             r == Tail(t)
  <2>1. /\ h \in Seq(T) /\ Len(h) = 1 /\ h[1] = t[1] /\ r \in Seq(T)
        /\ Len(t) \in Nat /\ Len(t) >= 1
        /\ Len(r) = Len(t) - 1 /\ \A i \in 1 .. Len(r) : r[i] = t[i + 1]
    BY <1>1, HeadTailProperties, EmptySeq
  <2> HIDE DEF h, r
  <2>2. /\ h \o r \in Seq(T) /\ Len(h \o r) = Len(h) + Len(r)
        /\ \A i \in 1 .. Len(h) + Len(r) : (h \o r)[i] = IF i <= Len(h) THEN h[i] ELSE r[i - Len(h)]
    <3>1. h \in Seq(T) /\ r \in Seq(T)
      BY <2>1
    <3> QED BY <3>1, ConcatProperties
  <2>3. Len(h \o r) = Len(t)
    BY <2>1, <2>2
  <2>4. ASSUME NEW i \in 1 .. Len(t) PROVE (h \o r)[i] = t[i]
    <3>1. i \in 1 .. Len(h) + Len(r)
      BY <2>1
    <3>2. CASE i <= 1
      <4>1. i = 1
        BY <3>2
      <4> QED BY <2>1, <2>2, <3>1, <4>1
    <3>3. CASE i > 1
      <4>1. i - 1 \in 1 .. Len(r) /\ (i - 1) + 1 = i /\ ~(i <= 1)
        BY <2>1, <3>3
      <4>2. r[i - 1] = t[i]
        BY <2>1, <4>1
      <4> QED BY <2>1, <2>2, <3>1, <4>1, <4>2
    <3>4. i \in Int
      BY <2>1
    <3>5. i <= 1 \/ i > 1
      BY <3>4
    <3> QED BY <3>2, <3>3, <3>5
  <2>5. h \o r = t
    BY <2>2, <2>3, <2>4, SeqEqual
  <2> QED BY <2>5 DEF h, r
<1> QED BY <1>2, <1>3, <1>4

(* A frame that is sent is offered last.                                   *)
LEMMA SentIsLast ==
  ASSUME NEW T, NEW s \in Seq(T), NEW t \in Seq(T), NEW e \in T
  PROVE  s \o Append(t, e) = Append(s \o t, e)
<1>1. <<e>> \in Seq(T) /\ s \o t \in Seq(T)
  BY ConcatProperties
<1>2. Append(t, e) = t \o <<e>> /\ Append(s \o t, e) = (s \o t) \o <<e>>
  BY <1>1, AppendIsConcat
<1> QED BY <1>1, <1>2, ConcatAssociative
-----------------------------------------------------------------------------
(* What a step leaves alone.                                               *)
LEMMA RegistryAside ==
  ASSUME RegistryInv, UNCHANGED registry
  PROVE  RegistryInv'
BY DEF RegistryInv, registry, OneSlotPerPoint

LEMMA StreamAside ==
  ASSUME NEW d \in Subscriber, FeedInv(d),
         task'[d] = task[d], frame'[d] = frame[d], pushed'[d] = pushed[d],
         built'[d] = built[d], gone'[d] = gone[d], Offered(d)' = Offered(d),
         IsRecorded(log, d, built[d], frame[d], pushed[d])
           => IsRecorded(log', d, built[d], frame[d], pushed[d])
  PROVE  FeedInv(d)'
<1>1. Under(d)' = Under(d) /\ FramesDone(d)' = FramesDone(d)
  BY DEF Under, FramesDone
<1>2. Under(d)' => IsRecorded(log', d, built'[d], frame'[d], pushed'[d])
  BY <1>1 DEF FeedInv
<1> QED BY <1>1, <1>2 DEF FeedInv

LEMMA RingAside ==
  ASSUME TypeOK, RingInv, UNCHANGED ring, \A c \in Subscriber : Offered(c)' = Offered(c),
         \A c \in Subscriber : built[c] <= built'[c] /\ built'[c] \in Int
  PROVE  RingInv'
<1>1. log' = log /\ history' = history
  BY DEF ring
<1>2. ASSUME NEW n \in DOMAIN log PROVE log[n].no <= built'[log[n].by]
  <2>1. log[n] \in Forecast
    BY DEF TypeOK
  <2>2. log[n].by \in Subscriber /\ log[n].no \in Int
    BY <2>1 DEF Forecast
  <2>3. built[log[n].by] \in Int /\ log[n].no <= built[log[n].by]
    BY <2>2 DEF TypeOK, RingInv
  <2>4. built[log[n].by] <= built'[log[n].by] /\ built'[log[n].by] \in Int
    BY <2>2
  <2> DEFINE u == built[log[n].by]
             v == built'[log[n].by]
             w == log[n].no
  <2>5. u \in Int /\ v \in Int /\ w \in Int /\ w <= u /\ u <= v
    BY <2>2, <2>3, <2>4
  <2> HIDE DEF u, v, w
  <2>6. w <= v
    BY <2>5
  <2> QED BY <2>6 DEF v, w
<1>3. ReceivedWasRecorded'
  <2>1. ReceivedWasRecorded
    BY DEF RingInv
  <2>2. \A c \in Subscriber : \A k \in DOMAIN Offered(c) :
          IsRecorded(log, c, k, Offered(c)[k], Len(Offered(c)[k]))
    BY <2>1 DEF ReceivedWasRecorded
  <2>3. \A c \in Subscriber : \A k \in DOMAIN Offered(c)' :
          IsRecorded(log', c, k, Offered(c)'[k], Len(Offered(c)'[k]))
    BY <1>1, <2>2
  <2> QED BY <1>1, <2>1, <2>3 DEF ReceivedWasRecorded
<1> QED BY <1>1, <1>2, <1>3 DEF RingInv

(* The registry is written.                                                *)
LEMMA RegisterStep ==
  ASSUME WeatherInv, NEW p \in Point, NEW v \in Cover,
         NEW A \in {{}} \cup {{a} : a \in AreaCodes}, MakeWeatherLocation(p, v, A)
  PROVE  WeatherInv'
<1> DEFINE i == IndexFor(p)
           loc == [point |-> p, cover |-> v]
<1>1. TypeOK /\ RegistryInv /\ FeedsInv /\ RingInv
  BY DEF WeatherInv
<1>2. /\ locations' = (IF i \in DOMAIN locations THEN [locations EXCEPT ![i] = loc]
                       ELSE Append(locations, loc))
      /\ by_key' = [q \in DOMAIN by_key \cup {p} |-> IF q = p THEN i ELSE by_key[q]]
      /\ UNCHANGED <<task, frame, pushed, built, channel, got, gone, history, log, clock>>
  BY DEF MakeWeatherLocation, Upsert, ring
<1>3. /\ locations \in Seq(Location) /\ Len(locations) \in Nat
      /\ DOMAIN locations = 1 .. Len(locations) /\ loc \in Location /\ loc.point = p
  BY <1>1 DEF TypeOK, Location
<1>4. /\ i \in Nat
      /\ i \in DOMAIN locations => locations[i].point = p
      /\ i \notin DOMAIN locations => i = Len(locations) + 1 /\ p \notin DOMAIN by_key
      /\ \A j \in DOMAIN locations : locations[j].point = p => j = i
  <2>1. /\ DOMAIN by_key = {locations[j].point : j \in DOMAIN locations}
        /\ \A j \in DOMAIN locations : by_key[locations[j].point] = j
    BY <1>1 DEF RegistryInv, OneSlotPerPoint
  <2>2. CASE p \in DOMAIN by_key
    <3>1. PICK j \in DOMAIN locations : locations[j].point = p
      BY <2>1, <2>2
    <3>2. i = j
      BY <2>1, <2>2, <3>1 DEF IndexFor
    <3> QED BY <1>3, <2>1, <2>2, <3>1, <3>2
  <2>3. CASE p \notin DOMAIN by_key
    <3>1. i = Len(locations) + 1
      BY <2>3 DEF IndexFor
    <3>2. i \notin DOMAIN locations /\ i \in Nat
      BY <1>3, <3>1
    <3>3. \A j \in DOMAIN locations : locations[j].point # p
      BY <2>1, <2>3
    <3> QED BY <2>3, <3>1, <3>2, <3>3
  <2> QED BY <2>2, <2>3
<1> HIDE DEF i, loc
<1>5. /\ locations' \in Seq(Location) /\ i \in DOMAIN locations' /\ locations'[i] = loc
      /\ DOMAIN locations' = DOMAIN locations \cup {i}
      /\ \A j \in DOMAIN locations : j # i => locations'[j] = locations[j]
  <2>1. CASE i \in DOMAIN locations
    <3>1. locations' = [locations EXCEPT ![i] = loc]
      BY <1>2, <2>1
    <3> QED BY <1>3, <2>1, <3>1, ExceptSeq
  <2>2. CASE i \notin DOMAIN locations
    <3>1. locations' = Append(locations, loc) /\ i = Len(locations) + 1
      BY <1>2, <1>4, <2>2
    <3>2. /\ locations' \in Seq(Location) /\ Len(locations') = i /\ locations'[i] = loc
          /\ \A j \in 1 .. Len(locations) : locations'[j] = locations[j]
      BY <1>3, <3>1, AppendProperties
    <3>3. DOMAIN locations' = 1 .. i /\ i \in 1 .. i /\ 1 .. i = (1 .. Len(locations)) \cup {i}
      BY <1>3, <1>4, <3>1, <3>2, LenProperties
    <3> QED BY <1>3, <3>2, <3>3
  <2> QED BY <2>1, <2>2
<1>6. OneSlotPerPoint'
  <2>1. /\ DOMAIN by_key = {locations[j].point : j \in DOMAIN locations}
        /\ \A j \in DOMAIN locations : by_key[locations[j].point] = j
    BY <1>1 DEF RegistryInv, OneSlotPerPoint
  <2>2. \A j \in DOMAIN locations' : locations'[j].point =
          IF j = i THEN p ELSE locations[j].point
    BY <1>3, <1>5
  <2>3. DOMAIN by_key' = {locations'[j].point : j \in DOMAIN locations'}
    <3>1. DOMAIN by_key' = DOMAIN by_key \cup {p}
      BY <1>2
    <3>2. ASSUME NEW q \in DOMAIN by_key PROVE \E j \in DOMAIN locations' : locations'[j].point = q
      BY <1>4, <1>5, <2>1, <2>2
    <3>3. ASSUME NEW j \in DOMAIN locations' PROVE locations'[j].point \in DOMAIN by_key \cup {p}
      BY <1>5, <2>1, <2>2
    <3> QED BY <1>5, <2>2, <3>1, <3>2, <3>3
  <2>4. ASSUME NEW j \in DOMAIN locations' PROVE by_key'[locations'[j].point] = j
    <3>1. CASE j = i
      BY <1>2, <2>2, <3>1
    <3>2. CASE j # i
      <4>1. j \in DOMAIN locations /\ locations'[j].point = locations[j].point
        BY <1>5, <2>2, <3>2
      <4>2. locations[j].point # p /\ locations[j].point \in DOMAIN by_key
        BY <1>4, <2>1, <3>2, <4>1
      <4> QED BY <1>2, <2>1, <4>1, <4>2
    <3> QED BY <3>1, <3>2
  <2> QED BY <2>3, <2>4 DEF OneSlotPerPoint
<1>7. /\ DOMAIN by_area' \subseteq AreaCodes /\ DOMAIN linked' = DOMAIN by_area'
      /\ \A a \in DOMAIN by_area' : /\ by_area'[a] \in DOMAIN locations'
                                    /\ locations'[by_area'[a]].point = linked'[a]
  <2>1. /\ DOMAIN by_area \subseteq AreaCodes /\ DOMAIN linked = DOMAIN by_area
        /\ \A a \in DOMAIN by_area : /\ by_area[a] \in DOMAIN locations'
                                     /\ locations'[by_area[a]].point = linked[a]
    <3>1. \A j \in DOMAIN locations :
            j \in DOMAIN locations' /\ locations'[j].point = locations[j].point
      BY <1>3, <1>4, <1>5
    <3> QED BY <1>1, <3>1 DEF TypeOK, RegistryInv
  <2>2. CASE A = {}
    <3>1. by_area' = by_area /\ linked' = linked
      BY <2>2 DEF MakeWeatherLocation
    <3> QED BY <2>1, <3>1
  <2>3. CASE A # {}
    <3>1. PICK a \in A : /\ by_area' = Linked(a, p)
                         /\ linked' = [b \in DOMAIN linked \cup {a} |->
                                         IF b = a THEN p ELSE linked[b]]
      BY <2>3 DEF MakeWeatherLocation
    <3>2. a \in AreaCodes
      OBVIOUS
    <3>3. by_area' = [b \in DOMAIN by_area \cup {a} |-> IF b = a THEN i ELSE by_area[b]]
      BY <3>1 DEF Linked, i
    <3> QED BY <1>3, <1>5, <2>1, <3>1, <3>2, <3>3
  <2> QED BY <2>2, <2>3
<1>8. TypeOK'
  <2>1. DOMAIN by_key' \subseteq Point /\ \A q \in DOMAIN by_key' : by_key'[q] \in Nat
    BY <1>1, <1>2, <1>4 DEF TypeOK
  <2>2. locations' # << >>
    BY <1>5, SMTT(20), ZenonT(20)
  <2> QED BY <1>1, <1>2, <1>5, <1>7, <2>1, <2>2 DEF TypeOK
<1>9. \A c \in Subscriber : Offered(c)' = Offered(c)
  BY <1>2 DEF Offered
<1>10. FeedsInv'
  BY <1>1, <1>2, <1>9, StreamAside DEF FeedsInv
<1>11. RingInv'
  <2>1. \A c \in Subscriber : built[c] <= built'[c] /\ built'[c] \in Int
    BY <1>1, <1>2 DEF TypeOK
  <2> QED BY <1>1, <1>2, <1>9, <2>1, RingAside DEF ring
<1> QED BY <1>6, <1>7, <1>8, <1>10, <1>11 DEF WeatherInv, RegistryInv
(* A stream opens, wakes or builds its next frame; nothing is recorded.    *)
LEMMA TurnStep ==
  ASSUME WeatherInv, NEW c \in Subscriber, Open(c) \/ Wake(c)
  PROVE  WeatherInv'
<1>1. TypeOK /\ RegistryInv /\ FeedsInv /\ RingInv
  BY DEF WeatherInv
<1>2. /\ task[c] \in {"none", "sleep"} /\ task' = [task EXCEPT ![c] = "build"]
      /\ UNCHANGED <<frame, pushed, built, channel, got, gone, clock>>
      /\ UNCHANGED registry /\ UNCHANGED ring
  BY DEF Open, Wake
<1>3. log' = log /\ history' = history
  BY <1>2 DEF ring
<1>4. TypeOK'
  BY <1>1, <1>2, <1>3 DEF TypeOK, registry
<1>5. \A d \in Subscriber : Offered(d)' = Offered(d)
  BY <1>2 DEF Offered
<1>6. FeedsInv'
  <2> SUFFICES ASSUME NEW d \in Subscriber PROVE FeedInv(d)'
    BY DEF FeedsInv
  <2>1. CASE d # c
    <3>1. task'[d] = task[d]
      BY <1>1, <1>2, <2>1 DEF TypeOK
    <3> QED BY <1>1, <1>2, <1>3, <1>5, <3>1, StreamAside DEF FeedsInv
  <2>2. CASE d = c
    <3>1. task'[d] = "build"
      BY <1>1, <1>2, <2>2 DEF TypeOK
    <3>2. ~Under(d) /\ ~Under(d)' /\ FramesDone(d) = built[d] /\ FramesDone(d)' = built[d]
      BY <1>2, <2>2, <3>1 DEF Under, FramesDone
    <3>3. FeedInv(d)
      BY <1>1 DEF FeedsInv
    <3> QED BY <1>2, <1>5, <2>2, <3>1, <3>2, <3>3 DEF FeedInv
  <2> QED BY <2>1, <2>2
<1>7. RingInv'
  <2>1. \A d \in Subscriber : built[d] <= built'[d] /\ built'[d] \in Int
    BY <1>1, <1>2 DEF TypeOK
  <2> QED BY <1>1, <1>2, <1>5, <2>1, RingAside
<1> QED BY <1>1, <1>2, <1>4, <1>6, <1>7, RegistryAside DEF WeatherInv

LEMMA BuildStep ==
  ASSUME WeatherInv, NEW c \in Subscriber, Build(c)
  PROVE  WeatherInv'
<1> DEFINE f == [i \in DOMAIN locations |->
                  [by |-> c, no |-> built[c] + 1, at |-> clock,
                   point |-> locations[i].point, cover |-> locations[i].cover]]
<1>1. TypeOK /\ RegistryInv /\ FeedsInv /\ RingInv /\ FeedInv(c)
  BY DEF WeatherInv, FeedsInv
<1>2. /\ task[c] = "build" /\ (gone[c] \/ built[c] < MaxFrames)
      /\ frame' = [frame EXCEPT ![c] = f] /\ built' = [built EXCEPT ![c] = built[c] + 1]
      /\ pushed' = [pushed EXCEPT ![c] = 0] /\ task' = [task EXCEPT ![c] = "push"]
      /\ UNCHANGED <<channel, got, gone, clock>> /\ UNCHANGED registry /\ UNCHANGED ring
  BY DEF Build
<1>3. log' = log /\ history' = history
  BY <1>2 DEF ring
<1>4. /\ built[c] \in Int /\ built[c] >= 0 /\ built[c] <= MaxFrames /\ MaxFrames \in Nat
      /\ built[c] + 1 \in 1 .. MaxFrames + 1 /\ built[c] + 1 \in 0 .. MaxFrames + 1
  <2>1. built[c] \in 0 .. MaxFrames + 1 /\ built[c] <= MaxFrames /\ MaxFrames \in Nat
    BY <1>1, <1>2, WeatherAssumption DEF TypeOK, FeedInv
  <2> DEFINE b == built[c]
  <2> HIDE DEF b
  <2>2. b \in 0 .. MaxFrames + 1 /\ b <= MaxFrames /\ MaxFrames \in Nat
    BY <2>1 DEF b
  <2>3. /\ b \in Int /\ b >= 0 /\ b <= MaxFrames /\ MaxFrames \in Nat
        /\ b + 1 \in 1 .. MaxFrames + 1 /\ b + 1 \in 0 .. MaxFrames + 1
    BY <2>2
  <2> QED BY <2>3 DEF b
<1>5. /\ f \in Seq(Forecast) /\ Len(f) \in Nat /\ Len(f) > 0 /\ DOMAIN f = 1 .. Len(f)
      /\ \A i \in DOMAIN f : f[i].by = c /\ f[i].no = built[c] + 1
  <2>1. /\ Len(locations) \in Nat /\ Len(locations) > 0 /\ DOMAIN locations = 1 .. Len(locations)
        /\ \A i \in DOMAIN locations : locations[i] \in Location
        /\ clock \in 0 .. MaxTime
    <3>1. locations \in Seq(Location) /\ locations # << >> /\ clock \in 0 .. MaxTime
      BY <1>1 DEF TypeOK
    <3>2. Len(locations) \in Nat /\ Len(locations) > 0 /\ DOMAIN locations = 1 .. Len(locations)
      BY <3>1, EmptySeq, LenProperties
    <3> QED BY <3>1, <3>2
  <2>2. \A i \in DOMAIN locations : f[i] \in Forecast
    BY <1>4, <2>1 DEF Forecast, Location
  <2>3. DOMAIN f = 1 .. Len(locations)
    BY <2>1
  <2>4. \A i \in DOMAIN f : f[i].by = c /\ f[i].no = built[c] + 1
    OBVIOUS
  <2> HIDE DEF f
  <2>5. f \in [1 .. Len(locations) -> Forecast]
    <3>1. f = [i \in 1 .. Len(locations) |-> f[i]]
      BY <2>1 DEF f
    <3> QED BY <2>1, <2>2, <3>1
  <2>6. f \in Seq(Forecast) /\ Len(f) = Len(locations)
    BY <2>1, <2>5
  <2> QED BY <2>1, <2>3, <2>4, <2>6
<1> HIDE DEF f
<1>6. /\ frame'[c] = f /\ built'[c] = built[c] + 1 /\ pushed'[c] = 0 /\ task'[c] = "push"
      /\ \A d \in Subscriber : d # c => /\ frame'[d] = frame[d] /\ built'[d] = built[d]
                                        /\ pushed'[d] = pushed[d] /\ task'[d] = task[d]
  BY <1>1, <1>2 DEF TypeOK
<1>7. TypeOK'
  <2>1. /\ frame' \in [Subscriber -> Seq(Forecast)] /\ pushed' \in [Subscriber -> Nat]
        /\ built' \in [Subscriber -> 0 .. MaxFrames + 1]
        /\ task' \in [Subscriber -> {"none", "build", "push", "send", "sleep", "over"}]
    BY <1>1, <1>2, <1>4, <1>5 DEF TypeOK
  <2>2. \A d \in Subscriber : pushed'[d] \in 0 .. Len(frame'[d])
    <3>1. 0 \in 0 .. Len(f)
      BY <1>5
    <3> QED BY <1>1, <1>6, <3>1 DEF TypeOK
  <2> QED BY <1>1, <1>2, <1>3, <2>1, <2>2 DEF TypeOK, registry
<1>8. \A d \in Subscriber : Offered(d)' = Offered(d)
  BY <1>2 DEF Offered
<1>9. FeedInv(c)'
  <2>1. Under(c)' /\ ~Under(c) /\ FramesDone(c) = built[c] /\ FramesDone(c)' = built[c]
    BY <1>2, <1>4, <1>6 DEF Under, FramesDone
  <2>2. IsRecorded(log', c, built'[c], frame'[c], pushed'[c])
    <3>1. Mine(log, c, built[c] + 1) = {}
      <4>1. ASSUME NEW m \in DOMAIN log, log[m].by = c, log[m].no = built[c] + 1 PROVE FALSE
        <5>1. log[m].no <= built[c]
          BY <1>1, <4>1 DEF RingInv
        <5> QED BY <1>4, <4>1, <5>1
      <4> QED BY <4>1 DEF Mine
    <3> QED BY <1>3, <1>6, <3>1, NoneRecorded
  <2>3. gone[c] \/ built'[c] <= MaxFrames
    BY <1>2, <1>4, <1>6
  <2>4. \A i \in DOMAIN frame'[c] : frame'[c][i].by = c /\ frame'[c][i].no = built'[c]
    BY <1>5, <1>6
  <2> QED BY <1>1, <1>2, <1>5, <1>6, <1>8, <2>1, <2>2, <2>3, <2>4 DEF FeedInv
<1>10. FeedsInv'
  <2>1. ASSUME NEW d \in Subscriber, d # c PROVE FeedInv(d)'
    BY <1>1, <1>2, <1>3, <1>6, <1>8, <2>1, StreamAside DEF FeedsInv
  <2> QED BY <1>9, <2>1 DEF FeedsInv
<1>11. RingInv'
  <2>1. \A d \in Subscriber : built[d] <= built'[d] /\ built'[d] \in Int
    <3>1. \A d \in Subscriber : built[d] \in Int
      BY <1>1 DEF TypeOK
    <3> QED BY <1>4, <1>6, <3>1
  <2> QED BY <1>1, <1>2, <1>8, <2>1, RingAside
<1> QED BY <1>1, <1>2, <1>7, <1>10, <1>11, RegistryAside DEF WeatherInv

(* What the ring holds with one forecast more.                             *)
LEMMA RingPushes ==
  ASSUME TypeOK, RingInv, NEW x \in Forecast, history' = Pushed(x), log' = Append(log, x)
  PROVE  /\ history' \in Seq(Forecast) /\ Len(history') <= HistoryCap
         /\ Len(history') = IF Len(log') < HistoryCap THEN Len(log') ELSE HistoryCap
         /\ \A i \in DOMAIN history' : history'[i] = log'[(Len(log') - Len(history')) + i]
<1> DEFINE full == Len(history) = HistoryCap
           rest == IF full THEN Tail(history) ELSE history
           h == Len(history)
           k == Len(log)
           r == Len(rest)
<1>1. /\ history \in Seq(Forecast) /\ log \in Seq(Forecast) /\ HistoryCap \in Nat \ {0}
      /\ h \in Nat /\ k \in Nat /\ DOMAIN history = 1 .. h /\ DOMAIN log = 1 .. k
      /\ h = (IF k < HistoryCap THEN k ELSE HistoryCap)
      /\ \A i \in DOMAIN history : history[i] = log[(k - h) + i]
  BY WeatherAssumption, LenProperties DEF TypeOK, RingInv
<1>2. /\ rest \in Seq(Forecast) /\ r \in Nat /\ (full => r = h - 1) /\ (~full => r = h)
      /\ \A i \in 1 .. r : rest[i] = log[(k - r) + i] /\ (k - r) + i \in 1 .. k
  <2>1. CASE full
    <3>1. history # << >>
      BY <1>1, <2>1
    <3>2. rest = Tail(history)
      BY <2>1
    <3>3. /\ rest \in Seq(Forecast) /\ r = h - 1
          /\ \A i \in 1 .. r : rest[i] = history[i + 1]
      BY <1>1, <3>1, <3>2, HeadTailProperties, SMTT(20), ZenonT(20)
    <3> HIDE DEF rest, h, k, r
    <3>4. ASSUME NEW i \in 1 .. r
          PROVE  i + 1 \in 1 .. h /\ (k - h) + (i + 1) = (k - r) + i /\ (k - r) + i \in 1 .. k
      <4>1. h >= 1 /\ h <= k
        BY <1>1, <2>1 DEF h, full
      <4> QED BY <1>1, <3>3, <4>1
    <3>5. \A i \in 1 .. r : rest[i] = log[(k - r) + i]
      <4> SUFFICES ASSUME NEW i \in 1 .. r PROVE rest[i] = log[(k - r) + i]
        OBVIOUS
      <4>1. i + 1 \in DOMAIN history /\ (k - h) + (i + 1) = (k - r) + i
        BY <1>1, <3>4
      <4>2. history[i + 1] = log[(k - h) + (i + 1)]
        BY <1>1, <4>1
      <4> QED BY <3>3, <4>1, <4>2
    <3>6. r \in Nat
      BY <3>3, LenProperties DEF r
    <3> QED BY <2>1, <3>3, <3>4, <3>5, <3>6
  <2>2. CASE ~full
    <3>1. rest = history /\ r = h
      BY <2>2
    <3>2. h = k
      BY <1>1, <2>2
    <3> HIDE DEF rest, h, k, r
    <3>3. \A i \in 1 .. r : (k - r) + i \in 1 .. k
      BY <1>1, <3>1, <3>2
    <3> QED BY <1>1, <2>2, <3>1, <3>3
  <2> QED BY <2>1, <2>2
<1>3. history' = Append(rest, x)
  BY DEF Pushed
<1> HIDE DEF rest
<1>4. /\ history' \in Seq(Forecast) /\ Len(history') = r + 1 /\ history'[r + 1] = x
      /\ \A i \in 1 .. r : history'[i] = rest[i]
  BY <1>2, <1>3, AppendProperties
<1>5. /\ Len(log') = k + 1 /\ log'[k + 1] = x /\ \A i \in 1 .. k : log'[i] = log[i]
  BY <1>1, AppendProperties
<1>6. DOMAIN history' = 1 .. r + 1
  BY <1>4, LenProperties
<1> HIDE DEF h, k, r
<1>7. r + 1 = IF k + 1 < HistoryCap THEN k + 1 ELSE HistoryCap
  BY <1>1, <1>2 DEF full, h
<1>8. ASSUME NEW i \in 1 .. r + 1 PROVE history'[i] = log'[((k + 1) - (r + 1)) + i]
  <2>1. CASE i \in 1 .. r
    <3>1. ((k + 1) - (r + 1)) + i = (k - r) + i
      BY <1>1, <1>2
    <3> QED BY <1>2, <1>4, <1>5, <2>1, <3>1
  <2>2. CASE i = r + 1
    <3>1. ((k + 1) - (r + 1)) + i = k + 1
      BY <1>1, <1>2, <2>2
    <3> QED BY <1>4, <1>5, <2>2, <3>1
  <2>3. i \in 1 .. r \/ i = r + 1
    BY <1>2
  <2> QED BY <2>1, <2>2, <2>3
<1>9. r + 1 <= HistoryCap
  BY <1>1, <1>2, <1>7
<1> QED BY <1>4, <1>5, <1>6, <1>7, <1>8, <1>9
(* A stream records the next forecast of its frame.                        *)
LEMMA PushStep ==
  ASSUME WeatherInv, NEW c \in Subscriber, PushHistory(c)
  PROVE  WeatherInv'
<1> DEFINE n == pushed[c]
           x == frame[c][n + 1]
<1>1. TypeOK /\ RegistryInv /\ FeedsInv /\ RingInv /\ FeedInv(c)
  BY DEF WeatherInv, FeedsInv
<1>2. /\ task[c] = "push" /\ history' = Pushed(x) /\ log' = Append(log, x)
      /\ pushed' = [pushed EXCEPT ![c] = n + 1]
      /\ task' = (IF pushed'[c] = Len(frame[c]) THEN [task EXCEPT ![c] = "send"] ELSE task)
      /\ UNCHANGED <<frame, built, channel, got, gone, clock>> /\ UNCHANGED registry
  BY DEF PushHistory
<1>3. /\ n \in Nat /\ Len(frame[c]) \in Nat /\ n < Len(frame[c]) /\ frame[c] \in Seq(Forecast)
      /\ n + 1 \in DOMAIN frame[c]
  <2>1. n \in Nat /\ frame[c] \in Seq(Forecast) /\ n < Len(frame[c])
    BY <1>1, <1>2 DEF TypeOK, FeedInv
  <2> HIDE DEF n
  <2>2. n + 1 \in 1 .. Len(frame[c]) /\ Len(frame[c]) \in Nat
    BY <2>1, LenProperties
  <2> QED BY <2>1, <2>2, LenProperties
<1>4. x \in Forecast /\ x.by = c /\ x.no = built[c]
  <2>1. x \in Forecast
    BY <1>3, ElementOfSeq, LenProperties
  <2> QED BY <1>1, <1>3, <2>1 DEF FeedInv
<1> HIDE DEF x
<1>5. /\ built[c] \in Int /\ log \in Seq(Forecast) /\ Len(log) \in Nat
      /\ DOMAIN log = 1 .. Len(log) /\ log' \in Seq(Forecast)
      /\ DOMAIN log' = 1 .. Len(log) + 1 /\ log'[Len(log) + 1] = x
      /\ \A i \in DOMAIN log : i \in DOMAIN log' /\ log'[i] = log[i]
      /\ \A i \in DOMAIN log' : i \in DOMAIN log \/ i = Len(log) + 1
  <2>1. log \in Seq(Forecast) /\ built[c] \in Int
    BY <1>1 DEF TypeOK
  <2> QED BY <1>2, <1>4, <2>1, AppendProperties, LenProperties
<1>6. /\ pushed'[c] = n + 1 /\ task'[c] = (IF n + 1 = Len(frame[c]) THEN "send" ELSE "push")
      /\ \A d \in Subscriber : d # c => pushed'[d] = pushed[d] /\ task'[d] = task[d]
  BY <1>1, <1>2 DEF TypeOK
<1>7. /\ history' \in Seq(Forecast) /\ Len(history') <= HistoryCap
      /\ Len(history') = IF Len(log') < HistoryCap THEN Len(log') ELSE HistoryCap
      /\ \A i \in DOMAIN history' : history'[i] = log'[(Len(log') - Len(history')) + i]
  BY <1>1, <1>2, <1>4, RingPushes
<1>8. TypeOK'
  <2>1. /\ pushed' \in [Subscriber -> Nat]
        /\ task' \in [Subscriber -> {"none", "build", "push", "send", "sleep", "over"}]
    BY <1>1, <1>2, <1>3 DEF TypeOK
  <2>2. \A d \in Subscriber : pushed'[d] \in 0 .. Len(frame'[d])
    <3>1. n + 1 \in 0 .. Len(frame[c])
      BY <1>3
    <3> QED BY <1>1, <1>2, <1>6, <3>1 DEF TypeOK
  <2> QED BY <1>1, <1>2, <1>5, <1>7, <2>1, <2>2 DEF TypeOK, registry
<1>9. \A d \in Subscriber : Offered(d)' = Offered(d)
  BY <1>2 DEF Offered
<1>10. FeedInv(c)'
  <2>1. Under(c) /\ Under(c)' /\ FramesDone(c) = built[c] - 1 /\ FramesDone(c)' = built[c] - 1
    BY <1>2, <1>6 DEF Under, FramesDone
  <2>2. IsRecorded(log', c, built'[c], frame'[c], pushed'[c])
    <3>1. IsRecorded(log, c, built[c], frame[c], n)
      BY <1>1, <2>1 DEF FeedInv
    <3>2. x = frame[c][n + 1]
      BY DEF x
    <3>3. IsRecorded(Append(log, x), c, built[c], frame[c], n + 1)
      <4> HIDE DEF n
      <4> QED BY <1>3, <1>4, <1>5, <3>1, <3>2, LogGrows
    <3> QED BY <1>2, <1>6, <3>3
  <2>3. /\ task'[c] = "push" => pushed'[c] < Len(frame'[c])
        /\ task'[c] = "send" => pushed'[c] = Len(frame'[c])
    BY <1>2, <1>3, <1>6
  <2>4. task'[c] \notin {"build", "sleep", "none"}
    BY <1>6
  <2> QED BY <1>1, <1>2, <1>9, <2>1, <2>2, <2>3, <2>4 DEF FeedInv
<1>11. FeedsInv'
  <2>1. ASSUME NEW d \in Subscriber, d # c PROVE FeedInv(d)'
    <3>1. pushed[d] \in Nat
      BY <1>1 DEF TypeOK
    <3>2. IsRecorded(log, d, built[d], frame[d], pushed[d])
            => IsRecorded(log', d, built[d], frame[d], pushed[d])
      BY <1>2, <1>4, <1>5, <2>1, <3>1, LogGrows
    <3> QED BY <1>1, <1>2, <1>6, <1>9, <2>1, <3>2, StreamAside DEF FeedsInv
  <2> QED BY <1>10, <2>1 DEF FeedsInv
<1>12. \A i \in DOMAIN log' : log'[i].no <= built'[log'[i].by]
  <2>1. \A i \in DOMAIN log : log'[i].no <= built'[log'[i].by]
    BY <1>1, <1>2, <1>5 DEF RingInv
  <2>2. x.no <= built'[x.by]
    BY <1>2, <1>4, <1>5
  <2> QED BY <1>5, <2>1, <2>2
<1>13. ReceivedWasRecorded'
  <2>1. /\ \A d \in Subscriber : \A k \in DOMAIN Offered(d) :
             IsRecorded(log, d, k, Offered(d)[k], Len(Offered(d)[k]))
        /\ \A i, j \in DOMAIN log : i < j /\ log[i].by = log[j].by => log[i].no <= log[j].no
    BY <1>1 DEF RingInv, ReceivedWasRecorded
  <2>2. ASSUME NEW d \in Subscriber, NEW k \in DOMAIN Offered(d)
        PROVE  IsRecorded(log', d, k, Offered(d)[k], Len(Offered(d)[k]))
    <3>1. /\ Offered(d) \in Seq(Seq(Forecast)) /\ k \in 1 .. Len(Offered(d))
          /\ Len(Offered(d)[k]) \in Nat /\ k \in Int /\ Len(Offered(d)) \in Nat
      <4>1. got[d] \in Seq(Seq(Forecast)) /\ channel[d] \in Seq(Seq(Forecast))
        BY <1>1 DEF TypeOK
      <4>2. Offered(d) \in Seq(Seq(Forecast))
        BY <4>1, ConcatProperties DEF Offered
      <4>3. k \in 1 .. Len(Offered(d)) /\ Len(Offered(d)) \in Nat
        BY <4>2, LenProperties
      <4>4. Offered(d)[k] \in Seq(Forecast)
        BY <4>2, <4>3, ElementOfSeq
      <4> QED BY <4>2, <4>3, <4>4, LenProperties
    <3>2. x.by # d \/ x.no # k
      <4>1. CASE d = c
        <5>1. Len(Offered(c)) <= built[c] - 1
          BY <1>1, <1>2 DEF FeedInv, FramesDone, Under
        <5>2. k # built[c]
          BY <1>5, <3>1, <4>1, <5>1
        <5> QED BY <1>4, <5>2
      <4> QED BY <1>4, <4>1
    <3>3. IsRecorded(log, d, k, Offered(d)[k], Len(Offered(d)[k]))
      BY <2>1
    <3>4. IsRecorded(Append(log, x), d, k, Offered(d)[k], Len(Offered(d)[k]))
      BY <1>4, <1>5, <3>1, <3>2, <3>3, LogGrows
    <3> QED BY <1>2, <3>4
  <2>3. ASSUME NEW i \in DOMAIN log', NEW j \in DOMAIN log', i < j, log'[i].by = log'[j].by
        PROVE  log'[i].no <= log'[j].no
    <3>1. i \in DOMAIN log
      BY <1>5, <2>3
    <3>2. CASE j \in DOMAIN log
      BY <1>5, <2>1, <2>3, <3>1, <3>2
    <3>3. CASE j = Len(log) + 1
      <4>1. log[i].by = c /\ log[i].no <= built[log[i].by]
        BY <1>1, <1>4, <1>5, <2>3, <3>1, <3>3 DEF RingInv
      <4> QED BY <1>4, <1>5, <3>1, <3>3, <4>1
    <3> QED BY <1>5, <3>2, <3>3
  <2>4. \A d \in Subscriber : \A k \in DOMAIN Offered(d)' :
          IsRecorded(log', d, k, Offered(d)'[k], Len(Offered(d)'[k]))
    BY <1>9, <2>2
  <2> QED BY <2>3, <2>4 DEF ReceivedWasRecorded
<1>14. RingInv'
  BY <1>7, <1>12, <1>13 DEF RingInv
<1> QED BY <1>1, <1>2, <1>8, <1>11, <1>14, RegistryAside DEF WeatherInv

(* A frame is offered, or its client is found to be gone.                  *)
LEMMA OfferStep ==
  ASSUME WeatherInv, NEW c \in Subscriber, Send(c)
  PROVE  WeatherInv'
<1>1. TypeOK /\ RegistryInv /\ FeedsInv /\ RingInv /\ FeedInv(c)
  BY DEF WeatherInv, FeedsInv
<1>2. /\ task[c] = "send" /\ task' = [task EXCEPT ![c] = Sent(c)]
      /\ UNCHANGED <<frame, pushed, built, got, gone, clock>>
      /\ UNCHANGED registry /\ UNCHANGED ring
      /\ gone[c] => channel' = channel
      /\ ~gone[c] => /\ Len(channel[c]) < ChannelCap
                     /\ channel' = [channel EXCEPT ![c] = Append(channel[c], frame[c])]
  BY DEF Send
<1>3. log' = log /\ history' = history
  BY <1>2 DEF ring
<1>4. /\ got[c] \in Seq(Seq(Forecast)) /\ channel[c] \in Seq(Seq(Forecast))
      /\ frame[c] \in Seq(Forecast) /\ built[c] \in Int /\ ChannelCap \in Nat
  BY <1>1, WeatherAssumption DEF TypeOK
<1>5. /\ task'[c] = Sent(c) /\ (gone[c] => channel'[c] = channel[c])
      /\ (~gone[c] => channel'[c] = Append(channel[c], frame[c]))
      /\ \A d \in Subscriber : d # c => task'[d] = task[d] /\ channel'[d] = channel[d]
  BY <1>1, <1>2 DEF TypeOK
<1>6. TypeOK'
  <2>1. Sent(c) \in {"none", "build", "push", "send", "sleep", "over"}
    BY DEF Sent
  <2>2. task' \in [Subscriber -> {"none", "build", "push", "send", "sleep", "over"}]
    BY <1>1, <1>2, <2>1 DEF TypeOK
  <2>3. /\ Append(channel[c], frame[c]) \in Seq(Seq(Forecast))
        /\ Len(Append(channel[c], frame[c])) = Len(channel[c]) + 1 /\ Len(channel[c]) \in Nat
    BY <1>4, AppendProperties, LenProperties
  <2>4. channel' \in [Subscriber -> Seq(Seq(Forecast))]
    BY <1>1, <1>2, <2>3 DEF TypeOK
  <2>5. Len(channel'[c]) <= ChannelCap
    BY <1>1, <1>2, <1>4, <1>5, <2>3 DEF TypeOK
  <2>6. \A d \in Subscriber : Len(channel'[d]) <= ChannelCap
    BY <1>1, <1>5, <2>5 DEF TypeOK
  <2> QED BY <1>1, <1>2, <1>3, <2>2, <2>4, <2>6 DEF TypeOK, registry
<1>7. /\ \A d \in Subscriber : d # c => Offered(d)' = Offered(d)
      /\ gone[c] => Offered(c)' = Offered(c)
      /\ ~gone[c] => Offered(c)' = Append(Offered(c), frame[c])
  <2>1. got[c] \o Append(channel[c], frame[c]) = Append(got[c] \o channel[c], frame[c])
    <3> DEFINE T == Seq(Forecast)
               S == got[c]
               U == channel[c]
               F == frame[c]
    <3>1. S \in Seq(T) /\ U \in Seq(T) /\ F \in T
      BY <1>4
    <3>2. S \o Append(U, F) = Append(S \o U, F)
      <4> HIDE DEF T, S, U, F
      <4> QED BY <3>1, SentIsLast
    <3> QED BY <3>2
  <2> QED BY <1>2, <1>5, <2>1 DEF Offered
<1>8. /\ Offered(c) \in Seq(Seq(Forecast)) /\ Len(Offered(c)) \in Nat
      /\ DOMAIN Offered(c) = 1 .. Len(Offered(c))
  <2>1. Offered(c) \in Seq(Seq(Forecast))
    BY <1>4, ConcatProperties DEF Offered
  <2> QED BY <2>1, LenProperties
<1>9. ~gone[c] => /\ Len(Offered(c)) = built[c] - 1 /\ Len(Offered(c)') = built[c]
                  /\ DOMAIN (Offered(c)') = 1 .. built[c] /\ Offered(c)'[built[c]] = frame[c]
                  /\ \A k \in 1 .. built[c] - 1 : Offered(c)'[k] = Offered(c)[k]
  <2> SUFFICES ASSUME ~gone[c]
               PROVE  /\ Len(Offered(c)) = built[c] - 1 /\ Len(Offered(c)') = built[c]
                      /\ DOMAIN (Offered(c)') = 1 .. built[c] /\ Offered(c)'[built[c]] = frame[c]
                      /\ \A k \in 1 .. built[c] - 1 : Offered(c)'[k] = Offered(c)[k]
    OBVIOUS
  <2>1. Len(Offered(c)) = built[c] - 1
    BY <1>1, <1>2 DEF FeedInv, FramesDone, Under
  <2>2. /\ Append(Offered(c), frame[c]) \in Seq(Seq(Forecast))
        /\ Len(Append(Offered(c), frame[c])) = Len(Offered(c)) + 1
        /\ \A k \in 1 .. Len(Offered(c)) : Append(Offered(c), frame[c])[k] = Offered(c)[k]
        /\ Append(Offered(c), frame[c])[Len(Offered(c)) + 1] = frame[c]
    BY <1>4, <1>8, AppendProperties
  <2>3. Len(Offered(c)) + 1 = built[c]
    BY <1>4, <2>1
  <2>4. DOMAIN Append(Offered(c), frame[c]) = 1 .. built[c]
    BY <2>2, <2>3, LenProperties
  <2> QED BY <1>7, <2>1, <2>2, <2>3, <2>4
<1>10. FeedInv(c)'
  <2>1. Under(c) /\ ~Under(c)' /\ FramesDone(c) = built[c] - 1 /\ FramesDone(c)' = built[c]
    BY <1>2, <1>5 DEF Under, FramesDone, Sent
  <2>2. Len(Offered(c)') <= built[c] /\ (~gone[c] => Len(Offered(c)') = built[c])
    <3>1. CASE gone[c]
      <4>1. Len(Offered(c)) <= built[c] - 1
        BY <1>1, <2>1 DEF FeedInv
      <4>2. Len(Offered(c)) <= built[c]
        BY <1>4, <1>8, <4>1
      <4> QED BY <1>7, <3>1, <4>2
    <3>2. CASE ~gone[c]
      BY <1>4, <1>9, <3>2
    <3> QED BY <3>1, <3>2
  <2>3. task'[c] \in {"build", "sleep", "none"} \/ ~gone[c] => built[c] <= MaxFrames
    BY <1>1, <1>2, <1>5 DEF FeedInv, Sent
  <2>4. task'[c] # "push" /\ task'[c] # "send"
    BY <1>5 DEF Sent
  <2> QED BY <1>1, <1>2, <2>1, <2>2, <2>3, <2>4 DEF FeedInv
<1>11. FeedsInv'
  <2>1. ASSUME NEW d \in Subscriber, d # c PROVE FeedInv(d)'
    BY <1>1, <1>2, <1>3, <1>5, <1>7, <2>1, StreamAside DEF FeedsInv
  <2> QED BY <1>10, <2>1 DEF FeedsInv
<1>12. ReceivedWasRecorded'
  <2>1. /\ \A d \in Subscriber : \A k \in DOMAIN Offered(d) :
             IsRecorded(log, d, k, Offered(d)[k], Len(Offered(d)[k]))
        /\ \A i, j \in DOMAIN log : i < j /\ log[i].by = log[j].by => log[i].no <= log[j].no
    BY <1>1 DEF RingInv, ReceivedWasRecorded
  <2>2. ASSUME NEW d \in Subscriber, NEW k \in DOMAIN (Offered(d)')
        PROVE  IsRecorded(log, d, k, Offered(d)'[k], Len(Offered(d)'[k]))
    <3>1. CASE d # c \/ gone[c]
      <4>1. Offered(d)' = Offered(d)
        BY <1>7, <3>1
      <4> QED BY <2>1, <4>1
    <3>2. CASE d = c /\ ~gone[c]
      <4>1. k \in 1 .. built[c]
        BY <1>9, <3>2
      <4>2. CASE k = built[c]
        <5>1. IsRecorded(log, c, built[c], frame[c], Len(frame[c]))
          BY <1>1, <1>2 DEF FeedInv, Under
        <5> QED BY <1>9, <3>2, <4>2, <5>1
      <4>3. CASE k \in 1 .. built[c] - 1
        <5>1. k \in DOMAIN Offered(c) /\ Offered(c)'[k] = Offered(c)[k]
          BY <1>8, <1>9, <3>2, <4>3
        <5> QED BY <2>1, <3>2, <5>1
      <4> QED BY <1>4, <4>1, <4>2, <4>3
    <3> QED BY <3>1, <3>2
  <2> QED BY <1>3, <2>1, <2>2 DEF ReceivedWasRecorded
<1>13. RingInv'
  BY <1>1, <1>2, <1>3, <1>12 DEF RingInv
<1> QED BY <1>1, <1>2, <1>6, <1>11, <1>13, RegistryAside DEF WeatherInv
(* The client takes a frame; what it was offered is what it was.           *)
LEMMA ReceiveStep ==
  ASSUME WeatherInv, NEW c \in Subscriber, Receive(c)
  PROVE  WeatherInv'
<1>1. TypeOK /\ RegistryInv /\ FeedsInv /\ RingInv
  BY DEF WeatherInv
<1>2. /\ channel[c] # << >> /\ got' = [got EXCEPT ![c] = Append(got[c], Head(channel[c]))]
      /\ channel' = [channel EXCEPT ![c] = Tail(channel[c])]
      /\ UNCHANGED <<task, frame, pushed, built, gone, clock>>
      /\ UNCHANGED registry /\ UNCHANGED ring
  BY DEF Receive
<1>3. log' = log /\ history' = history
  BY <1>2 DEF ring
<1> DEFINE T == Seq(Forecast)
<1>4. got[c] \in Seq(T) /\ channel[c] \in Seq(T) /\ ChannelCap \in Nat
  BY <1>1, WeatherAssumption DEF TypeOK
<1>5. /\ got'[c] = Append(got[c], Head(channel[c])) /\ channel'[c] = Tail(channel[c])
      /\ \A d \in Subscriber : d # c => got'[d] = got[d] /\ channel'[d] = channel[d]
  BY <1>1, <1>2 DEF TypeOK
<1> HIDE DEF T
<1>6. /\ Head(channel[c]) \in T /\ Tail(channel[c]) \in Seq(T)
      /\ Append(got[c], Head(channel[c])) \in Seq(T)
      /\ Len(Tail(channel[c])) = Len(channel[c]) - 1 /\ Len(channel[c]) \in Nat
      /\ Append(got[c], Head(channel[c])) \o Tail(channel[c]) = got[c] \o channel[c]
  <2>1. Head(channel[c]) \in T /\ Tail(channel[c]) \in Seq(T)
        /\ Len(Tail(channel[c])) = Len(channel[c]) - 1
    BY <1>2, <1>4, HeadTailProperties
  <2>2. Append(got[c], Head(channel[c])) \in Seq(T)
    BY <1>4, <2>1, AppendProperties
  <2> QED BY <1>2, <1>4, <2>1, <2>2, HeadMoves, LenProperties
<1>7. \A d \in Subscriber : Offered(d)' = Offered(d)
  BY <1>5, <1>6 DEF Offered
<1>8. TypeOK'
  <2>1. got' \in [Subscriber -> Seq(T)] /\ channel' \in [Subscriber -> Seq(T)]
    BY <1>1, <1>2, <1>6 DEF TypeOK, T
  <2>2. \A d \in Subscriber : Len(channel'[d]) <= ChannelCap
    <3>1. Len(channel[c]) <= ChannelCap
      BY <1>1 DEF TypeOK
    <3>2. Len(Tail(channel[c])) <= ChannelCap
      BY <1>4, <1>6, <3>1
    <3> QED BY <1>1, <1>5, <3>2 DEF TypeOK
  <2> QED BY <1>1, <1>2, <1>3, <2>1, <2>2 DEF TypeOK, registry, T
<1>9. FeedsInv'
  BY <1>1, <1>2, <1>3, <1>7, StreamAside DEF FeedsInv
<1>10. RingInv'
  <2>1. \A d \in Subscriber : built[d] <= built'[d] /\ built'[d] \in Int
    BY <1>1, <1>2 DEF TypeOK
  <2> QED BY <1>1, <1>2, <1>7, <2>1, RingAside
<1> QED BY <1>1, <1>2, <1>8, <1>9, <1>10, RegistryAside DEF WeatherInv

(* The client hangs up, and what was on its way is lost.                   *)
LEMMA HangUpStep ==
  ASSUME WeatherInv, NEW c \in Subscriber, HangUp(c)
  PROVE  WeatherInv'
<1>1. TypeOK /\ RegistryInv /\ FeedsInv /\ RingInv /\ FeedInv(c)
  BY DEF WeatherInv, FeedsInv
<1>2. /\ ~gone[c] /\ gone' = [gone EXCEPT ![c] = TRUE]
      /\ channel' = [channel EXCEPT ![c] = << >>]
      /\ UNCHANGED <<task, frame, pushed, built, got, clock>>
      /\ UNCHANGED registry /\ UNCHANGED ring
  BY DEF HangUp
<1>3. log' = log /\ history' = history
  BY <1>2 DEF ring
<1> DEFINE T == Seq(Forecast)
<1>4. got[c] \in Seq(T) /\ channel[c] \in Seq(T) /\ ChannelCap \in Nat /\ built[c] \in Int
  BY <1>1, WeatherAssumption DEF TypeOK
<1>5. /\ gone'[c] = TRUE /\ channel'[c] = << >>
      /\ \A d \in Subscriber : d # c => gone'[d] = gone[d] /\ channel'[d] = channel[d]
  BY <1>1, <1>2 DEF TypeOK
<1>6. TypeOK'
  <2>1. << >> \in Seq(T) /\ Len(<< >>) <= ChannelCap
    BY <1>4
  <2>2. channel' \in [Subscriber -> Seq(T)] /\ gone' \in [Subscriber -> BOOLEAN]
    BY <1>1, <1>2, <2>1 DEF TypeOK
  <2>3. \A d \in Subscriber : Len(channel'[d]) <= ChannelCap
    BY <1>1, <1>5, <2>1 DEF TypeOK
  <2> QED BY <1>1, <1>2, <1>3, <2>2, <2>3 DEF TypeOK, registry
<1> HIDE DEF T
<1>7. \A d \in Subscriber : d # c => Offered(d)' = Offered(d)
  BY <1>2, <1>5 DEF Offered
<1>8. /\ Offered(c)' = got[c] /\ Len(got[c]) \in Nat /\ Len(Offered(c)) \in Nat
      /\ Len(got[c]) <= Len(Offered(c))
      /\ \A k \in DOMAIN got[c] : k \in DOMAIN Offered(c) /\ Offered(c)[k] = got[c][k]
  <2>1. Offered(c)' = got[c]
    BY <1>2, <1>4, <1>5, ConcatEmptySeq DEF Offered
  <2>2. /\ Offered(c) \in Seq(T) /\ Len(Offered(c)) = Len(got[c]) + Len(channel[c])
        /\ \A k \in 1 .. Len(got[c]) + Len(channel[c]) : Offered(c)[k] =
             IF k <= Len(got[c]) THEN got[c][k] ELSE channel[c][k - Len(got[c])]
    BY <1>4, ConcatProperties DEF Offered
  <2>3. /\ Len(got[c]) \in Nat /\ Len(channel[c]) \in Nat /\ DOMAIN got[c] = 1 .. Len(got[c])
        /\ DOMAIN Offered(c) = 1 .. Len(Offered(c))
    BY <1>4, <2>2, LenProperties
  <2>4. /\ \A k \in DOMAIN got[c] : k \in 1 .. Len(got[c]) + Len(channel[c]) /\ k <= Len(got[c])
        /\ Len(got[c]) <= Len(got[c]) + Len(channel[c])
        /\ Len(got[c]) + Len(channel[c]) \in Nat
    <3> DEFINE a == Len(got[c])
               b == Len(channel[c])
    <3>1. a \in Nat /\ b \in Nat
      BY <2>3
    <3>2. a <= a + b /\ a + b \in Nat /\ \A k \in 1 .. a : k \in 1 .. a + b /\ k <= a
      <4> HIDE DEF a, b
      <4> QED BY <3>1
    <3> QED BY <2>3, <3>2
  <2>5. Len(got[c]) <= Len(Offered(c)) /\ Len(Offered(c)) \in Nat
    BY <2>2, <2>4
  <2> QED BY <2>1, <2>2, <2>3, <2>4, <2>5
<1>9. FeedInv(c)'
  <2>1. Under(c)' = Under(c) /\ FramesDone(c)' = FramesDone(c) /\ FramesDone(c) \in Int
    BY <1>2, <1>4 DEF Under, FramesDone
  <2>2. Len(Offered(c)') <= FramesDone(c)
    <3>1. Len(Offered(c)) <= FramesDone(c)
      BY <1>1 DEF FeedInv
    <3> QED BY <1>8, <2>1, <3>1
  <2>3. built[c] <= MaxFrames
    BY <1>1, <1>2 DEF FeedInv
  <2> QED BY <1>1, <1>2, <1>3, <1>5, <2>1, <2>2, <2>3 DEF FeedInv
<1>10. FeedsInv'
  <2>1. ASSUME NEW d \in Subscriber, d # c PROVE FeedInv(d)'
    BY <1>1, <1>2, <1>3, <1>5, <1>7, <2>1, StreamAside DEF FeedsInv
  <2> QED BY <1>9, <2>1 DEF FeedsInv
<1>11. ReceivedWasRecorded'
  <2>1. /\ \A d \in Subscriber : \A k \in DOMAIN Offered(d) :
             IsRecorded(log, d, k, Offered(d)[k], Len(Offered(d)[k]))
        /\ \A i, j \in DOMAIN log : i < j /\ log[i].by = log[j].by => log[i].no <= log[j].no
    BY <1>1 DEF RingInv, ReceivedWasRecorded
  <2>2. ASSUME NEW d \in Subscriber, NEW k \in DOMAIN (Offered(d)')
        PROVE  IsRecorded(log, d, k, Offered(d)'[k], Len(Offered(d)'[k]))
    <3>1. k \in DOMAIN Offered(d) /\ Offered(d)'[k] = Offered(d)[k]
      BY <1>7, <1>8
    <3> QED BY <2>1, <3>1
  <2> QED BY <1>3, <2>1, <2>2 DEF ReceivedWasRecorded
<1>12. RingInv'
  BY <1>1, <1>2, <1>3, <1>11 DEF RingInv
<1> QED BY <1>1, <1>2, <1>6, <1>10, <1>12, RegistryAside DEF WeatherInv

LEMMA SecondStep ==
  ASSUME WeatherInv, SecondPasses \/ UNCHANGED vars
  PROVE  WeatherInv'
<1>1. TypeOK /\ RegistryInv /\ FeedsInv /\ RingInv
  BY DEF WeatherInv
<1>2. /\ UNCHANGED <<task, frame, pushed, built, channel, got, gone>>
      /\ UNCHANGED registry /\ UNCHANGED ring
      /\ clock' = clock \/ (clock < MaxTime /\ clock' = clock + 1)
  BY DEF SecondPasses, vars
<1>3. log' = log /\ history' = history
  BY <1>2 DEF ring
<1>4. TypeOK'
  <2>1. clock' \in 0 .. MaxTime
    BY <1>1, <1>2, WeatherAssumption DEF TypeOK
  <2> QED BY <1>1, <1>2, <1>3, <2>1 DEF TypeOK, registry
<1>5. \A d \in Subscriber : Offered(d)' = Offered(d)
  BY <1>2 DEF Offered
<1>6. FeedsInv'
  BY <1>1, <1>2, <1>3, <1>5, StreamAside DEF FeedsInv
<1>7. RingInv'
  <2>1. \A d \in Subscriber : built[d] <= built'[d] /\ built'[d] \in Int
    BY <1>1, <1>2 DEF TypeOK
  <2> QED BY <1>1, <1>2, <1>5, <2>1, RingAside
<1> QED BY <1>1, <1>2, <1>4, <1>6, <1>7, RegistryAside DEF WeatherInv

(* What holds of registry, streams and ring at every moment.               *)
THEOREM WeatherInvariant == Spec => []WeatherInv
<1>1. Init => WeatherInv
  <2> SUFFICES ASSUME Init PROVE WeatherInv
    OBVIOUS
  <2>1. PICK v \in Cover : locations = <<[point |-> Default, cover |-> v]>>
    BY DEF Init
  <2>2. /\ locations \in Seq(Location) /\ DOMAIN locations = {1}
        /\ locations[1].point = Default /\ locations # << >>
    BY <2>1, WeatherAssumption DEF Location
  <2>3. /\ by_key = [p \in {Default} |-> 1] /\ by_area = [a \in {} |-> 1]
        /\ linked = [a \in {} |-> Default] /\ history = << >> /\ log = << >> /\ clock = 0
        /\ task = [c \in Subscriber |-> "none"] /\ frame = [c \in Subscriber |-> << >>]
        /\ pushed = [c \in Subscriber |-> 0] /\ built = [c \in Subscriber |-> 0]
        /\ channel = [c \in Subscriber |-> << >>] /\ got = [c \in Subscriber |-> << >>]
        /\ gone = [c \in Subscriber |-> FALSE]
    BY DEF Init
  <2>4. TypeOK
    <3>1. << >> \in Seq(Forecast) /\ << >> \in Seq(Seq(Forecast)) /\ Len(<< >>) = 0
      OBVIOUS
    <3>2. HistoryCap \in Nat /\ ChannelCap \in Nat /\ MaxFrames \in Nat /\ MaxTime \in Nat
      BY WeatherAssumption
    <3>3. Default \in Point
      BY WeatherAssumption
    <3> QED BY <2>2, <2>3, <3>1, <3>2, <3>3 DEF TypeOK
  <2>5. RegistryInv
    BY <2>2, <2>3 DEF RegistryInv, OneSlotPerPoint
  <2>6. \A c \in Subscriber : Offered(c) = << >>
    BY <2>3 DEF Offered
  <2>7. FeedsInv
    <3> SUFFICES ASSUME NEW c \in Subscriber PROVE FeedInv(c)
      BY DEF FeedsInv
    <3>1. ~Under(c) /\ FramesDone(c) = 0
      BY <2>3 DEF Under, FramesDone
    <3> QED BY <2>3, <2>6, <3>1, WeatherAssumption DEF FeedInv
  <2>8. RingInv
    BY <2>3, <2>6, WeatherAssumption DEF RingInv, ReceivedWasRecorded
  <2> QED BY <2>4, <2>5, <2>7, <2>8 DEF WeatherInv
<1>2. WeatherInv /\ [Next]_vars => WeatherInv'
  <2> SUFFICES ASSUME WeatherInv, [Next]_vars PROVE WeatherInv'
    OBVIOUS
  <2>1. ASSUME NEW p \in Point, NEW v \in Cover, NEW A \in {{}} \cup {{a} : a \in AreaCodes},
               MakeWeatherLocation(p, v, A)
        PROVE  WeatherInv'
    BY <2>1, RegisterStep
  <2>2. ASSUME NEW c \in Subscriber, Open(c) \/ Wake(c) PROVE WeatherInv'
    BY <2>2, TurnStep
  <2>3. ASSUME NEW c \in Subscriber, Build(c) PROVE WeatherInv'
    BY <2>3, BuildStep
  <2>4. ASSUME NEW c \in Subscriber, PushHistory(c) PROVE WeatherInv'
    BY <2>4, PushStep
  <2>5. ASSUME NEW c \in Subscriber, Send(c) PROVE WeatherInv'
    BY <2>5, OfferStep
  <2>6. ASSUME NEW c \in Subscriber, Receive(c) PROVE WeatherInv'
    BY <2>6, ReceiveStep
  <2>7. ASSUME NEW c \in Subscriber, HangUp(c) PROVE WeatherInv'
    BY <2>7, HangUpStep
  <2>8. CASE SecondPasses \/ UNCHANGED vars
    BY <2>8, SecondStep
  <2> QED BY <2>1, <2>2, <2>3, <2>4, <2>5, <2>6, <2>7, <2>8 DEF Next
<1> QED BY <1>1, <1>2, PTL DEF Spec

(* What the ring's end is as a piece of the log.                           *)
LEMMA RingIsNewest ==
  ASSUME TypeOK, RingInv
  PROVE  HistoryIsNewest
<1> DEFINE k == Len(log)
           h == Len(history)
           first == IF k > HistoryCap THEN k - HistoryCap + 1 ELSE 1
           s == SubSeq(log, first, k)
<1>1. /\ k \in Nat /\ h \in Nat /\ HistoryCap \in Nat \ {0} /\ DOMAIN history = 1 .. h
      /\ h = (IF k < HistoryCap THEN k ELSE HistoryCap)
      /\ history \in Seq(Forecast) /\ log \in Seq(Forecast)
      /\ \A i \in 1 .. h : history[i] = log[(k - h) + i]
  BY WeatherAssumption, LenProperties DEF TypeOK, RingInv
<1>2. first \in Int /\ first >= 1 /\ (k - first) + 1 = h
  <2> HIDE DEF k, h
  <2>1. CASE k > HistoryCap
    <3>1. first = k - HistoryCap + 1 /\ h = HistoryCap
      BY <1>1, <2>1
    <3> HIDE DEF first
    <3> QED BY <1>1, <2>1, <3>1
  <2>2. CASE ~(k > HistoryCap)
    <3>1. first = 1 /\ h = k
      BY <1>1, <2>2
    <3> HIDE DEF first
    <3> QED BY <1>1, <2>2, <3>1
  <2>3. k > HistoryCap \/ ~(k > HistoryCap)
    OBVIOUS
  <2> QED BY <2>1, <2>2, <2>3
<1>3. \A i \in first .. k : log[i] \in Forecast
  <2>1. \A i \in first .. k : i \in 1 .. k
    BY <1>1, <1>2
  <2> QED BY <1>1, <2>1, ElementOfSeq
<1> HIDE DEF first, k, h
<1>4. /\ SubSeq(log, first, k) \in Seq(Forecast)
      /\ Len(SubSeq(log, first, k)) = IF first <= k THEN k - first + 1 ELSE 0
      /\ \A i \in 1 .. k - first + 1 : SubSeq(log, first, k)[i] = log[first + i - 1]
  BY <1>1, <1>2, <1>3, SubSeqProperties
<1>5. Len(s) = h
  BY <1>1, <1>2, <1>4
<1>6. ASSUME NEW i \in 1 .. h PROVE history[i] = s[i]
  <2>1. i \in 1 .. k - first + 1 /\ first + i - 1 = (k - h) + i
    BY <1>1, <1>2
  <2>2. s[i] = log[first + i - 1]
    BY <1>4, <2>1
  <2> QED BY <1>1, <2>1, <2>2
<1> HIDE DEF s
<1>7. s \in Seq(Forecast)
  BY <1>4 DEF s
<1>8. Len(history) = h
  BY DEF h
<1>9. history = s
  BY <1>1, <1>5, <1>6, <1>7, <1>8, SeqEqual
<1> QED BY <1>9 DEF HistoryIsNewest, s, first, k

(* What two calls whose intervals meet replay is the ring.                 *)
LEMMA RingSplits ==
  ASSUME TypeOK, RingInv
  PROVE  ReplaySplits
<1> SUFFICES ASSUME NEW t \in 0 .. MaxTime
             PROVE  Cardinality(Historical(0, t - 1)) + Cardinality(Historical(t, MaxTime))
                      = IF Len(log) < HistoryCap THEN Len(log) ELSE HistoryCap
  BY DEF ReplaySplits
<1> DEFINE early == Historical(0, t - 1)
           late == Historical(t, MaxTime)
<1>1. /\ Len(history) \in Nat /\ DOMAIN history = 1 .. Len(history) /\ MaxTime \in Nat
      /\ \A i \in DOMAIN history : history[i].at \in 0 .. MaxTime
  <2>1. history \in Seq(Forecast)
    BY DEF TypeOK
  <2>2. \A i \in DOMAIN history : history[i] \in Forecast
    BY <2>1
  <2> QED BY <2>1, <2>2, LenProperties, WeatherAssumption DEF Forecast
<1>2. early \cup late = 1 .. Len(history) /\ early \cap late = {}
  <2>1. \A i \in DOMAIN history : history[i].at \in 0 .. t - 1 \/ history[i].at \in t .. MaxTime
    BY <1>1
  <2>2. \A i \in DOMAIN history : ~(history[i].at \in 0 .. t - 1 /\ history[i].at \in t .. MaxTime)
    BY <1>1
  <2> QED BY <1>1, <2>1, <2>2 DEF Historical
<1>3. IsFiniteSet(1 .. Len(history)) /\ Cardinality(1 .. Len(history)) = Len(history)
  <2>1. Len(history) - 1 + 1 = Len(history) /\ 1 \in Int /\ Len(history) \in Int
    BY <1>1
  <2>2. IsFiniteSet(1 .. Len(history))
        /\ Cardinality(1 .. Len(history)) = IF 1 > Len(history) THEN 0 ELSE Len(history) - 1 + 1
    BY <2>1, FS_Interval
  <2> QED BY <1>1, <2>1, <2>2
<1> HIDE DEF early, late
<1>4. IsFiniteSet(early) /\ IsFiniteSet(late)
  <2>1. early \subseteq 1 .. Len(history) /\ late \subseteq 1 .. Len(history)
    BY <1>2
  <2> QED BY <1>3, <2>1, FS_Subset
<1>5. Cardinality(early \cup late)
        = Cardinality(early) + Cardinality(late) - Cardinality(early \cap late)
  BY <1>4, FS_Union
<1>6. /\ Cardinality(early) \in Nat /\ Cardinality(late) \in Nat
      /\ Cardinality(early \cap late) = 0
  BY <1>2, <1>4, FS_CardinalityType, FS_EmptySet
<1>7. Cardinality(early) + Cardinality(late) = Len(history)
  <2>1. Cardinality(early \cup late) = Len(history)
    BY <1>2, <1>3
  <2> DEFINE a == Cardinality(early)
             b == Cardinality(late)
             u == Cardinality(early \cup late)
             e == Cardinality(early \cap late)
  <2>2. a \in Nat /\ b \in Nat /\ e = 0 /\ u = a + b - e
    BY <1>5, <1>6
  <2>3. u = a + b
    <3> HIDE DEF a, b, u, e
    <3> QED BY <2>2
  <2> QED BY <2>1, <2>3
<1> QED BY <1>7 DEF RingInv, early, late

(* However often what is registered, and whichever of the streams runs:    *)
(* a grid point has one slot, an area keeps its point, the ring has the    *)
(* newest of what was recorded, a client's frames were recorded before it  *)
(* was sent them and in their order, and two replays that meet share the   *)
(* ring out between them (src/sim/weather.rs:182-238,                      *)
(* src/weather_server.rs:96-191).                                          *)
THEOREM WeatherStaysConsistent == Spec => []WeatherConsistent
<1>1. ASSUME WeatherInv PROVE WeatherConsistent
  <2>1. TypeOK /\ RegistryInv /\ RingInv
    BY <1>1 DEF WeatherInv
  <2>2. OneSlotPerPoint /\ ReceivedWasRecorded
    BY <2>1 DEF RegistryInv, RingInv
  <2>3. AreaKeepsItsPoint
    BY <2>1 DEF AreaKeepsItsPoint, RegistryInv, ForArea, TypeOK
  <2> QED BY <2>1, <2>2, <2>3, RingIsNewest, RingSplits DEF WeatherConsistent
<1> QED BY <1>1, WeatherInvariant, PTL
=============================================================================
