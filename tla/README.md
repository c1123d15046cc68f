# tradingsim in TLA+

This directory is a verification project for *tradingsim*, a simulator of a
continuous intraday power market: a limit-order exchange with areas coupled
across borders, synthetic counterparties that quote and hit it, weather and
scenarios that move their prices, a Lisp configuration that is reloaded while
everything runs, and gRPC and WebSocket services that show the result.

It holds TLA+ modules for the parts that keep state, TLC configurations that
check them on small instances, and proofs that TLAPS checks for every instance.
Source paths below are relative to the repository.

    tlc -workers 2 -config MCWorld_coupled.cfg MCWorld.tla   # a run
    tlapm WorldProofs.tla                                     # the proofs

1. [The system](#1-the-system) – 2. [Plan](#2-plan) –
3. [Modules](#3-modules) – 4. [Runs](#4-runs) – 5. [Proofs](#5-proofs) –
6. [Disagreements](#6-disagreements-with-the-documentation) –
7. [Not modelled](#7-what-is-not-modelled)

## 1. The system

### Components

| component | source | state | operations |
|---|---|---|---|
| exchange | `src/sim/world.rs`, `order.rs`, `trade.rs`, `market.rs` | gridpools with their orders and trades, books, id counters, order-to-pool bindings, couplings and their remaining capacity, trade and book histories | submit, counterparty submit, modify, cancel, cancel all, recall, expiry sweep, suspension |
| matcher and books | `src/sim/matching.rs`, `book.rs` | per contract: price levels of FIFO queues and an index by id | insert, cancel, peek, consume the front, depth |
| fleet manager | `src/sim/fleet.rs` | handle maps by contract, the shared recipe, view lists | spawn, roll forward, retire |
| counterparties | `src/sim/counterparty.rs` | the shared config of each maker, its resting pair, a random stream | refresh, walk the reference, fire an aggressor order |
| scenarios and bias tick | `src/scenarios.rs` | definitions, runtime (stage, override), bias scale | start, stage, stop, define; every second: pick a stage, override the weather, write the bias |
| weather | `src/sim/weather.rs`, `src/weather_server.rs` | locations by grid point, areas linked to them, a ring of past forecasts | register, link, live stream, historical walk |
| trading service | `src/server.rs`, `src/proto_conv.rs` | none of its own: page tokens and stream positions live with the client | order calls, lists, streams |
| message conversions | `src/proto_conv.rs` | none | each record to the wire and back, with its refusals |
| UI server | `src/ui/mod.rs` | sockets | snapshot and follow; lists of gridpools, orders, trades, scenarios; scenario commands |
| browser page | `web/src/` | what is selected, the tape, filters and their copy in the browser's storage, polls, requests on their way | click, choose, toggle, receive, reload |
| command line client | `src/bin/tsctl.rs` | none | compute a request, send it, print its answer |
| configuration | `src/lisp/mod.rs`, `sim/common.lisp`, `config.lisp` | the interpreter, timers, watched files, the recall queue | evaluate, watch, reload, recall |
| boot | `src/bin/tradingsim.rs` | background tasks | the expiry sweep (1 s), the recall drain (0.2 s), the lifecycle task, the bias tick |

### How they interact

One `RwLock<World>` is the meeting point. A handler of the exchange takes its
write lock for the whole call, so that **to each other handlers are atomic**;
everything that is not atomic happens around them:

* a maker reads the clock and its configuration *before* it waits for the lock,
  and posts its quotes one by one inside;
* the bias tick holds no lock between picking a stage, applying it to the
  weather, and writing each maker's configuration;
* events leave a handler through broadcast channels with bounded rings, and
  every receiver drains its own at its own speed;
* files are evaluated form by form while the exchange runs, and what timers ask
  for is queued and applied later by another task;
* a client's request is computed before it travels and its answer is read after the
  exchange went on; a page has several under way whose answers cross, and a
  connection may break before or after the exchange has acted;
* time passes between all of these, and a contract gates at its delivery start
  whether or not the sweep has run.

### What is hard, and what must hold

| where | the hard behaviour | what makes it correct |
|---|---|---|
| exchange | three structures (order map, bindings, books) changed by nine handlers | they agree after every handler; no crossed book; terminal is final; accounts balance against the tape |
| matching across areas | several books, gates and capacities in one sweep | best price first whatever the area, limits honoured, fill-or-kill whole or nothing, capacity debited by what crossed |
| fleets | retirement racing refresh, boundaries slept through, recipes reloaded | no quote without an owner, one pair per maker, tasks and handles match, retired tasks leave |
| pricing | read, compute, write back over a shared record | a bias that was written is not lost, quotes follow the market and not themselves |
| scenarios | pick and apply under different locks; operator against clock | overrides do not pile up, a manual stage stays, the weather comes back |
| feeds | snapshot then follow; bounded channels; times that do not rise | nothing lost or doubled at the seam or at a start time, the newest never lost |
| lists | pages over a moving collection | each record once, none that was there throughout missed |
| order calls | a broken connection, a boundary the request crosses, a cancel-all amid creates | an order is what was typed, for the contract that was meant; an answer stays true; a stream ends with its contract |
| conversions and filters | optional fields, parts of a second, half-open intervals | what goes over the wire and back is the same; adjoining intervals share the contracts out |
| page | answers that cross clicks, effects between them, storage behind the page, overlapping switches | panes come to show what is selected; a lone switch leaves its target running; a filter in force can be seen and undone |
| configuration | bursts of notifications, partial evaluation, leftovers of earlier loads | what is on disk is what is loaded, one set of timers, no recall is lost |
| weather | slots looked up by rounded coordinates; one ring for all streams | an area keeps its point; the ring holds the newest, in order |

PROJECT.json's `hazards` lists these by line, with the properties that cover each.

## 2. Plan

Written, in this order, because each rests on the ones before it:

1. `Matching`, `World` – the exchange, the core of the system; `MatchingProofs`,
   `WorldProofs` – its invariants for every instance.
2. `PriceTime` (abstract), `OrderBook`, `MatchLoop` – the matcher as the code
   runs it; `MatchLoopProofs` – it implements the sweep `World` uses, for any books and orders.
3. `Fleet` – the tasks that live on the exchange's clock, and `FleetProofs`; `Tables` –
   the pure functions that recipes and prices are read from.
4. `Scenarios`, `Feed` – what operators see and what is streamed; `FeedProofs`.
5. `Control`, `Quoting`, `Weather` – the rest of the concurrent state; `PricingProofs` –
   what the tables return for every input, and the maker and the scenarios over them;
   `FleetProofs` holds the proofs about `Control` too, whose fleets are those of `Fleet`.
6. `Requests` – conversions, filters and what the client computes.
7. `Listing`, `Calls` – the trading service over those requests, composed by
   `MCService`; `ServiceProofs` – nothing is lost on the wire, the calls are faithful, a walk
   through a list is complete; it holds the proofs about `Weather` too.
8. `DrillDown`, `Tape`, `Shell` – the page, composed by `MCPage`; `PageProofs`.

Next:

* an abstract specification of the public feed ("the subscriber's book is a
  prefix of the exchange's history") that `Feed` implements;
* a composition of `Calls` with `World`, in place of the choice of what is filled;
* a composition of `Fleet` and `Quoting` in which several makers' references
  chase one another's prints;
* weather's correction of the forward curve.

## 3. Modules

Definitions keep the names of the code in TLA+ spelling (`submit_order` is
`SubmitOrder`), and PROJECT.json's `map` gives each one's lines. An operator
`WrongX` beside `X` is a fault one could make in that piece of code; no
specification uses it. Substituting it for `X` must break the property named
beside it in PROJECT.json's `mutants`: it is how we know that the run can fail.

### Matching, World

`World` has one action per handler. The state is the code's with two
simplifications that lose nothing the properties see: the gridpools' order
maps are one function `orders` (a detail names its pool), and the books are one
function `book` from order id to entry with `older`, the pairs of orders of one
level in queue order. `owner` is `order_to_gridpool`: it is kept apart because
the code keeps it apart, and `BookMatchesOrders` says when the three agree.
`shown` is what a subscriber that folds the public book feed ends up with,
`tape` the public trades, `coupling_fills` what has crossed each edge, from
which remaining capacity follows.

`Matching` gives a sweep in closed form: `Makers` the entries a taker crosses in
the areas it can reach, `Precedes` their order (price, then own area first as
`candidate_keys` lists it, then queue), `Reached` how much lies ahead of one,
`Sweep` the fills. `MatchLoopProofs` proves that the code's loop computes it.

| code | action |
|---|---|
| `submit_order` (validation, self-trade, matching, resting, fills, events) | `SubmitOrder` |
| `submit_counterparty_order`, `cancel_counterparty_order` | the same names |
| `cancel_order_with_actor` (user and recall), `cancel_all_orders` | `CancelOrder`, `CancelAllOrders` |
| `modify_order` | `ModifyOrder` |
| `expire_lapsed_orders` | `ExpireLapsedOrders` |
| `(suspend-market)`, `(resume-market)` | `SetSuspended` |
| the wall clock | `Tick` |

A counterparty's order comes with a time of its own, `at`: a maker reads the clock before
it waits for the lock (`src/sim/fleet.rs:345-366`), so that its order may be judged by, and
its trades carry, any earlier time. An aggressor (`Ioc`) and the services read it under the
lock. Trades on the tape carry the time they were made by.

A request the code refuses changes nothing and is not a step. Prices and
quantities are small integers in units of tick and step, so that the refusal of
an off-grid value never arises here (`Quoting` has it). History caps are beyond
any run and are modelled in `Feed`.

### PriceTime, OrderBook, MatchLoop

`OrderBook` is `book.rs`: per side a function from price to level, a level a
sequence, an index from id to side and price, and the operations on them; with
`match_limit`, the matcher of one book, turn by turn (`Turns`). `MatchLoop` is
`match_limit_across`: the fill-or-kill count, the loop that peeks at every candidate
book and consumes the best front, the rest; and beside it `would_self_trade`, the walk
made before the match (an entry is found by book, price and place).
`PriceTime` says in one step what a match promises: entries in price-time order
give up quantity until the taker is filled or nothing crosses. The mapping reads an entry
off index and queue (`HomeOf`, `OpenOf`), and queue order off the places
(`StandsBefore`), of the books as they were when the lock was last free. Since that
abstract step uses `Matching!Sweep`, the refinement also licenses `World` to match in
one step; it is checked on `MCMatchLoop` and proved for every instance.

### Fleet

A task per contract (and profile) with the program counter of its loop:
`ReadClock`, `Refresh` under the lock, `Sleep`, then either around again or
`CancelResting` and `Leave`. The lifecycle task `Arm`s its sleep from the clock it read and
`RollForward`s when it wakes. `spec` is what the configuration asked for: makers
or aggressors, how many profiles, how wide a window; `seed` what each task's
random draws start from. What the rest of the exchange does to quotes is
three actions: `TakeQuotes`, `ExpireLapsed`, `SetSuspended`.

### Tables

The functions without state, on integers: snapping to a tick, quarter boundaries and
offsets, the bands of a recipe, an aggressor's pace and how it quickens toward the
gate, the forward curve, the bias of the day and of a stage. `Quoting` and
`Scenarios` use those that their actions call; `PricingProofs` proves what each
promises. A quotient of the code's decimals or floats is cut to an integer.

### Quoting

One contract, one maker, one aggressor, one stray order. A recipe is a table of
spreads by band; `QuarterPasses` brings the delivery nearer and so changes the band
the next refresh reads. A refresh is four steps with the bias tick, a reload and other traders in between: `Stamp` (the
recipe, with the share `follow` of the gap to the last print), `ReadConfig`, `StepReference` (write back), `Post` (price, cancel,
post). `StepReference` and `Post` hold the world lock throughout, which
`LockFree` expresses; the bias tick does not take it. Fractions
are integers truncated toward zero; `Walk` is the random step.

### Scenarios

The bias tick is `PickActiveStage` and `ApplyWeather`, two steps because the
code drops the scenario lock between them. `Operator` is the REST calls,
`Configuration` what a reload or a timer may call. A stage carries its two biases:
what the tick hands on is the stage with the bias between them that is due, by the
clock or, for a stage the operator holds, by its `age`. A cloud cover stands for all
three weather fields, which are treated alike.

### Feed

The writer pushes an event to the history ring and sends it on the broadcast
channel; clients connect, take snapshot or replay, drain, lag and are closed or
carry on. A handler's events are a batch, one for each order it touches, and what a number
of events leaves of an order is what the last of them says (`Applied`, `Replayed`).
`Modify` is `modify_order`: it changes orders and publishes nothing, and `silent` are the
orders it has changed since they were last announced. Events carry the time of
their handler, which need not rise along the log; a replay with a start time (`since`)
keeps of the history what does not carry an older one (`Wants`).
`sub` says which of the code's four receivers a client is (the two UI
sockets, the live gRPC stream, the replaying one) and which orders its filter
lets through; `Subscriptions` are those an instance allows.

### Requests

The conversions of `proto_conv.rs` as operators: a wire message is a record whose
optional fields are sets of at most one member, and the outcome of a decoding
is such a set too, empty where the code returns an error. Instants keep the parts of a
second (`Nanos` of them), since the code's alignment test and its timestamps treat them
differently. Then the filters of the trading service, `validate_common` as seen by a
caller, and what `tsctl` computes: `next`, `next+N`, the order it places.

### Listing

`list_gridpool_orders`, `list_gridpool_trades` and the stream of a gridpool's orders:
page sizes, tokens, the cursor by id, over records that are added and that move in and
out of the client's filter. A client may subscribe first and keep its copy (`view`) from
pages and stream together. `list` says which of the two lists is walked.

### Calls

A command is typed (`Type`: the request is computed from the clock of that moment),
arrives (`Serve`, by one of the five handlers), and is answered (`Return`), or the
connection breaks on either way (`Break`). Other clients send what `tsctl` never would
(`SendWire`). Of the books only the outcome is there: how much of an order is filled, or
that it is refused, is a choice that `World` accounts for. `Watch`, `Forward`, `LoseTrades` and
`Close` are the stream of public trades with its timer: one that is slower than its ring of
`TapeCapacity` loses the oldest trades without a word (`lost` notes which).

### DrillDown, Tape, Shell

The page's own state, with the scheduler of its reactive graph: a signal that is set
notifies effects, which run later (`OnSelected`, `OnSelectedOrder`, `OnOrders`); a click
comes when none is left to run. `DrillDown` keeps a bag of requests, answered in any
order. `Tape` follows a print from the socket to tape, chart and bars, and keeps the
browser's storage apart from the page, so that `Reload` can read it back. `Shell` runs
every scenario command as a task of its own: the remaining requests of a task are its
`plan`. `MCPage` takes one part at a time: they share neither state nor requests.

### Control

The file is a sequence of forms with effects (`ResetState`, `Every`,
`RunWithTimer`, the two `MakeFleet`s, `SetKnob`, the three `Declare`s, `WatchFile`,
an error), evaluated one per step; one that does not parse is `Unparsable`, which fails at once. A fleet points to the cell its running tasks
read, so that rewriting the cell and replacing it differ. `Boot` builds the exchange
(`installed`) from the declared lists. Files are saved in place and once the server is
up: a save before the watcher starts, and an editor that replaces the file by a
new one, are outside the model. The
notification library and its channel are explicit: a save truncates and writes,
each raising a notification; `Debounce` drains; `Reload` evaluates.
`FireTimer` queues recalls, `DrainRecalls` and `RecallOrders` apply them.

### Weather

The registry as a vector with two indexes into it, and the live streams: build
a frame, push its forecasts to the ring one by one, send, sleep; a client that hangs up
is noticed at the next send. `Historical` replays what the ring holds of an interval.

## 4. Runs

"holds" runs must finish without error; "refuted" runs each check one
statement of the documentation that the code does not keep (section 6, which also
lists further configurations of that kind). A property whose name ends in
`Consistent` is a conjunction of the module's type invariant and of invariants that
are named and commented one by one above it.

| run | configuration | checks | outcome |
|---|---|---|---|
| lifecycle | `MCWorld_lifecycle.cfg` | `TypeOK`, `BookMatchesOrders`, `OrdersBalance`, `TradesMatchOrders`, `NoCrossedBook`, `PriceTimePriority`, `TerminalIsForever` – Two gridpools submit, modify, cancel and let expire orders on one contract: the order map, the bindings and the book agree, accounts balance and the book trades in price-time order. | holds |
| coupled | `MCWorld_coupled.cfg` | `NoCrossedEdge`, `NoSelfTrade`, `ImmediateOrdersResolve`, `EdgeDebitsMatchTape`, `ShownMatchesBook`, `GatesHold`, `BooksClear` – Two areas joined by a coupling with a gate and a capacity, gridpools and counterparties whose stamp may be old, no modifications: cross-area matching, fill-or-kill over both books, self-trade policy, gates by the time of each trade, capacity accounting, the public book feed, and that the expiry sweep clears the books in the end. | holds |
| match_loop | `MCMatchLoop.cfg` | `WalksAgree`, `SweepEnds`, `ImplementsPriceTime` – The matcher as the code runs it, on levels and index, over one or two books: it is the price-time sweep the exchange model uses, agrees with the matcher of one book, the self-trade check foresees its makers, and it ends. | holds |
| fleet | `MCFleet.cfg` | `FleetConsistent`, `RollMovesWindow`, `RetiredTasksLeave` – Maker and aggressor tasks race the lifecycle task, the suspension switch, the expiry sweep, a reload of the recipe and boundaries that are slept through: quotes are never orphaned or doubled, the window moves, and every retired task leaves. | holds |
| feed | `MCFeed.cfg` | `FeedConsistent`, `UiBookCatchesUp` – A UI socket, a live or a replaying gRPC stream with a start time, against a writer that publishes event by event with times that may go back, and that modifies orders in silence: snapshot or replay and live events join without loss, doubling or disorder, a lag closes a socket, and a book that stays connected catches up with all that is announced. | holds |
| scenarios | `MCScenarios.cfg` | `ScenariosConsistent`, `PickIsRight`, `WeatherReturns` – Two scenarios, two locations: operator requests, redefinitions, setters and the clock race the bias tick; once scenarios are stopped the weather goes back to the configured values. | holds |
| control | `MCControl.cfg` | `ControlConsistent`, `FleetsFollowTheFile`, `SaveTakesEffect`, `RecallsArrive` – Two saves of the configuration and its support files race the watcher, form by form, with a file that ends in an error, one that does not parse, and notifications that break down; timers queue recalls while a batch waits for the exchange's lock. | holds |
| quoting | `MCQuoting.cfg` | `QuotingConsistent`, `PricesInMarket` – The bias tick writes and recipes change, up to one that snaps to the last print, between the steps of a refresh; an aggressor and a user trade between refreshes. | holds |
| service | `MCService.cfg` | `ListingConsistent`, `CallsFaithful`, `CommandsEnd` – Either a client walks the list of orders or of trades, or lists once and keeps its copy current from the stream, while orders change state under its filter; or two processes place, modify, cancel and look on, at a command line or not, while connections break, orders lapse, slow streams are overrun and a contract whose trades are watched comes to its end. | holds |
| weather | `MCWeather.cfg` | `WeatherConsistent`, `StreamsEnd` – Live streams of two clients share the ring, forecast by forecast, while grid points register again and again, an area is linked, history is asked for, and clients hang up, whose streams end. | holds |
| page | `MCPage.cfg` | `DrillDownConsistent`, `TapeConsistent`, `ShellConsistent`, `PageHeals` – The browser page, part by part: clicks on the gridpool panel between requests and answers, the tape with its filters, chart and bars across reloads, scenario commands whose requests overlap; left alone it comes to show what the server holds. | holds |
| modify_self_trade | `MCWorld_modify_self_trade.cfg` | `NoSelfTrade` – A modification lets a pool with the Reject policy trade with itself. | refuted |

Each property is stated in a comment above its definition.

### Bounds, and why they are enough

* `MCWorld_lifecycle`: one area and contract, two pools (symmetric), three
  orders, quantities 1–2, prices 1–2, one tick. Three orders are what it takes for
  two makers on a level (queue position) and a taker that fills one and part of
  the next; two prices are a better and a worse one.
* `MCWorld_coupled`: two areas, an edge with a gate one unit before delivery and
  capacity 2, two pools with opposite self-trade policies, counterparties, four
  orders, two ticks: before the border gate, between the gates, after both, with every stamp a maker may bring.
  `ModifyOrder` is off here (`Updates = {}`), because it breaks
  `NoSelfTrade`, `ShownMatchesBook` and, of `GatesHold`, `NoTradeAfterGate`, as configurations
  of their own show (section 6); this run is the statement for everything else.
* `MCMatchLoop`: two books, three orders, quantities up to 3: a level of two, a
  tie between books, a maker left in part.
* `MCFleet`: either a fleet of makers on one contract or one of two aggressor
  profiles on two, and two boundaries: a contract is spawned by a roll and retired
  by a later one, and a boundary can be slept through.
* `MCFeed`: one client of any of the four services (clients share nothing but
  the writer), four events of two times against a channel of 2 and a history of 3, which
  overrun both; two orders that come, go and are modified in silence.
* `MCService`: either list, pages of at most 2 over 3 records and a stream channel of 2
  (of 1 for trades, so that two of them overrun a stream that is not read);
  or two processes, two orders, three commands or streams of both together, and a clock
  with an instant before, at and beyond a boundary, where two halves make a second.
* `MCPage`: two gridpools with an order each; three prints against a ring of 2, a tape of
  2 and a history of one unit of time; two scenarios of two stages, two commands that
  overlap and one intervention or loss; two clicks, two choices.
* `MCScenarios`: a day of three hours, overlapping stages and an emptied definition,
  biases 20 and 80: a stage over which the bias rises and others where it stays.
* `MCControl`: of saves and firings of timers two together, any of five files, a channel of 2,
  two orders to recall, notifications that may break down. The files make a fleet, a knob, timers, a
  watch and a declaration each come, change and go; one ends in an error, one does not parse.
  Two saves are what it takes to change the file during a reload, two firings to queue a
  recall behind a batch that waits.
* `MCQuoting`: a tick of 2 (so that snapping moves prices), two fundamentals, two
  tilts, a recipe of two bands and one of one, a window of two quarters; one recipe follows
  half of the gap to the last print, the other snaps to it.
* `MCWeather` (a configuration of `Weather`): two points, one area, two changes of the registry; two streams of one
  frame each (and the one a vanished client leaves) that overfill a ring of 2.

The bounds are constants or guards named in the modules (`MaxOrders`, `MaxTime`,
`MaxSaves`, `MaxTicks`, `MaxInputs`, `MaxFrames`, `MaxChanges`, `MaxEvents`, `MaxRecords`).
Deadlock is checked in seven of the eleven passing runs. `MCControl`, `MCQuoting`,
`MCService` and `MCWeather` say `CHECK_DEADLOCK FALSE`: a watcher whose notifications broke down
ends for good, a suspended market with nothing left to do stands still, clients
ask a bounded number of times, and streams end with their clients.

### Fairness

* `World` (`FairSpec`, in `coupled`): the expiry sweep has an interval task of its
  own and never waits on anything but the lock; the clock moves. Nothing else is fair:
  no client must ever act.
* `Fleet`: tasks run and timers fire (weak fairness). The retire branch of a
  `select!` gets strong fairness: tokio polls the branches in random order, so a
  signal that stays ready is taken sooner or later, but not each time.
* `Feed`: handlers finish, a task hands on what it holds, the page connects once
  if it can. A *re*connect gets no fairness, because no code makes one.
* `Scenarios`, `Control`: the interval tasks run, an evaluation goes on, an editor
  that truncated a file writes it. Saves, orders and operators are free.
* `MatchLoop`: the loop runs.
* `Weather`: a stream's task goes on, which only timers and its own channel delay.
  Clients need neither read nor hang up.
* `Calls` (in `service`): the clock goes on, a request that arrived is served, an answer
  is read, and the timer of a stream fires. Nobody must type; connections may break.
* The page: effects run, polls wake and are answered, and so are requests that are on
  their way. A request that fails is lost for good; only polls come again, and the
  numbers of clicks and failures are bounded: what heals does so once they cease.
* `Listing`, `Tape`, `Quoting`: none, since nothing there is promised in the end.

### What the properties say, in short

*Exchange.* `BookMatchesOrders`: a live pool order is bound and on the book with
its open quantity, and nothing else is. `OrdersBalance`, `TradesMatchOrders`: executed plus
open is the total, and is what the tape says. `PriceTimePriority`: on every step, over
all reachable books. `NoCrossedEdge`: no two areas are left crossed over an edge that
is open and has capacity. `ImmediateOrdersResolve`: what must not rest does not, and
fill-or-kill is whole or nothing. `GatesHold`: no trade is made by a time after the contract's
gate, and none across a border by one after the border's. That time is the clock's for what a gridpool
enters; a maker that has waited may bring an old one and so trade after the gate, until the
sweep: once it has closed the gridpools' orders on a contract in delivery, none of them trades on it again
(`ClosedForGood`). `ShownMatchesBook`: the public feed announces every order that a handler changes, with
what is open of it; the order of a handler's events is not checked. `BooksClear`: the sweep empties the books in the end.

*Matcher.* `ImplementsPriceTime`: level by level and fill by fill, the code's loop is
the one-step price-time sweep. `WalksAgree`: the self-trade check, made before
any fill, meets exactly the makers the fills then meet; and the two matchers the
code has, for one book and across areas, agree over one book.

*Fleets.* `FleetConsistent`: every resting quote belongs to a task that will
cancel it (`NoGhostQuotes`), one quote per side and area, and the manager's keys are the
tasks not told to retire. `RollMovesWindow`: after a roll the window starts at
the boundary after the clock, however late the roll is.

*Pricing.* `QuotingConsistent`: after the maker's write-back baseline and tilt are still the last
ones written. `PricesInMarket`: an
aggressor that trades at a positive limit trades within its slippage (the limits below one tick
are left to `SlippageBounded`, section 6), and a
refresh leaves the reference between what the record, the baseline and the tape say, or beyond
them by no more than the baseline's pull when the two pulls close more than the whole gap.

*Scenarios.* `ScenariosConsistent`: overrides never pile up. `PickIsRight`: the tick
leaves an operator's stage alone, picks by the clock otherwise, and a stage that is held
plays its bias once. `WeatherReturns`: after the last stop the weather is the
configured one again.

*Feeds.* `FeedConsistent`: what a client was handed is in order and once, across the seam of
history and live too (the comment at `src/server.rs:568` allows doubles; there are none);
a tape has no gap; a replay misses nothing that its filter and its start time ask for, unless overrun; and a
UI book that has read all there is shows the exchange's book but for the orders that
`modify_order` has changed and not announced. `UiBookCatchesUp`: a connected book gets there.
That it does not get further, since those orders stay wrong, is section 6's `ShownMatchesBook`.

*Service.* `ListingConsistent`: each record at most once, what matched during the whole
walk was returned, and a client that subscribed first and kept up holds every matching
order as it is. `CallsFaithful`: an order is what its owner typed, for the quarter meant when
it was typed, and is refused if that had begun on arrival; a cancel-all leaves nothing open of what there
was; what an answer says stays true while orders change; a stream
passes the trades of its contract on once and in order, but for those it was too slow for, and
those are never among the newest (`TapesKeepUp`). That the client is not told of them is
what `LagIsSignalled` shows for the book (section 6). `CommandsEnd`: every command ends, and so does the
stream of a contract that is over.

*Page.* `DrillDownConsistent`: whenever effects are done the order and period looked
at are among those shown, and the automatic selection never replaces a click.
`TapeConsistent`: tape, chart and bars are exact functions of what was received, whatever
was trimmed when; every filter in force can be seen; the storage mirrors the page.
`ShellConsistent`: a switch that nobody came between leaves its target and nothing else
running. `PageHeals`: answers that crossed are mended, and panes and scenario list come
to show what the server holds.

*Control.* `ControlConsistent`: at rest, what is loaded is what is on disk, and the timers
that fire are those of one load. `SaveTakesEffect`: every save comes to be loaded.
`FleetsFollowTheFile`: each fleet's running tasks and each knob have what the last load gave them, up to the
form that failed if one did. `RecallsArrive`: a recall that is queued while an earlier batch waits
for the exchange's lock is not lost; that it does no harm to an order that has ended is
`TerminalIsForever` of `World`.

*Weather.* `WeatherConsistent`: an area reads the location it was linked
to, whatever is registered later; the ring is the newest
forecasts in the order they were recorded, a client receives nothing that was not, and
adjoining historical intervals share the ring out. `StreamsEnd`: the task of a client that hung up ends.

## 5. Proofs

Each theorem holds for all values of the constants that satisfy the module's assumption,
which TLC evaluates on every run. The assumptions are what the code's types and tables
give: finite sets of areas, orders and scenarios, integer prices, typed requests, commands
and wire messages, stage lists with typed stages, a longest window of the chart, a second
of a positive number of parts. The proofs are by induction over steps; what each
component needs beside the property is told here.

**Exchange: the sweep** (`MatchingProofs`). `SweepFills`, `ExecutedBounds` and
`SweepExhausts` establish, from the closed form, that a sweep takes between one step and the whole of
orders that it crosses, never more than the taker asks, all or nothing for
fill-or-kill, and that a taker with an open rest has consumed every order
it crossed. No induction over the fills is needed: the closed form gives each
fill from the quantity ahead of it, and the sum is bounded through the finite set of makers.

**Exchange: the books** (`WorldProofs`). `BookMatchesOrders`, `OrdersBalance` and `NoCrossedBook` are
not inductive alone: a match keeps the book uncrossed only if the sweep
exhausted what crossed, which needs entries with positive quantities in well-formed
queues; an order's account stays balanced only if the maker the book names
is the live order of that id with that open quantity. So the invariant is

    IInv == Scalars /\ GoodBook(book, older, LastId)
            /\ Uncrossed(book) /\ Consistent(orders, owner, book)

with `Scalars` the types of clock, flag and counters, `GoodBook` the typed
entries and strict queue pairs, `Consistent` the agreement of order map, bindings
and book with every account balanced, and `Uncrossed`. Each handler is one of three moves on these:
*sweep* (`SweepCase`: fills and perhaps a rest), *put* (`PutCase`: an order enters the map),
*unrest* (`UnrestCase`: a set of orders leaves). One lemma for each move carries
the parts of `IInv` over it, and each action's step shows which moves it makes.

**Exchange: the trades** (`WorldProofs`). Priority needs that the queue of a level is a strict
order (`Queued`), so `Sound == IInv /\ Queued`. Under it every step is a `Deal`, one
sweep of one taker with what it prints, or `Quiet`, one that trades nothing (`StepKinds`).
Of gates, what a taker can reach is what its stamp lets it reach (`DealHoldsGates`), and a contract
whose live orders are gone gets none back by a clock that has passed its gate
(`WorldClosedForGood`). The action properties and the history follow from the two kinds: tape numbers are below the
counter and used once, an order's executed quantity is what the tape gives it, a coupling's
debit is the volume that crossed it (`History`). Volumes are sums over lots, so that a
print adds its quantity without an induction over the tape.

Four of these theorems, on `GatesHold`, `ShownMatchesBook`, `NoSelfTrade` and `NoCrossedEdge`, have the
hypothesis `Unmodified == [][~Modification]_vars`, no step is a `modify_order`. It is needed: that handler
emits no book event, matches anew only in the order's own area, and checks neither gates nor self-trade.
Of `GatesHold` the part on couplings and the part on closed contracts are proved without it.
The run `coupled` makes the same restriction, and configurations of section 6 show each
of the failures. All other theorems about `World` cover modifications.

**Matcher** (`MatchLoopProofs`). The refinement of `PriceTime`, in three layers.
*Books*: a book is `Whole` when index and queues agree, and what `insert`, `cancel` and
`consume_front` do to index and queues is what the market does to entries
and their order (`InsertBooks`, `CancelBooks`, `ReduceBooks`). *Priority*: of all entries
that cross, on all candidate books, the one the loop chooses, the front of the first of the
best levels, is before every other (`BestIsFirst`). *Loop*: while the lock is held the fills so
far are a `Prefix` of the sweep over the books as they were when it was taken. So

    LoopInv == Good(books) /\ Good(committed) /\ (idle => books = committed)
               /\ (busy => \E t, areas : Sweeping(t, areas))

where `Sweeping` says which order came in over which areas, that the books now are those
of before with the fills so far taken off, and that over one book the matcher of one book is
as far as the loop. `Finish` is then the market's `Submit`, `Withdraw` its `Withdraw`, a killed
fill-or-kill a `Submit` without fills, and every other step a stutter. That the walk before the match
meets the makers the match fills is a fact about the books at that moment
(`ChecksForesee`: the walk is `Reached`). None of this needs an induction over data: a front, a
last turn and a probing order are found as least numbers (`LeastNat`), and a sum over
several books is a sum over entries under other names (`DepthRenamed`).

**Fleet** (`FleetProofs`). `FleetInv` adds two facts to the property: a task is retired only once
its contract has gated and leaves only once it is retired (`HandlesInv`), and each resting quote
stands where its maker remembers it (`QuotesInv`). Without them a task could leave a quote
behind that no handle leads to.

**Configuration** (`FleetProofs`). What a load leaves is told by the forms it has done.
`LoadsInv`: those done are the ones not left, up to where the load stopped. `CellsInv`: two
fleets share no cell, what runs reads its own fleet's cell, and what is there is what the
last form done put there; from this `ControlFleetsFollow` needs no fold over a file.
`SavesInv`: a save that is not loaded is on its way to the watcher, or the watcher waits for
quiet, or it is gone. `OneSetOfTimers` has the hypothesis `ResetsFirst`, every file begins
with a reset of the state, which the code leaves to the file
(`src/lisp/mod.rs:283-286`): a file that does not adds its timers to the ones that run. A file that
does not parse evaluates nothing, and leaves the timers of the load before it.

**Tables** (`PricingProofs`). No state machine here: a snapped price is on the
grid and at most half a tick off, on either side of zero; the next boundary lies ahead,
at most a quarter away; a band is always an entry of its table and never moves back
as delivery nears; the pace near the gate is between one and three times the base; an
interpolation between two values stays between them, midnight included; setting an anchor keeps the
curve cyclic; the clock points to a stage whose hours it is in. The
nonlinear arithmetic is carried by two facts about quotients (`Quotient`,
`QuotientGrows`).

**Quoting** (`PricingProofs`). What a maker read before its refresh is compared with what the record holds
when it writes back: the half-spread is always some band's, and a quote that rests is one half-spread
from one reference. `QuotingPricesInMarket` covers every `follow_last_trade` from 0 to 1, where
the code's comment (`src/sim/counterparty.rs:69-72`) has "1.0 = snap to last trade". As long as the two pulls
together close at most the whole of the wider gap, their sum stays within it (`TwoPulls`); beyond,
the pull to the last print alone does, and the baseline's pull is what it can be overshot by.
The assumption on the baseline's pull is that it closes less than the whole gap; the code's is 0.02.

**Scenarios** (`PricingProofs`). `ScenariosInv`: what is kept as baseline is what was configured,
only a scenario that plays is held, definitions and runtimes are typed. That a held
stage goes on towards its second bias rests on `Lerp` being monotone.

**Feed** (`FeedProofs`). The invariant relates the writer and each subscriber. The exchange's book is
what was *sent* with the pending batch applied, but for the orders in `silent`: the lock is held as long as
the two differ elsewhere. What a client wants of a record depends on its filter, and before the seam on the
record's own time, never on its place (`Wants`), so that times need not rise. What a replay or tape still has to hand on is the log up to the first live event; a book
snapshot with its rest applied is the book up to the first live event, or shows nothing of a contract that
has gated. From there `InOrder`, `GapInv` and `CoverInv` say that what was handed
out is in order, without a gap, and complete unless the receiver was overrun.

**Wire and calls** (`ServiceProofs`). What is encoded and decoded comes back the
same, and is not refused, for every instant, order and order detail, any choice of optional fields;
each field is a lemma, and the record follows field by
field. `IntervalsShareOut` and `NamedPeriodIsAhead` are the promises of the delivery filter
and of `next`. Over them, `CallsInv`: a request on its way is what was typed, whatever decodes
is an order as the exchange holds it (`DecodedOrder`), and a step of the exchange only carries
orders on (`Follows`) and extends the tape (`Extended`), which is why an answer stays true and a stream
has all it has read past but what the ring had dropped, whatever comes between.

**Lists** (`ServiceProofs`). Of a walk, `WalkInv`: what was returned lies up to the cursor, and of what
has matched all along everything up to the cursor was returned; this rests on `RecordsInv`, ids of
orders grow with their position. Of a client that subscribed and then listed, `StreamInv`: the
last thing its stream holds of an order is the order as it is, and an order the stream is
silent about is known to the client once the walk has reached it.

**Weather** (`ServiceProofs`). `RegistryInv`: an area's index leads to the slot of the point it was
linked to. `FeedInv`: a stream has offered the frames it is done with, and of the one it is
at, the log has exactly what is pushed, in its order; other streams' forecasts in between change
nothing (`LogGrows`). `RingInv`: the ring is the end of the log.

**Page** (`PageProofs`). Gridpools: the order and period looked at are among those
shown unless the effect that mends it is due (`FiltersFollow`). Tape: a bar is
the number of prints of its age, and nothing that is still fresh has been trimmed, since what is
fresh now was fresh before. Shell: a switch of scenarios is in one of four phases, it has its list, it
has to stop, it has to start, it is done (`OnItsWay`), and each answer moves it on.

Every invariant that a run checks is a theorem, and so is the one refinement.
Only model-checked are the liveness properties (fairness is ENABLED, which is out of the
prover's reach) and what recursive definitions over data compute for every input.

## 6. Disagreements with the documentation

Where a comment, the README or a doc says one thing and the code does another, a
configuration states the sentence as a property and TLC refutes it. One of them is a
listed run, recorded in PROJECT.json's `findings`:

| run | kind | where | what |
|---|---|---|---|
| modify_self_trade | doc code divergence | `src/sim/world.rs:1344` | modify_order matches the modified order without the self-trade check that submit_order makes; src/src/sim/gridpool.rs:22 says of Reject "any prospective self-trade kills the new order" with no exception for modifications: the run shows a pool with the Reject policy on both sides of one trade. |

The others are checked by hand; TLC refutes each. Some have a configuration
of their own (`tlc -continue -config MCFleet_makers.cfg MCFleet.tla`);
where the table says *with*, the property takes the place of those in a run's
configuration, and nothing else in it changes.

| configuration | property | where | what |
|---|---|---|---|
| `MCWorld_exhaustion.cfg` | `NoCrossingAfterExhaustion` | `src/sim/world.rs:588` | The edges' remaining capacity is read once, before the loop of fills; src/src/sim/world.rs:584 says "check before the loop already gates further crosses once the edge is exhausted, but one fill may push past the cap": the run shows a taker whose first fill uses the capacity up and whose second fill crosses all the same. |
| `MCWorld_modify_after_gate.cfg` | `NoTradeAfterGate` | `src/sim/world.rs:1344` | modify_order does not look at the gate, so that between delivery start and the next expiry sweep a modification can still trade; src/src/sim/world.rs:140 says "Trading on a contract ends exactly at its delivery start time". |
| `MCWorld_modify_priority.cfg` | `DecreaseKeepsPriority` | `src/sim/world.rs:1310` | modify_order always cancels the order and inserts it at the tail of its level; src/src/sim/world.rs:1249 says "Quantity-decrease and tag-only updates preserve time priority". |
| `MCWorld_valid_until_past.cfg` | `ValidUntilInFuture` | `src/sim/world.rs:748` | submit_order checks valid_until only in combination with an execution option and admits an order whose valid_until is already past; src/src/sim/order.rs:82 says "Must be in the future at admit time". |
| `MCFleet_makers.cfg` | `DisjointSeeds` | `src/sim/fleet.rs:199` | roll_forward spawns each new contract at the window's far edge and passes its window offset, so that after the first rotation all new makers get seed_base + window_quarters - 1; src/src/lisp/mod.rs:71 says "The manager assigns `seed_base + i` to the MM covering quarter offset `i`, so each MM's RNG stream stays disjoint": the run shows two running makers with one seed. |
| `MCFleet_makers.cfg` | `NoQuoteAfterGate` | `src/sim/fleet.rs:345` | run_mm_contract reads the clock before it waits for the world lock and submits with that stamp; src/src/sim/world.rs:139 says "Trading on a contract ends exactly at its delivery start time": the run shows a quote placed on a contract that gated in between. |
| `MCScenarios_second.cfg` | `PickAdvancesEveryScenario` | `src/scenarios.rs:315` | pick_active_stage returns at the first running scenario, before it has looked at the others; src/src/scenarios.rs:288 says "Auto-advance any running scenario whose wallclock has moved into a different stage": the run shows a second running scenario left in a stage whose hours are over, which is what the scenarios API then reports. |
| `MCFeed.cfg`, *with* | `LagIsSignalled` | `src/server.rs:601` | the gRPC streams drop the broadcast receiver's Lagged error and carry on; src/README.md:230 says "Tonic's broadcast streams will emit a `Lagged(N)` if your client falls behind": the run shows a client that has lost events while its stream is open and has told it nothing. |
| `MCFeed.cfg`, *with* | `BrowserReconnects` | `web/src/main.rs:129` | the page opens the trade socket once and leaves its loop when the socket closes; src/src/ui/mod.rs:357 says of a lag "Close the socket so the browser reconnects and re-snapshots the recent history": the run shows a tape that is closed and never opened again unless the user reloads the page. |
| `MCService.cfg`, *with* | `BothSidesListed` | `src/server.rs:457` | list_gridpool_trades continues after the id of the last trade of the page, but both records of a self trade carry one id, so that the second is skipped when the page ends between them; src/src/sim/world.rs:40 says "Trade events are per-gridpool (two per fill, one per side of the match)": the run shows a walk that returns one of the two. |
| `MCControl.cfg`, *with* | `AllTimersReset` | `sim/common.lisp:19` | (reset-state) cancels the timers that (every ...) has noted in active-timers; src/README.md:341 says "cancel all timers; call at the top of `config.lisp` for hot reload", and lists (run-with-timer ...) beside it: the run shows a timer of the first load that still fires after the second. |
| `MCControl.cfg`, *with* | `WatchedFilesReload` | `src/lisp/mod.rs:337` | the watcher reads extra_watches once, before its loop; src/README.md:342 says of (watch-file PATH) "also reload when this support file changes": the run shows a file that a reload has added, saved without a reload. |
| `MCQuoting_slippage.cfg` | `SlippageBounded` | `src/sim/counterparty.rs:518` | the aggressor raises its limit to one tick whatever its reference is, so that with a reference below zero by more than its slippage it buys at prices far above reference + max_slippage; src/src/sim/counterparty.rs:384 says of max_slippage "Maximum slippage (EUR) from reference the aggressor accepts.", and src/README.md:223 that negative prices are admitted: the run shows a purchase at a price further than that above the reference. |
| `MCQuoting.cfg`, *with* | `QuotesSurviveRefresh` | `src/sim/counterparty.rs:253` | refresh checks only that its bid is below its ask before it cancels the old pair; a size off the quantity grid, or a suspended market, is refused afterwards, and the maker is left without quotes; src/src/sim/counterparty.rs:224 says "only once the new pair is known to be valid — cancel the old quotes and post the new ones": the run shows a refresh that cancels both quotes and posts none. |
| `MCWeather.cfg`, *with* | `OnlyEmissionsAreKept` | `src/weather_server.rs:114` | the live stream records the forecasts of a frame before it offers the frame to its client, and a client that hung up during the sleep is noticed only by that offer; src/src/weather_server.rs:7 says "Past emissions are kept in a bounded ring": the run shows a recorded frame that was emitted to nobody. |
| `MCControl.cfg`, *with* | `DeclarationsTakeEffect` | `src/bin/tradingsim.rs:107` | the exchange is built once from the lists of markets, gridpools and couplings, and a reload only appends to the lists; src/README.md:242 says "Save the file and the running server picks up changes on the next tick": a gridpool added by a save never reaches the exchange. |
| `MCWorld_modify_book_events.cfg` | `ShownMatchesBook` | `src/sim/world.rs:1310` | modify_order takes the order off the book, matches it and rests it again without emitting any public book event; src/src/sim/world.rs:77 documents the feed as one record per resting-order state change (add / update / full-consume): the run shows a subscriber whose book differs from the exchange's, for good if a maker was consumed. |
| `MCService.cfg`, *with* | `HeldOrdersMatch` | `src/server.rs:423` | the stream of a gridpool's orders is filtered by the state an order has come to, so that an order that leaves the filter leaves it without a record; src/src/server.rs:423 passes only what matches *now*, and a client that lists the active orders and follows the stream goes on holding orders that were filled: the run shows one. |
| `MCService.cfg`, *with* | `NothingIsMissed` | `src/server.rs:428` | the stream drops a lag together with what does not match, and src/src/server.rs:428 says "the stream contract is best-effort", while src/README.md:230 promises a `Lagged(N)` to whoever falls behind: the run shows a client that has read all there was and holds an order of an earlier state. |
| `MCService_odd_wires.cfg` | `ContractsAreAligned` | `src/sim/market.rs:88` | is_aligned compares whole seconds, and timestamp_from_proto keeps the parts of a second; src/src/sim/market.rs:86 says "True iff `start` lies on a multiple-of-duration minute boundary past the hour": the run shows an order admitted for a contract that starts half a second after the boundary, a contract nobody else trades. |
| `MCService_odd_wires.cfg` | `CurrencyIsKept` | `src/server.rs:271` | update_gridpool_order decodes the currency of the new price and drops it; src/src/proto_conv.rs:262 says of an order's prices that they "must share the order's currency": the run shows an order in one currency whose price was given in the other. |
| `MCPage.cfg`, *with* | `ListedOrderStaysSelected` | `web/src/panels/gridpools.rs:101` | two requests for the orders overlap, by the poll and by the effect on the selection, and the older answer may come last; the effect on the order list then takes a recent order for one that is gone; src/web/src/panels/gridpools.rs:101 says "Drop a selected order that's vanished from the list (filled + pruned, or cancelled)": the run shows an order dropped from the selection although the server lists it. |
| `MCPage.cfg`, *with* | `FilterSurvivesLoad` | `web/src/panels/public_trades.rs:55` | the effect that drops a filter for a contract no longer on the tape runs on the empty tape of a page just loaded and removes the stored choice; src/web/src/panels/filter_bar.rs:3 says of the filters "toggling a chip persists to `localStorage` so reloads keep the user's last selection", and this filter is stored likewise: the run shows a reload that loses it although its contract is on the tape that follows. |
| `MCPage.cfg`, *with* | `EveryWindowIsComplete` | `web/src/panels/chart.rs:85` | the chart offers windows of "12 hours" and "24 hours" and keeps the prints of four; the run shows a window chosen for which prints the page has received are no longer drawn. |
| `MCPage.cfg`, *with* | `AllDeliveriesDrawsAll` | `web/src/panels/chart.rs:290` | effective_period_ms parses the choice as a time and falls back to the next contract; src/web/src/panels/chart.rs:246 offers the choice as "all deliveries": the run shows it drawing one. |
| `MCPage_switch.cfg` | `AtMostOneRuns` | `web/src/panels/scenarios.rs:41` | a switch reads the list, stops the first running scenario and starts another in three requests; two of them that overlap, or one whose stop is lost, leave two scenarios running, of which the panel's row (src/web/src/panels/scenarios.rs:58) and the bias tick each see one. |
| `MCPage.cfg`, *with* | `LocalIsSimZone` | `web/src/main.rs:54` | the zone is asked for once, and a request that fails leaves the page on UTC for good; src/web/src/panels/pulse.rs:19 says "Local means "format in the sim's home zone"". |

Four of these say what a reader would assume rather than what a sentence promises, and
are kept because clients run into them: `HeldOrdersMatch`, `NothingIsMissed`,
`CurrencyIsKept` and `AtMostOneRuns`.

Two more are not expressed by a configuration: the README names the keyword of a
coupling's capacity `:capacity-mw`, while `register_couplings` reads another; and
`fleet-next-seed-base` reserves windows of 1000 seeds, while an aggressor's seed is
`base + offset * 100 + profile`, which leaves the window after ten quarters.

## 7. What is not modelled

* The text of errors, tables and panels: what is printed or drawn, not how. Of decimals
  on the wire, that they parse or do not. Seconds on the wire are those of dates that
  exist for `chrono`; `timestamp_from_proto` (`src/proto_conv.rs:98-105`) refuses the rest.
* Weather streams that name their locations (`src/weather_server.rs:102-109`): their frames hold
  interpolated forecasts, one for each location named.
* The order in which one handler's book events leave it: `ShownMatchesBook` checks which orders are
  announced, and with what quantity.
* That a request for an order's trades names its pool too: `DrillDown` takes the pool
  from the order.
* Of the page: the density switch and the weather panel, whose poll sets one signal; of
  `tsctl`: the weather command and the columns of its tables.
* The parts of the page composed with one another, or with the server's `Feed`: they
  share no request, and `MCPage` takes them one by one.
* The formulas of solar elevation and wind, the exponential weight of a scenario by
  distance, and the random draws: their results are inputs (`Fundamentals`, `Tilts`,
  `Walk`). What `Tables` cuts to integers the code keeps as decimals or floats.
* The boot sequence, beyond the initial states of the modules and `Boot` of `Control`.
* Crash and recovery: the program persists nothing.
* The defaults the boot installs when a list is empty.
* Event histories other than trades and book records, which are treated alike.

The modules abstract from each other as follows: `Fleet`, `Quoting`, `Feed`,
`Listing`, `Calls` and `DrillDown` see of the exchange only what their component calls (an admitted or
refused order, an event, a list under the lock); `World` sees of its callers
arbitrary requests at arbitrary times. Handlers are atomic to each
other because of the write lock, and a lock that is waited for is a step that
comes later.
