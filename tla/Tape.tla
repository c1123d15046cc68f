-------------------------------- MODULE Tape --------------------------------
(***************************************************************************)
(* What the browser page keeps of the public trades and how the operator   *)
(* filters it: the socket's handler (web/src/main.rs) feeds the tape of    *)
(* the newest prints, the chart's history (panels/chart.rs) and the spark- *)
(* bars (panels/pulse.rs); chips, delivery filters and the chart's window  *)
(* are kept in the browser's storage and read back when the page is loaded *)
(* (panels/filter_bar.rs, panels/public_trades.rs).                        *)
(*                                                                         *)
(* A print is told from its position in `prints'.  An optional value is a  *)
(* set of at most one element; so is an item of the storage.               *)
(***************************************************************************)
EXTENDS Naturals, Sequences, FiniteSets, SequencesExt, FiniteSetsExt

CONSTANTS
  Home, Neighbour,   \* the areas the page knows
  Prints,            \* [buy, sell, period] of the trades that may print
  RingSize,          \* prints the server replays to a new socket
  BufferCap,         \* TRADES_BUFFER_CAP
  DisplayCap,        \* TRADES_DISPLAY_CAP
  BufferSpan,        \* PRICE_BUFFER_MS, in the model's units of time
  Windows,           \* the chart's windows, in the same units
  Buckets,           \* BUCKETS of a sparkbar
  Unknown,           \* an area code of an earlier build, left in the storage
  MaxPrints, MaxTime, MaxPicks   \* bounds

ASSUME TapeAssumption ==
  /\ Home \intersect Neighbour = {} /\ Unknown \notin Home \union Neighbour
  /\ {RingSize, BufferCap, DisplayCap, BufferSpan, Buckets} \subseteq Nat \ {0}
  /\ Windows \subseteq Nat /\ \E w \in Windows : \A v \in Windows : v <= w
  /\ {p.period : p \in Prints} \subseteq Nat \ {0}
  /\ {MaxPrints, MaxTime, MaxPicks} \subseteq Nat

AllAreas == Home \union Neighbour
Period == {p.period : p \in Prints}
AllDeliveries == 0   \* the chart's option of that name, which is no delivery
Option(S) == {{}} \union {{x} : x \in S}

VARIABLES
  now,          \* the clock of server and browser
  prints,       \* every print of the exchange: [buy, sell, period, exec]
  first,        \* the first print this page's socket was sent
  received,     \* the last one it received
  open,         \* the socket is open
  tape,         \* `trades': positions, newest first
  chart,        \* `chart_prices': positions, oldest first
  spark,        \* per home area its bars, the newest last
  age,          \* rotations since each print was received (history)
  activeAreas, showNeighbours,            \* FilterState
  periodFilter, chartPeriod, focused,     \* the three delivery filters
  window,       \* the chart's window
  stored,       \* the browser's storage
  changed,      \* the tape has changed and its effect has not run
  picks         \* what the operator has picked so far (bound)

feed == <<prints, first, received, open, tape, chart, spark, age>>
filters == <<activeAreas, showNeighbours, periodFilter, chartPeriod, focused, window,
             stored>>
tapeVars == <<now, feed, filters, changed, picks>>

-----------------------------------------------------------------------------
(* The storage, and what a load makes of it.  Area codes the build does    *)
(* not know are left out.                                                  *)
NothingStored ==
  [areas |-> {}, neighbours |-> {}, period |-> {}, chart |-> {}, window |-> {}]
DefaultWindow == CHOOSE w \in Windows : \A v \in Windows : v <= w
OrElse(item, value) == IF item = {} THEN value ELSE CHOOSE x \in item : TRUE

LoadAreas(s) == OrElse(s.areas, Home) \intersect AllAreas
LoadNeighbours(s) == s.neighbours = {TRUE}
LoadPeriod(s) == s.period
LoadChart(s) == s.chart
LoadWindow(s) == OrElse(s.window, DefaultWindow)

(* A page that is loaded: filters from the storage, an empty tape, a       *)
(* socket that is sent the ring, and every effect still to run.            *)
EmptyBars == [a \in Home |-> [i \in 1 .. Buckets |-> 0]]
TapeInit ==
  /\ now = 0 /\ prints = << >>
  /\ stored \in {NothingStored, [NothingStored EXCEPT !.areas = {Home \union {Unknown}},
                                                      !.neighbours = {FALSE}]}
  /\ first = 1 /\ received = 0
  /\ activeAreas = LoadAreas(stored) /\ showNeighbours = LoadNeighbours(stored)
  /\ periodFilter = LoadPeriod(stored) /\ chartPeriod = LoadChart(stored)
  /\ window = LoadWindow(stored)
  /\ focused = {} /\ open = TRUE
  /\ tape = << >> /\ chart = << >> /\ spark = EmptyBars /\ age = << >>
  /\ changed = TRUE
  /\ picks = 0

Reload ==
  /\ first' = IF Len(prints) > RingSize THEN Len(prints) - RingSize + 1 ELSE 1
  /\ received' = first' - 1
  /\ activeAreas' = LoadAreas(stored) /\ showNeighbours' = LoadNeighbours(stored)
  /\ periodFilter' = LoadPeriod(stored) /\ chartPeriod' = LoadChart(stored)
  /\ window' = LoadWindow(stored)
  /\ focused' = {} /\ open' = TRUE
  /\ tape' = << >> /\ chart' = << >> /\ spark' = EmptyBars /\ age' = << >>
  /\ changed' = TRUE
  /\ UNCHANGED <<now, prints, stored, picks>>

-----------------------------------------------------------------------------
(* Time passes; the exchange makes a trade, stamped a little before it     *)
(* is published.                                                           *)
Tick ==
  /\ now < MaxTime /\ now' = now + 1
  /\ UNCHANGED <<feed, filters, changed, picks>>
Trade(p, late) ==
  /\ Len(prints) < MaxPrints /\ late <= now
  /\ prints' = Append(prints, [buy |-> p.buy, sell |-> p.sell, period |-> p.period,
                               exec |-> now - late])
  /\ UNCHANGED <<now, first, received, open, tape, chart, spark, age, filters,
                 changed, picks>>

(* record_trade: a print that touches a home area joins the history, and   *)
(* what is older than the span leaves at its front.                        *)
TouchesHome(i) == {prints[i].buy, prints[i].sell} \intersect Home # {}
Fresh(i) == prints[i].exec + BufferSpan >= now
WrongRecorded(i) ==
  LET longer == IF prints[i].buy \in Home THEN Append(chart, i) ELSE chart
      kept == SelectInSeq(longer, Fresh) IN
  IF kept = 0 THEN << >> ELSE SubSeq(longer, kept, Len(longer))
Recorded(i) ==
  IF ~TouchesHome(i) THEN chart
  ELSE LET longer == Append(chart, i)
           kept == SelectInSeq(longer, Fresh) IN
       IF kept = 0 THEN << >> ELSE SubSeq(longer, kept, Len(longer))

(* The tape takes it at its front and is cut to size.                      *)
Taken(i) == LET longer == <<i>> \o tape IN
            IF Len(longer) > BufferCap THEN SubSeq(longer, 1, BufferCap) ELSE longer

(* The bar that grows is the buyer's, if the buyer's area is at home.      *)
Counted(i) == IF prints[i].buy \in Home
              THEN [spark EXCEPT ![prints[i].buy][Buckets] = @ + 1] ELSE spark

Receive ==
  /\ open /\ received < Len(prints)
  /\ LET i == received + 1 IN
     /\ received' = i /\ tape' = Taken(i) /\ chart' = Recorded(i)
     /\ spark' = Counted(i) /\ age' = Append(age, 0)
  /\ changed' = TRUE
  /\ UNCHANGED <<now, prints, first, open, filters, picks>>

(* A socket that closes, as it does when it lags, is not opened again.     *)
Close ==
  /\ open /\ received < Len(prints) /\ open' = FALSE
  /\ UNCHANGED <<now, prints, first, received, tape, chart, spark, age, filters,
                 changed, picks>>

Rotate ==
  /\ \E a \in Home, i \in 1 .. Buckets : spark[a][i] # 0
  /\ spark' = [a \in Home |-> Append(Tail(spark[a]), 0)]
  /\ age' = [i \in DOMAIN age |-> IF age[i] < Buckets THEN age[i] + 1 ELSE age[i]]
  /\ UNCHANGED <<now, prints, first, received, open, tape, chart, filters, changed,
                 picks>>

-----------------------------------------------------------------------------
(* The effect that follows the tape drops a filter on a contract that the  *)
(* tape has no print of.                                                   *)
Offered == {prints[i].period : i \in ToSet(tape)}
DropFilter ==
  /\ changed /\ changed' = FALSE
  /\ LET kept == periodFilter \intersect Offered IN
     /\ periodFilter' = kept
     /\ stored' = IF kept = periodFilter THEN stored ELSE [stored EXCEPT !.period = {}]
  /\ UNCHANGED <<now, feed, activeAreas, showNeighbours, chartPeriod, focused, window,
                 picks>>

-----------------------------------------------------------------------------
(* The operator; the effects of an event have run before the next one.     *)
Pick ==
  /\ ~changed /\ picks < MaxPicks /\ picks' = picks + 1
  /\ UNCHANGED <<now, feed, changed>>

(* save_filter, with every change of the chips.                            *)
Chips(active, neighbours) ==
  /\ activeAreas' = active /\ showNeighbours' = neighbours
  /\ stored' = [stored EXCEPT !.areas = {active}, !.neighbours = {neighbours}]
  /\ UNCHANGED <<periodFilter, chartPeriod, focused, window>>
VisibleChips == Home \union (IF showNeighbours THEN Neighbour ELSE {})
ToggleArea(a) ==
  /\ Pick /\ a \in VisibleChips
  /\ Chips(IF a \in activeAreas THEN activeAreas \ {a} ELSE activeAreas \union {a},
           showNeighbours)
NeighbourAreas ==
  IF showNeighbours THEN activeAreas \ Neighbour ELSE activeAreas \union Neighbour
ToggleNeighbours == Pick /\ Chips(NeighbourAreas, ~showNeighbours)

(* The delivery filter of the tape; "all" stores nothing.                  *)
StorePeriod(ps) == [stored EXCEPT !.period = ps]
FilterPeriod(ps) ==
  /\ Pick /\ ps \subseteq Offered
  /\ periodFilter' = ps /\ stored' = StorePeriod(ps)
  /\ UNCHANGED <<activeAreas, showNeighbours, chartPeriod, focused, window>>

(* The chart's own dropdown: auto, "all deliveries" or a contract.         *)
Charted == {prints[i].period : i \in ToSet(chart)}
ChooseChart(ps) ==
  /\ Pick /\ ps \subseteq Charted \union {AllDeliveries}
  /\ chartPeriod' = ps /\ stored' = [stored EXCEPT !.chart = ps]
  /\ UNCHANGED <<activeAreas, showNeighbours, periodFilter, focused, window>>
ChooseWindow(w) ==
  /\ Pick /\ window' = w /\ stored' = [stored EXCEPT !.window = {w}]
  /\ UNCHANGED <<activeAreas, showNeighbours, periodFilter, chartPeriod, focused>>

(* The rows of the tape, and a click on one, which pins its contract or    *)
(* lets it go; the pill lets it go as well.                                *)
Passes(i) ==
  LET t == prints[i] IN
  /\ periodFilter \subseteq {t.period} /\ focused \subseteq {t.period}
  /\ {t.buy, t.sell} \intersect activeAreas # {}
Rows == LET passing == SelectSeq(tape, Passes) IN
        IF Len(passing) > DisplayCap THEN SubSeq(passing, 1, DisplayCap) ELSE passing
Focus(ps) ==
  /\ focused' = ps
  /\ UNCHANGED <<activeAreas, showNeighbours, periodFilter, chartPeriod, window, stored>>
ClickRow(i) ==
  /\ Pick /\ i \in ToSet(Rows)
  /\ Focus(IF focused = {prints[i].period} THEN {} ELSE {prints[i].period})
ClickPill == Pick /\ focused # {} /\ Focus({})

(* The contract the chart draws: its dropdown's, or the focused one, or    *)
(* the next that starts, a quarter being one unit of time.                 *)
EffectivePeriod ==
  LET pin == IF chartPeriod # {} THEN chartPeriod ELSE focused
      dated == pin \intersect Period IN
  OrElse(dated, now + 1)
Drawn == {i \in ToSet(chart) :
            prints[i].period = EffectivePeriod /\ prints[i].exec + window >= now}

-----------------------------------------------------------------------------
TapeNext ==
  \/ Tick \/ Receive \/ Close \/ Rotate \/ DropFilter \/ Reload
  \/ \E p \in Prints, late \in {0, 1} : Trade(p, late)
  \/ \E a \in AllAreas : ToggleArea(a)
  \/ ToggleNeighbours \/ ClickPill
  \/ \E ps \in Option(Period) : FilterPeriod(ps)
  \/ \E ps \in Option(Period \union {AllDeliveries}) : ChooseChart(ps)
  \/ \E w \in Windows : ChooseWindow(w)
  \/ \E i \in ToSet(tape) : ClickRow(i)

TapeSpec == TapeInit /\ [][TapeNext]_tapeVars

-----------------------------------------------------------------------------
(* Every variable stays in its type.                                       *)
TapeTypeOK ==
  /\ now \in 0 .. MaxTime /\ Len(prints) <= MaxPrints
  /\ first \in 1 .. MaxPrints + 1 /\ received \in 0 .. MaxPrints /\ open \in BOOLEAN
  /\ ToSet(tape) \subseteq first .. received /\ ToSet(chart) \subseteq first .. received
  /\ spark \in [Home -> [1 .. Buckets -> 0 .. MaxPrints]]
  /\ Len(age) = received + 1 - first
  /\ activeAreas \subseteq AllAreas /\ showNeighbours \in BOOLEAN
  /\ periodFilter \in Option(Period) /\ focused \in Option(Period)
  /\ chartPeriod \in Option(Period \union {AllDeliveries}) /\ window \in Windows
  /\ changed \in BOOLEAN
  /\ picks \in 0 .. MaxPicks

Got == first .. received

(* The tape is the newest prints the page received, newest first, as many  *)
(* as it has room for.                                                     *)
TapeIsNewest ==
  tape = [k \in 1 .. (IF Cardinality(Got) < BufferCap THEN Cardinality(Got) ELSE BufferCap)
            |-> received + 1 - k]

(* The chart draws every print of its contract that touches a home area    *)
(* and lies within its window, for a window no longer than the history     *)
(* that is kept: trimming, done only when a print comes, never hides one.  *)
ToDraw == {i \in Got : /\ TouchesHome(i) /\ prints[i].period = EffectivePeriod
                       /\ prints[i].exec + window >= now}
ChartIsComplete == window <= BufferSpan => Drawn = ToDraw

(* Every bar counts the prints its area bought as many rotations ago.      *)
SparkCounts ==
  \A a \in Home, k \in 0 .. Buckets - 1 :
    spark[a][Buckets - k] =
      Cardinality({i \in Got : prints[i].buy = a /\ age[i + 1 - first] = k})

(* No area is active whose chip is not there to be switched off, whatever  *)
(* an earlier build left in the storage.                                   *)
ActiveAreasHaveChips == activeAreas \subseteq VisibleChips

(* The delivery filter of the tape is one its dropdown offers.             *)
FilterIsOffered == ~changed => periodFilter \subseteq Offered

(* The storage is never behind the page: a load at any moment begins with  *)
(* the filters the operator sees.                                          *)
StorageMirrorsPage ==
  /\ LoadAreas(stored) = activeAreas /\ LoadNeighbours(stored) = showNeighbours
  /\ LoadPeriod(stored) = periodFilter /\ LoadChart(stored) = chartPeriod
  /\ LoadWindow(stored) = window

(* What the page keeps of the trades it received, and what the operator's  *)
(* filters promise, checked together.                                      *)
TapeConsistent ==
  /\ TapeTypeOK /\ TapeIsNewest /\ ChartIsComplete /\ SparkCounts
  /\ ActiveAreasHaveChips /\ FilterIsOffered /\ StorageMirrorsPage

-----------------------------------------------------------------------------
(* Filters are persisted "so reloads keep the user's last selection"; the  *)
(* tape's delivery filter is stored with them.                             *)
FilterSurvivesLoad ==
  [][DropFilter => \A p \in periodFilter :
        (\E i \in 1 .. Len(prints) : prints[i].period = p) => p \in periodFilter']_tapeVars

(* The chart offers windows of twelve and twenty-four hours.               *)
EveryWindowIsComplete == Drawn = ToDraw

(* "all deliveries", chosen, draws every delivery.                         *)
AllDeliveriesDrawsAll ==
  chartPeriod = {AllDeliveries} =>
    {i \in Got : TouchesHome(i) /\ prints[i].exec + window >= now} \subseteq Drawn
=============================================================================
