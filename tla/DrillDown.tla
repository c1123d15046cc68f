----------------------------- MODULE DrillDown -----------------------------
(***************************************************************************)
(* The browser page's gridpool panel (web/src/panels/gridpools.rs): a list *)
(* of gridpools, the orders of the selected one and the trades of the      *)
(* selected order, filled by requests to the UI server (src/ui/mod.rs)     *)
(* that are answered in any order, while the exchange and the operator's   *)
(* clicks go on.  An answer is put into its pane whatever is selected by   *)
(* then.  An optional value is a set of at most one element.               *)
(***************************************************************************)
EXTENDS Naturals, Bags, FiniteSetsExt

CONSTANTS
  Pools,        \* gridpools; the registry lists them in no particular order
  PoolOf,       \* the orders that may come, each with its gridpool
  PeriodOf,     \* and its delivery period
  MaxFills,     \* bound on the fills of an order
  MaxClicks,    \* bound on the operator's clicks
  MaxFails,     \* bound on the requests that fail
  MaxWaiting    \* the poll is not modelled while more requests than this wait

Orders == DOMAIN PoolOf
ASSUME DrillDownAssumption ==
  /\ DOMAIN PeriodOf = Orders
  /\ \A o \in Orders : PoolOf[o] \in Pools
  /\ {MaxFills, MaxClicks, MaxFails, MaxWaiting} \subseteq Nat

VARIABLES
  placed,         \* orders the exchange has recorded
  fills,          \* fills of each order
  selected, selectedOrder, periodShown,  \* what the operator looks at
  ordersPane, tradesPane,                 \* the orders, the <<order, fill>>s shown
  loaded,         \* the gridpool list has arrived
  effects,        \* effects that have been notified and not run
  calls,          \* bag of requests on their way
  poolPoll,           \* what the poll loop awaits
  choice,         \* the gridpool last clicked (history)
  clicks, fails   \* clicks and failures so far (bounds)

drillVars == <<placed, fills, selected, selectedOrder, periodShown, ordersPane,
          tradesPane, loaded, effects, calls, poolPoll, choice, clicks, fails>>
server == <<placed, fills>>
bounds == <<choice, clicks, fails>>

Effects == {"selected", "selectedOrder", "orders"}

-----------------------------------------------------------------------------
(* What the server answers.  A request for an order's trades names a pool  *)
(* too, the selected one, by which the server finds the order.             *)
OrdersOf(pool) == {o \in placed : PoolOf[o] = pool}
TradesOf(o) == {o} \X (1 .. fills[o])
FillsOf(pool) == MapThenSumSet(LAMBDA o : fills[o], OrdersOf(pool))
Busiest == {p \in Pools : \A q \in Pools : FillsOf(q) <= FillsOf(p)}
Answer(c) == IF c.kind = "orders" THEN OrdersOf(c.of) ELSE TradesOf(c.of)

Asked(kind, x) == [kind |-> kind, of |-> x, served |-> FALSE, answer |-> {}]

(* refresh_orders, refresh_trades: a request for what the selection holds. *)
Ask(kind, ids) == SetToBag({Asked(kind, x) : x \in ids})

DrillInit ==
  /\ placed = {} /\ fills = [o \in Orders |-> 0]
  /\ selected = {} /\ selectedOrder = {} /\ periodShown = {}
  /\ ordersPane = {} /\ tradesPane = {} /\ loaded = FALSE
  /\ effects = Effects
  /\ calls = EmptyBag /\ poolPoll = [at |-> "asked", best |-> {}]
  /\ choice = {} /\ clicks = 0 /\ fails = 0

-----------------------------------------------------------------------------
(* The exchange records an order, or fills one.                            *)
page == <<selected, selectedOrder, periodShown, ordersPane, tradesPane, loaded,
          effects, calls, poolPoll>>
Place(o) ==
  /\ o \notin placed /\ placed' = placed \union {o}
  /\ UNCHANGED <<fills, page, bounds>>
Fill(o) ==
  /\ o \in placed /\ fills[o] < MaxFills /\ fills' = [fills EXCEPT ![o] = @ + 1]
  /\ UNCHANGED <<placed, page, bounds>>

-----------------------------------------------------------------------------
(* The effects, each its own task: the browser runs those an event has     *)
(* notified, in any order, before the next event.  A new selection drops   *)
(* the order and the period looked at, and asks for the orders.            *)
Quiet == effects = {}
OnSelected ==
  /\ "selected" \in effects
  /\ selectedOrder' = {} /\ periodShown' = {}
  /\ ordersPane' = IF selected = {} THEN {} ELSE ordersPane
  /\ effects' = (effects \ {"selected"}) \union {"selectedOrder"}
                  \union (IF selected = {} THEN {"orders"} ELSE {})
  /\ calls' = calls (+) Ask("orders", selected)
  /\ UNCHANGED <<server, selected, tradesPane, loaded, poolPoll, bounds>>

(* The order whose trades are asked for: one needs both selections.        *)
Looked == IF selected = {} THEN {} ELSE selectedOrder
OnSelectedOrder ==
  /\ "selectedOrder" \in effects /\ effects' = effects \ {"selectedOrder"}
  /\ tradesPane' = IF Looked = {} THEN {} ELSE tradesPane
  /\ calls' = calls (+) Ask("trades", Looked)
  /\ UNCHANGED <<server, selected, selectedOrder, periodShown, ordersPane, loaded,
                 poolPoll, bounds>>

(* What of the operator's filters the orders shown still have.             *)
KeepPeriod == periodShown \intersect {PeriodOf[o] : o \in ordersPane}
WrongKeepOrder == selectedOrder
KeepOrder == selectedOrder \intersect ordersPane
OnOrders ==
  /\ "orders" \in effects
  /\ periodShown' = KeepPeriod /\ selectedOrder' = KeepOrder
  /\ effects' = (effects \ {"orders"})
                  \union (IF KeepOrder # selectedOrder THEN {"selectedOrder"} ELSE {})
  /\ UNCHANGED <<server, selected, ordersPane, tradesPane, loaded, calls, poolPoll, bounds>>

-----------------------------------------------------------------------------
(* The operator.  A click on the gridpool already selected counts as one.  *)
Click == Quiet /\ clicks < MaxClicks /\ clicks' = clicks + 1 /\ UNCHANGED <<server, fails>>
ClickPool(p) ==
  /\ Click /\ loaded
  /\ selected' = {p} /\ choice' = {p} /\ effects' = effects \union {"selected"}
  /\ UNCHANGED <<selectedOrder, periodShown, ordersPane, tradesPane, loaded, calls, poolPoll>>
VisibleOrders == {o \in ordersPane : periodShown \subseteq {PeriodOf[o]}}
ClickOrder(o) ==
  /\ Click /\ selected # {} /\ o \in VisibleOrders
  /\ selectedOrder' = {o} /\ effects' = effects \union {"selectedOrder"}
  /\ UNCHANGED <<selected, periodShown, ordersPane, tradesPane, loaded, calls, poolPoll, choice>>
ChoosePeriod(ps) ==
  /\ Click /\ periodShown' = ps
  /\ UNCHANGED <<selected, selectedOrder, ordersPane, tradesPane, loaded, effects, calls,
                 poolPoll, choice>>

-----------------------------------------------------------------------------
(* A request is served, and its answer put into the pane; or it fails, and *)
(* nothing is.                                                             *)
Serve(c) ==
  /\ BagIn(c, calls) /\ ~c.served
  /\ calls' = (calls (-) SetToBag({c}))
                (+) SetToBag({[c EXCEPT !.served = TRUE, !.answer = Answer(c)]})
  /\ UNCHANGED <<server, selected, selectedOrder, periodShown, ordersPane, tradesPane,
                 loaded, effects, poolPoll, bounds>>
Deliver(c) ==
  /\ Quiet /\ BagIn(c, calls) /\ c.served
  /\ calls' = calls (-) SetToBag({c})
  /\ IF c.kind = "orders"
       THEN ordersPane' = c.answer /\ effects' = effects \union {"orders"}
              /\ UNCHANGED tradesPane
       ELSE tradesPane' = c.answer /\ UNCHANGED <<ordersPane, effects>>
  /\ UNCHANGED <<server, selected, selectedOrder, periodShown, loaded, poolPoll, bounds>>
Fail(c) ==
  /\ BagIn(c, calls) /\ fails < MaxFails /\ fails' = fails + 1
  /\ calls' = calls (-) SetToBag({c})
  /\ UNCHANGED <<server, selected, selectedOrder, periodShown, ordersPane, tradesPane,
                 loaded, effects, poolPoll, choice, clicks>>

-----------------------------------------------------------------------------
(* The poll.  A gridpool with the most trades is selected if none is when  *)
(* the list arrives; then both panes are asked for again, whether the list *)
(* arrived or not.                                                         *)
unasked == <<server, selectedOrder, periodShown, ordersPane, tradesPane, choice, clicks>>
AskPools ==
  /\ Quiet /\ poolPoll.at = "asleep" /\ BagCardinality(calls) <= MaxWaiting
  /\ poolPoll' = [at |-> "asked", best |-> {}]
  /\ UNCHANGED <<unasked, selected, loaded, effects, calls, fails>>
ServePools ==
  /\ poolPoll.at = "asked"
  /\ \E p \in Busiest : poolPoll' = [at |-> "answered", best |-> {p}]
  /\ UNCHANGED <<unasked, selected, loaded, effects, calls, fails>>

AutoSelect(best) == IF selected = {} THEN best ELSE selected

WrongRefresh(sel) == EmptyBag
Refresh(sel) ==
  Ask("orders", sel) (+) (IF sel = {} THEN EmptyBag ELSE Ask("trades", selectedOrder))
PoolsPolled(best) ==
  LET sel == AutoSelect(best) IN
  /\ selected' = sel
  /\ ordersPane' = IF sel = {} THEN {} ELSE ordersPane
  /\ tradesPane' = IF sel = {} \/ selectedOrder = {} THEN {} ELSE tradesPane
  /\ effects' = effects \union (IF sel # selected THEN {"selected"} ELSE {})
                        \union (IF sel = {} THEN {"orders"} ELSE {})
  /\ calls' = calls (+) Refresh(sel)
  /\ poolPoll' = [at |-> "asleep", best |-> {}]
  /\ UNCHANGED <<server, selectedOrder, periodShown, choice, clicks>>
TakePools ==
  /\ Quiet /\ poolPoll.at = "answered" /\ PoolsPolled(poolPoll.best)
  /\ loaded' = TRUE /\ UNCHANGED fails
LosePools ==
  /\ Quiet /\ poolPoll.at = "asked" /\ fails < MaxFails /\ fails' = fails + 1
  /\ PoolsPolled({}) /\ UNCHANGED loaded

Served(kind) == \E c \in DOMAIN calls : c.kind = kind /\ Serve(c)
Delivered(kind) == \E c \in DOMAIN calls : c.kind = kind /\ Deliver(c)

DrillNext ==
  \/ \E o \in Orders : Place(o) \/ Fill(o)
  \/ OnSelected \/ OnSelectedOrder \/ OnOrders
  \/ \E p \in Pools : ClickPool(p)
  \/ \E o \in Orders : ClickOrder(o)
  \/ \E o \in ordersPane : ChoosePeriod({PeriodOf[o]})
  \/ ChoosePeriod({})
  \/ \E c \in DOMAIN calls : Serve(c) \/ Deliver(c) \/ Fail(c)
  \/ AskPools \/ ServePools \/ TakePools \/ LosePools

DrillSpec == DrillInit /\ [][DrillNext]_drillVars

(* The browser runs every effect and wakes the poll; the server answers.   *)
DrillFairness ==
  /\ WF_drillVars(OnSelected) /\ WF_drillVars(OnSelectedOrder) /\ WF_drillVars(OnOrders)
  /\ WF_drillVars(AskPools) /\ WF_drillVars(ServePools) /\ WF_drillVars(TakePools)
  /\ \A kind \in {"orders", "trades"} : WF_drillVars(Served(kind)) /\ WF_drillVars(Delivered(kind))

-----------------------------------------------------------------------------
(* Every variable stays in its type.                                       *)
Optional(S) == {{}} \union {{x} : x \in S}
DrillTypeOK ==
  /\ placed \subseteq Orders /\ fills \in [Orders -> 0 .. MaxFills]
  /\ selected \in Optional(Pools) /\ choice \in Optional(Pools)
  /\ selectedOrder \in Optional(Orders)
  /\ periodShown \in Optional({PeriodOf[o] : o \in Orders})
  /\ ordersPane \subseteq Orders /\ tradesPane \subseteq Orders \X (1 .. MaxFills)
  /\ loaded \in BOOLEAN /\ effects \subseteq Effects
  /\ poolPoll.at \in {"asleep", "asked", "answered"} /\ poolPoll.best \in Optional(Pools)
  /\ clicks \in 0 .. MaxClicks /\ fails \in 0 .. MaxFails

(* Between events the order and the period looked at are among the orders  *)
(* shown: no filter hides every row for good, and no order whose trades    *)
(* are shown is out of sight.                                              *)
LooksAtWhatIsShown ==
  Quiet => /\ selectedOrder \subseteq ordersPane
           /\ periodShown \subseteq {PeriodOf[o] : o \in ordersPane}

(* The automatic selection never replaces the operator's.                  *)
ChoiceIsKept == choice \subseteq selected

(* What the panel promises in every state, checked together.               *)
DrillDownConsistent == DrillTypeOK /\ LooksAtWhatIsShown /\ ChoiceIsKept

(* Whatever order the answers came in, the panes come to show the          *)
(* selection and stay: every stale pane is mended by a later poll.         *)
PanesShowSelection ==
  /\ selected # {}
  /\ \A p \in selected : ordersPane = OrdersOf(p)
  /\ tradesPane = UNION {TradesOf(o) : o \in selectedOrder}
PanesHeal == <>[]PanesShowSelection

(* A comment says the selected order is dropped when it has vanished from  *)
(* the list, "filled + pruned, or cancelled": an order the server still    *)
(* lists keeps its selection.                                              *)
ListedOrderStaysSelected ==
  [][OnOrders => \A o \in selectedOrder :
       (\E p \in selected : o \in OrdersOf(p)) => o \in selectedOrder']_drillVars
=============================================================================
