----------------------------- MODULE PageProofs -----------------------------
(***************************************************************************)
(* What the browser page keeps to, for any gridpools, orders, prints and   *)
(* scenarios, any number of clicks and any order of answers: the panel of  *)
(* the gridpools (DrillDown), the tape and its filters (Tape), and the     *)
(* shell with the scenario panel (Shell).  The three share no state, so    *)
(* each has an invariant of its own.                                       *)
(***************************************************************************)
EXTENDS DrillDown, Tape, Shell, FiniteSetTheorems,
        SequenceTheorems, TLAPS

(* Of finitely many numbers one is the least.                              *)
LEMMA HasLeast ==
  ASSUME NEW D \in SUBSET Nat, IsFiniteSet(D), D # {}
  PROVE  \E i \in D : \A j \in D : i <= j
<1> DEFINE H(i) == {k \in D : k < i}
           T == {H(i) : i \in D}
<1>1. IsWellFoundedOn(StrictSubsetOrdering(D), SUBSET D)
  BY FS_StrictSubsetOrderingWellFounded, FS_FiniteSubsetsOfFinite
<1>2. T \subseteq SUBSET D /\ T # {}
  OBVIOUS
<1>3. PICK x \in T : \A y \in T : <<y, x>> \notin StrictSubsetOrdering(D)
  <2> HIDE DEF T
  <2> QED BY <1>1, <1>2, WFMin
<1>4. PICK i \in D : x = H(i)
  OBVIOUS
<1>5. ASSUME NEW j \in D, j < i PROVE FALSE
  <2>1. H(j) \in T /\ H(j) \in SUBSET D /\ H(i) \in SUBSET D
    OBVIOUS
  <2>2. H(j) \subseteq H(i) /\ j \in H(i) /\ j \notin H(j)
    <3>1. i \in Nat /\ j \in Nat /\ \A k \in D : k \in Nat
      OBVIOUS
    <3>2. \A k \in D : k < j => k < i
      BY <1>5, <3>1
    <3>3. ~(j < j)
      BY <3>1
    <3> QED
      BY <1>5, <3>2, <3>3
  <2> HIDE DEF H, T
  <2> QED
    BY <1>3, <1>4, <2>1, <2>2 DEF StrictSubsetOrdering
<1> QED
  BY <1>5

-----------------------------------------------------------------------------
(* The gridpool panel.                                                     *)

(* What a request may be: one for the orders of a gridpool or for the      *)
(* trades of an order, with an answer of its kind.                         *)
Request ==
  [kind: {"orders"}, of: Pools, served: BOOLEAN, answer: SUBSET Orders]
  \cup [kind: {"trades"}, of: Orders, served: BOOLEAN,
        answer: SUBSET (Orders \X (1 .. MaxFills))]

(* The order and the period looked at are among the orders shown whenever  *)
(* the effect that sees to it has no reason to run.                        *)
FiltersFollow ==
  "orders" \notin effects =>
    /\ selectedOrder \subseteq ordersPane
    /\ periodShown \subseteq {PeriodOf[o] : o \in ordersPane}

DrillInv ==
  DrillTypeOK /\ DOMAIN calls \subseteq Request /\ FiltersFollow /\ ChoiceIsKept

(* Which requests are on their way after one is sent or answered.          *)
LEMMA Sent == \A B, C : DOMAIN (B (+) C) = DOMAIN B \cup DOMAIN C
BY DEF (+)
(* One that is answered or has failed is off it. *)
LEMMA AnsweredOff == \A B, C : DOMAIN (B (-) C) \subseteq DOMAIN B
BY DEF (-)
(* A bag of single requests holds just these. *)
LEMMA Bagged == /\ \A S : DOMAIN SetToBag(S) = S
                /\ DOMAIN EmptyBag = {}
BY DEF SetToBag, EmptyBag

(* What is asked is a request. *)
LEMMA AskedIsRequest ==
  /\ \A ids \in SUBSET Pools : DOMAIN Ask("orders", ids) \subseteq Request
  /\ \A ids \in SUBSET Orders : DOMAIN Ask("trades", ids) \subseteq Request
<1>1. \A p \in Pools : Asked("orders", p) \in Request
  BY DEF Asked, Request
<1>2. \A o \in Orders : Asked("trades", o) \in Request
  BY DEF Asked, Request
<1> QED
  BY <1>1, <1>2, Bagged DEF Ask

(* A choice of at most one element, and nothing, are sets of the elements. *)
LEMMA OptionalIsSubset ==
  ASSUME NEW S
  PROVE  /\ {} \in Optional(S)
         /\ \A x \in S : {x} \in Optional(S)
         /\ \A T \in Optional(S) : T \subseteq S
         /\ \A T \in Optional(S) : \A U : T \cap U \in Optional(S)
<1>1. ASSUME NEW T \in Optional(S), NEW U PROVE T \cap U \in Optional(S)
  <2>1. CASE T = {}
    BY <2>1 DEF Optional
  <2>2. CASE T # {}
    <3>1. PICK x \in S : T = {x}
      BY <2>2 DEF Optional
    <3>2. T \cap U = {} \/ T \cap U = {x}
      BY <3>1
    <3> QED
      BY <3>2 DEF Optional
  <2> QED BY <2>1, <2>2
<1> QED
  BY <1>1 DEF Optional

(* A page that has just been loaded shows nothing and promises nothing.    *)
LEMMA DrillStarts == DrillInit => DrillInv
<1> SUFFICES ASSUME DrillInit PROVE DrillInv
  OBVIOUS
<1>1. /\ MaxFills \in Nat /\ MaxClicks \in Nat /\ MaxFails \in Nat
  BY DrillDownAssumption
<1>2. /\ fills \in [Orders -> 0 .. MaxFills]
      /\ clicks \in 0 .. MaxClicks /\ fails \in 0 .. MaxFails
  BY <1>1 DEF DrillInit
<1>3. DrillTypeOK
  BY <1>2, OptionalIsSubset DEF DrillInit, DrillTypeOK
<1>4. DOMAIN calls \subseteq Request
  BY Bagged DEF DrillInit
<1> QED
  BY <1>3, <1>4 DEF DrillInit, DrillInv, FiltersFollow, ChoiceIsKept, Effects

(* Every step of the panel keeps its invariant.                            *)
LEMMA DrillStays == DrillInv /\ [DrillNext]_drillVars => DrillInv'
<1> SUFFICES ASSUME DrillInv, [DrillNext]_drillVars PROVE DrillInv'
  OBVIOUS
<1>. /\ DrillTypeOK /\ DOMAIN calls \subseteq Request /\ FiltersFollow /\ ChoiceIsKept
  BY DEF DrillInv
<1>1. /\ MaxFills \in Nat /\ MaxClicks \in Nat /\ MaxFails \in Nat
  BY DrillDownAssumption
<1>2. ASSUME NEW o \in Orders, Place(o) PROVE DrillInv'
  BY <1>2 DEF Place, page, bounds, DrillInv, DrillTypeOK, FiltersFollow, ChoiceIsKept
<1>3. ASSUME NEW o \in Orders, Fill(o) PROVE DrillInv'
  <2>1. fills' \in [Orders -> 0 .. MaxFills]
    <3>1. fills[o] \in 0 .. MaxFills /\ fills[o] < MaxFills
      BY <1>3 DEF Fill, DrillTypeOK
    <3>2. fills[o] + 1 \in 0 .. MaxFills
      BY <1>1, <3>1
    <3> QED
      BY <1>3, <3>2 DEF Fill, DrillTypeOK
  <2> QED
    BY <1>3, <2>1 DEF Fill, page, bounds, DrillInv, DrillTypeOK, FiltersFollow,
                      ChoiceIsKept
<1>4. CASE OnSelected
  <2>1. DOMAIN Ask("orders", selected) \subseteq Request
    BY AskedIsRequest, OptionalIsSubset DEF DrillTypeOK
  <2>2. DOMAIN calls' \subseteq Request
    <3>1. calls' = calls (+) Ask("orders", selected)
      BY <1>4 DEF OnSelected
    <3>2. DOMAIN (calls (+) Ask("orders", selected))
            = DOMAIN calls \cup DOMAIN Ask("orders", selected)
      BY Sent
    <3> QED
      BY <2>1, <3>1, <3>2
  <2>3. /\ selectedOrder' \in Optional(Orders)
        /\ periodShown' \in Optional({PeriodOf[o] : o \in Orders})
        /\ ordersPane' \subseteq Orders /\ effects' \subseteq Effects
    BY <1>4, OptionalIsSubset DEF OnSelected, DrillTypeOK, Effects
  <2>4. DrillTypeOK'
    BY <1>4, <2>3 DEF OnSelected, DrillTypeOK, server, bounds
  <2> QED
    BY <1>4, <2>2, <2>4 DEF OnSelected, DrillInv, FiltersFollow, ChoiceIsKept, bounds
<1>5. CASE OnSelectedOrder
  <2>1. DOMAIN Ask("trades", Looked) \subseteq Request
    BY AskedIsRequest, OptionalIsSubset DEF DrillTypeOK, Looked
  <2>2. DOMAIN calls' \subseteq Request
    <3>1. calls' = calls (+) Ask("trades", Looked)
      BY <1>5 DEF OnSelectedOrder
    <3>2. DOMAIN (calls (+) Ask("trades", Looked))
            = DOMAIN calls \cup DOMAIN Ask("trades", Looked)
      BY Sent
    <3> QED
      BY <2>1, <3>1, <3>2
  <2>3. DrillTypeOK'
    BY <1>5 DEF OnSelectedOrder, DrillTypeOK, server, bounds
  <2> QED
    BY <1>5, <2>2, <2>3 DEF OnSelectedOrder, DrillInv, FiltersFollow, ChoiceIsKept, bounds
<1>6. CASE OnOrders
  <2>1. /\ selectedOrder' \in Optional(Orders)
        /\ periodShown' \in Optional({PeriodOf[o] : o \in Orders})
        /\ effects' \subseteq Effects
    BY <1>6, OptionalIsSubset DEF OnOrders, DrillTypeOK, Effects, KeepPeriod, KeepOrder
  <2>2. DrillTypeOK'
    BY <1>6, <2>1 DEF OnOrders, DrillTypeOK, server, bounds
  <2> QED
    BY <1>6, <2>2 DEF OnOrders, DrillInv, FiltersFollow, ChoiceIsKept, bounds,
                      KeepPeriod, KeepOrder
<1>7. ASSUME Click PROVE clicks' \in 0 .. MaxClicks
  BY <1>1, <1>7 DEF Click, DrillTypeOK
<1>8. ASSUME NEW p \in Pools, ClickPool(p) PROVE DrillInv'
  <2>1. /\ selected' \in Optional(Pools) /\ choice' \in Optional(Pools)
        /\ effects' \subseteq Effects /\ clicks' \in 0 .. MaxClicks
    BY <1>7, <1>8, OptionalIsSubset DEF ClickPool, DrillTypeOK, Effects
  <2>2. DrillTypeOK'
    BY <1>8, <2>1 DEF ClickPool, Click, DrillTypeOK, server
  <2> QED
    BY <1>8, <2>2 DEF ClickPool, Click, DrillInv, FiltersFollow, ChoiceIsKept, server
<1>9. ASSUME NEW o \in Orders, ClickOrder(o) PROVE DrillInv'
  <2>1. /\ selectedOrder' \in Optional(Orders)
        /\ effects' \subseteq Effects /\ clicks' \in 0 .. MaxClicks
    BY <1>7, <1>9, OptionalIsSubset DEF ClickOrder, DrillTypeOK, Effects
  <2>2. DrillTypeOK'
    BY <1>9, <2>1 DEF ClickOrder, Click, DrillTypeOK, server
  <2> QED
    BY <1>9, <2>2 DEF ClickOrder, Click, DrillInv, FiltersFollow, ChoiceIsKept, server,
                      VisibleOrders
<1>10. ASSUME NEW ps, ps \subseteq {PeriodOf[o] : o \in ordersPane},
              ps \in Optional({PeriodOf[o] : o \in Orders}), ChoosePeriod(ps)
       PROVE  DrillInv'
  <2>1. DrillTypeOK'
    BY <1>7, <1>10 DEF ChoosePeriod, Click, DrillTypeOK, server
  <2> QED
    BY <1>10, <2>1 DEF ChoosePeriod, Click, DrillInv, FiltersFollow, ChoiceIsKept, server
<1>11. ASSUME NEW o \in ordersPane, ChoosePeriod({PeriodOf[o]}) PROVE DrillInv'
  <2>1. {PeriodOf[o]} \subseteq {PeriodOf[x] : x \in ordersPane} /\ o \in Orders
    BY DEF DrillTypeOK
  <2>2. {PeriodOf[o]} \in Optional({PeriodOf[x] : x \in Orders})
    BY <2>1, OptionalIsSubset
  <2> QED
    BY <1>10, <1>11, <2>1, <2>2
<1>12. CASE ChoosePeriod({})
  BY <1>10, <1>12, OptionalIsSubset
<1>13. ASSUME NEW c \in DOMAIN calls, Serve(c) PROVE DrillInv'
  <2>1. c \in Request
    OBVIOUS
  <2>2. OrdersOf(c.of) \subseteq Orders
    BY DEF OrdersOf, DrillTypeOK
  <2>3. c.of \in Orders => TradesOf(c.of) \subseteq Orders \X (1 .. MaxFills)
    <3>1. ASSUME c.of \in Orders PROVE 1 .. fills[c.of] \subseteq 1 .. MaxFills
      <4>1. fills[c.of] \in 0 .. MaxFills
        BY <3>1 DEF DrillTypeOK
      <4> QED BY <1>1, <4>1
    <3> QED
      BY <3>1 DEF TradesOf
  <2>4. [c EXCEPT !.served = TRUE, !.answer = Answer(c)] \in Request
    <3>1. CASE c \in [kind: {"orders"}, of: Pools, served: BOOLEAN, answer: SUBSET Orders]
      BY <2>2, <3>1 DEF Answer, Request
    <3>2. CASE c \in [kind: {"trades"}, of: Orders, served: BOOLEAN,
                      answer: SUBSET (Orders \X (1 .. MaxFills))]
      BY <2>3, <3>2 DEF Answer, Request
    <3> QED
      BY <2>1, <3>1, <3>2 DEF Request
  <2>5. DOMAIN calls' \subseteq Request
    <3> DEFINE left == calls (-) SetToBag({c})
               done == [c EXCEPT !.served = TRUE, !.answer = Answer(c)]
    <3>1. calls' = left (+) SetToBag({done})
      BY <1>13 DEF Serve
    <3>2. DOMAIN left \subseteq DOMAIN calls
      BY AnsweredOff
    <3>3. DOMAIN (left (+) SetToBag({done})) = DOMAIN left \cup DOMAIN SetToBag({done})
      BY Sent
    <3>4. DOMAIN SetToBag({done}) = {done}
      BY Bagged
    <3> HIDE DEF left, done
    <3> QED
      BY <2>4, <3>1, <3>2, <3>3, <3>4 DEF done
  <2> QED
    BY <1>13, <2>5 DEF Serve, DrillInv, DrillTypeOK, FiltersFollow, ChoiceIsKept, server,
                       bounds
<1>14. ASSUME NEW c \in DOMAIN calls, Deliver(c) PROVE DrillInv'
  <2>1. c \in Request
    OBVIOUS
  <2>2. DOMAIN calls' \subseteq Request
    BY <1>14, AnsweredOff DEF Deliver
  <2>3. /\ c.kind = "orders" => c.answer \subseteq Orders
        /\ c.kind # "orders" => c.answer \subseteq Orders \X (1 .. MaxFills)
    BY <2>1 DEF Request
  <2>4. DrillTypeOK'
    BY <1>14, <2>3 DEF Deliver, DrillTypeOK, server, bounds, Effects
  <2> QED
    BY <1>14, <2>2, <2>4 DEF Deliver, DrillInv, FiltersFollow, ChoiceIsKept, bounds
<1>15. ASSUME NEW c \in DOMAIN calls, Fail(c) PROVE DrillInv'
  <2>1. DOMAIN calls' \subseteq Request
    BY <1>15, AnsweredOff DEF Fail
  <2>2. fails' \in 0 .. MaxFails
    BY <1>1, <1>15 DEF Fail, DrillTypeOK
  <2>3. DrillTypeOK'
    BY <1>15, <2>2 DEF Fail, DrillTypeOK, server
  <2> QED
    BY <1>15, <2>1, <2>3 DEF Fail, DrillInv, FiltersFollow, ChoiceIsKept
<1>16. CASE AskPools
  <2>1. DrillTypeOK'
    BY <1>16, OptionalIsSubset DEF AskPools, DrillTypeOK, unasked, server
  <2> QED
    BY <1>16, <2>1 DEF AskPools, DrillInv, FiltersFollow, ChoiceIsKept, unasked
<1>17. CASE ServePools
  <2>1. /\ poolPoll'.at \in {"asleep", "asked", "answered"}
        /\ poolPoll'.best \in Optional(Pools)
    BY <1>17, OptionalIsSubset DEF ServePools, Busiest
  <2>2. DrillTypeOK'
    BY <1>17, <2>1 DEF ServePools, DrillTypeOK, unasked, server
  <2> QED
    BY <1>17, <2>2 DEF ServePools, DrillInv, FiltersFollow, ChoiceIsKept, unasked
<1>18. ASSUME NEW best \in Optional(Pools), PoolsPolled(best), loaded' \in BOOLEAN,
              fails' \in 0 .. MaxFails
       PROVE  DrillInv'
  <2> DEFINE sel == AutoSelect(best)
  <2>1. sel \in Optional(Pools)
    BY DEF AutoSelect, DrillTypeOK
  <2>2. DOMAIN Refresh(sel) \subseteq Request
    <3>1. DOMAIN Ask("orders", sel) \subseteq Request
      BY <2>1, AskedIsRequest, OptionalIsSubset
    <3>2. DOMAIN Ask("trades", selectedOrder) \subseteq Request
      BY AskedIsRequest, OptionalIsSubset DEF DrillTypeOK
    <3> QED
      <4> DEFINE asked == Ask("orders", sel)
                 also == IF sel = {} THEN EmptyBag ELSE Ask("trades", selectedOrder)
      <4>1. Refresh(sel) = asked (+) also
        BY DEF Refresh
      <4>2. DOMAIN (asked (+) also) = DOMAIN asked \cup DOMAIN also
        BY Sent
      <4>3. DOMAIN also \subseteq Request
        BY <3>2, Bagged
      <4> QED
        BY <3>1, <4>1, <4>2, <4>3
  <2>3. DOMAIN calls' \subseteq Request
    <3>1. calls' = calls (+) Refresh(sel)
      BY <1>18 DEF PoolsPolled
    <3>2. DOMAIN (calls (+) Refresh(sel)) = DOMAIN calls \cup DOMAIN Refresh(sel)
      BY Sent
    <3> QED
      BY <2>2, <3>1, <3>2
  <2>4. choice \subseteq sel
    BY DEF ChoiceIsKept, AutoSelect
  <2>5. /\ selected' = sel /\ choice' = choice
        /\ poolPoll' = [at |-> "asleep", best |-> {}]
        /\ ordersPane' = IF sel = {} THEN {} ELSE ordersPane
        /\ tradesPane' = IF sel = {} \/ selectedOrder = {} THEN {} ELSE tradesPane
        /\ effects' = effects \union (IF sel # selected THEN {"selected"} ELSE {})
                              \union (IF sel = {} THEN {"orders"} ELSE {})
        /\ UNCHANGED <<placed, fills, selectedOrder, periodShown, clicks>>
    BY <1>18 DEF PoolsPolled, server
  <2> HIDE DEF sel
  <2>6. DrillTypeOK'
    BY <1>18, <2>1, <2>5, OptionalIsSubset DEF DrillTypeOK, Effects
  <2> QED
    BY <2>3, <2>4, <2>5, <2>6 DEF DrillInv, FiltersFollow, ChoiceIsKept
<1>19. CASE TakePools
  BY <1>18, <1>19 DEF TakePools, DrillTypeOK
<1>20. CASE LosePools
  BY <1>1, <1>18, <1>20, OptionalIsSubset DEF LosePools, DrillTypeOK
<1>21. CASE UNCHANGED drillVars
  BY <1>21 DEF drillVars, DrillInv, DrillTypeOK, FiltersFollow, ChoiceIsKept
<1> QED
  BY <1>2, <1>3, <1>4, <1>5, <1>6, <1>8, <1>9, <1>11, <1>12, <1>13, <1>14, <1>15, <1>16,
     <1>17, <1>19, <1>20, <1>21 DEF DrillNext

(* The inductive invariant of the gridpool panel.                          *)
THEOREM DrillInvariant == DrillSpec => []DrillInv
BY DrillStarts, DrillStays, PTL DEF DrillSpec

(* However answers and clicks cross: between events, what the operator     *)
(* looks at is shown, and the automatic selection never takes the place of *)
(* the operator's (web/src/panels/gridpools.rs).                           *)
THEOREM DrillStaysConsistent == DrillSpec => []DrillDownConsistent
<1>1. DrillInv => DrillDownConsistent
  BY DEF DrillInv, DrillDownConsistent, FiltersFollow, LooksAtWhatIsShown, Quiet
<1> QED
  BY <1>1, DrillInvariant, PTL

-----------------------------------------------------------------------------
(* The tape, the chart's history and the bars, and the filters on them.    *)

Printed ==
  [buy: {p.buy : p \in Prints}, sell: {p.sell : p \in Prints}, period: Period, exec: Nat]
StoredItems ==
  [areas: Option(SUBSET (AllAreas \cup {Unknown})), neighbours: Option(BOOLEAN),
   period: Option(Period), chart: Option(Period \cup {AllDeliveries}),
   window: Option(Windows)]

(* What the page received is a stretch of what was printed.                *)
FeedKept ==
  /\ prints \in Seq(Printed) /\ Len(prints) <= MaxPrints
  /\ first \in 1 .. MaxPrints + 1 /\ received \in 0 .. Len(prints) /\ first <= received + 1
  /\ open \in BOOLEAN /\ now \in 0 .. MaxTime

(* Trimming the history looks at the clock only when a print comes, and    *)
(* what is fresh today was fresh before: nothing fresh has left.           *)
ChartKept ==
  /\ chart \in Seq(Got) /\ \A i \in ToSet(chart) : TouchesHome(i)
  /\ \A i \in Got : TouchesHome(i) /\ Fresh(i) => i \in ToSet(chart)

TapeKept ==
  tape = [k \in 1 .. (IF received + 1 - first < BufferCap THEN received + 1 - first
                                                         ELSE BufferCap)
            |-> received + 1 - k]

(* The prints an area bought so many rotations ago.                        *)
Bought(a, k) == {i \in Got : prints[i].buy = a /\ age[i + 1 - first] = k}
BarsKept ==
  /\ age \in Seq(0 .. Buckets) /\ Len(age) = received + 1 - first
  /\ spark \in [Home -> [1 .. Buckets -> Nat]]
  /\ \A a \in Home : \A k \in 0 .. Buckets - 1 :
       spark[a][Buckets - k] = Cardinality(Bought(a, k))

FilterTypes ==
  /\ stored \in StoredItems /\ activeAreas \subseteq AllAreas /\ showNeighbours \in BOOLEAN
  /\ periodFilter \in Option(Period) /\ focused \in Option(Period)
  /\ chartPeriod \in Option(Period \cup {AllDeliveries}) /\ window \in Windows
  /\ changed \in BOOLEAN /\ picks \in 0 .. MaxPicks
FiltersKept ==
  FilterTypes /\ ActiveAreasHaveChips /\ FilterIsOffered /\ StorageMirrorsPage

TapeInv == FeedKept /\ TapeKept /\ ChartKept /\ BarsKept /\ FiltersKept

(* The constants, one by one.                                              *)
LEMMA TapeConstants ==
  /\ RingSize \in Nat \ {0} /\ BufferCap \in Nat \ {0} /\ BufferSpan \in Nat \ {0}
  /\ Buckets \in Nat \ {0} /\ MaxPrints \in Nat /\ MaxTime \in Nat /\ MaxPicks \in Nat
  /\ Period \subseteq Nat \ {0} /\ Windows \subseteq Nat /\ DefaultWindow \in Windows
<1>1. DefaultWindow \in Windows
  BY TapeAssumption DEF DefaultWindow
<1> QED
  BY <1>1, TapeAssumption DEF Period

(* Where the trimming stops: at the first print that is still fresh.       *)
LEMMA FirstFresh ==
  ASSUME NEW longer \in Seq(Nat)
  PROVE  LET kept == SelectInSeq(longer, Fresh) IN
         \/ kept = 0 /\ \A j \in 1 .. Len(longer) : ~Fresh(longer[j])
         \/ /\ kept \in 1 .. Len(longer)
            /\ \A j \in 1 .. Len(longer) : Fresh(longer[j]) => kept <= j
<1> DEFINE D == {i \in 1 .. Len(longer) : Fresh(longer[i])}
           kept == SelectInSeq(longer, Fresh)
<1>1. kept = IF D # {} THEN Min(D) ELSE 0
  BY DEF SelectInSeq
<1>2. CASE D = {}
  BY <1>1, <1>2
<1>3. CASE D # {}
  <2>1. D \in SUBSET Nat /\ IsFiniteSet(D)
    <3>1. IsFiniteSet(1 .. Len(longer))
      BY FS_Interval
    <3> QED
      BY <3>1, FS_Subset
  <2>2. \E i \in D : \A j \in D : i <= j
    <3> HIDE DEF D
    <3> QED BY <1>3, <2>1, HasLeast
  <2>3. Min(D) \in D /\ \A j \in D : Min(D) <= j
    BY <2>2 DEF Min
  <2> QED
    BY <1>1, <1>3, <2>3
<1> QED
  BY <1>2, <1>3

(* What is in a sequence, by its places.                                   *)
LEMMA Members ==
  ASSUME NEW S, NEW s \in Seq(S)
  PROVE  /\ ToSet(s) \subseteq S
         /\ \A x : x \in ToSet(s) <=> \E j \in 1 .. Len(s) : s[j] = x
BY DEF ToSet

(* A sequence over a set is one over a larger set.                         *)
LEMMA WiderSeq ==
  ASSUME NEW S, NEW T, S \subseteq T, NEW s \in Seq(S)
  PROVE  s \in Seq(T)
OBVIOUS

(* The tape holds prints that the page received, each once.                *)
LEMMA TapeHolds ==
  ASSUME FeedKept, TapeKept
  PROVE  ToSet(tape) \subseteq Got
<1>1. first \in Nat /\ received \in Nat /\ first <= received + 1 /\ BufferCap \in Nat
  BY TapeConstants DEF FeedKept
<1> SUFFICES ASSUME NEW k \in DOMAIN tape PROVE tape[k] \in Got
  BY DEF ToSet
<1>2. /\ k \in Nat /\ 1 <= k /\ k <= received + 1 - first /\ tape[k] = received + 1 - k
  BY <1>1 DEF TapeKept
<1> QED
  BY <1>1, <1>2 DEF Got

(* A print has its contract and its time.                                  *)
LEMMA PrintFields ==
  ASSUME FeedKept, NEW i \in 1 .. Len(prints)
  PROVE  prints[i].period \in Period /\ prints[i].exec \in Nat
<1>1. prints[i] \in Printed
  BY DEF FeedKept
<1> QED
  BY <1>1 DEF Printed

(* A print that comes takes nothing fresh from the history.                *)
LEMMA ReceiveKeepsChart ==
  ASSUME FeedKept, ChartKept, Receive
  PROVE  ChartKept'
<1> DEFINE n == received + 1
           longer == Append(chart, n)
           kept == SelectInSeq(longer, Fresh)
<1>1. /\ received' = n /\ chart' = Recorded(n)
      /\ UNCHANGED <<now, prints, first>>
      /\ first \in Nat /\ received \in Nat /\ first <= n /\ n \in Nat
  BY DEF Receive, FeedKept
<1>2. /\ Got' = first .. n /\ Got' \subseteq Nat /\ Got \subseteq Got'
      /\ n \in Got' /\ \A i \in Got' : i \in Got \/ i = n
  BY <1>1 DEF Got
<1>3. \A i : TouchesHome(i)' = TouchesHome(i) /\ Fresh(i)' = Fresh(i)
  BY <1>1 DEF TouchesHome, Fresh
<1>4. chart \in Seq(Got') /\ chart \in Seq(Got)
  BY <1>2, WiderSeq DEF ChartKept
<1>5. SUFFICES /\ chart' \in Seq(Got') /\ \A i \in ToSet(chart') : TouchesHome(i)
               /\ \A i \in Got' : TouchesHome(i) /\ Fresh(i) => i \in ToSet(chart')
  BY <1>3 DEF ChartKept
<1>6. CASE ~TouchesHome(n)
  BY <1>1, <1>2, <1>4, <1>6 DEF ChartKept, Recorded
<1>7. CASE TouchesHome(n)
  <2>1. /\ longer \in Seq(Got') /\ Len(longer) = Len(chart) + 1 /\ longer \in Seq(Nat)
        /\ \A j \in 1 .. Len(chart) : longer[j] = chart[j]
        /\ longer[Len(chart) + 1] = n /\ Len(chart) \in Nat
    <3>1. longer \in Seq(Got') /\ Len(longer) = Len(chart) + 1
          /\ (\A j \in 1 .. Len(chart) : longer[j] = chart[j])
          /\ longer[Len(chart) + 1] = n
      BY <1>2, <1>4, AppendProperties
    <3> HIDE DEF longer
    <3>2. longer \in Seq(Nat)
      BY <1>2, <3>1, WiderSeq
    <3> QED
      BY <1>4, <3>1, <3>2
  <2>2. chart' = IF kept = 0 THEN << >> ELSE SubSeq(longer, kept, Len(longer))
    BY <1>1, <1>7 DEF Recorded
  <2>3. \/ kept = 0 /\ \A j \in 1 .. Len(longer) : ~Fresh(longer[j])
        \/ /\ kept \in 1 .. Len(longer)
           /\ \A j \in 1 .. Len(longer) : Fresh(longer[j]) => kept <= j
    BY <2>1, FirstFresh
  <2> HIDE DEF kept, longer
  <2>4. \A i \in Got' : TouchesHome(i) /\ Fresh(i) =>
          \E j \in 1 .. Len(longer) : longer[j] = i
    <3> SUFFICES ASSUME NEW i \in Got', TouchesHome(i), Fresh(i)
                 PROVE  \E j \in 1 .. Len(longer) : longer[j] = i
      OBVIOUS
    <3>1. CASE i = n
      BY <2>1, <3>1
    <3>2. CASE i \in Got
      <4>1. PICK j \in 1 .. Len(chart) : chart[j] = i
        BY <1>4, <3>2, Members DEF ChartKept
      <4> QED
        BY <2>1, <4>1
    <3> QED
      BY <1>2, <3>1, <3>2
  <2>5. \A j \in 1 .. Len(longer) : TouchesHome(longer[j])
    <3> SUFFICES ASSUME NEW j \in 1 .. Len(longer) PROVE TouchesHome(longer[j])
      OBVIOUS
    <3>1. CASE j = Len(chart) + 1
      BY <1>7, <2>1, <3>1
    <3>2. CASE j \in 1 .. Len(chart)
      BY <1>4, <2>1, <3>2, Members DEF ChartKept
    <3> QED
      BY <2>1, <3>1, <3>2
  <2>6. CASE kept = 0
    <3>1. chart' = << >> /\ \A i \in Got' : TouchesHome(i) => ~Fresh(i)
      BY <2>1, <2>2, <2>3, <2>4, <2>6
    <3> QED
      BY <3>1 DEF ToSet
  <2>7. CASE kept # 0
    <3> DEFINE rest == SubSeq(longer, kept, Len(longer))
    <3>1. /\ kept \in 1 .. Len(longer) /\ kept \in Int /\ Len(longer) \in Int
          /\ \A j \in kept .. Len(longer) : longer[j] \in Got'
      BY <2>1, <2>3, <2>7
    <3>2. /\ rest \in Seq(Got') /\ Len(rest) = Len(longer) - kept + 1
          /\ \A j \in 1 .. Len(longer) - kept + 1 : rest[j] = longer[kept + j - 1]
      BY <3>1, SubSeqProperties
    <3>3. chart' = rest
      BY <2>2, <2>7
    <3> HIDE DEF rest
    <3>4. \A i \in ToSet(rest) : TouchesHome(i)
      <4> SUFFICES ASSUME NEW i \in ToSet(rest) PROVE TouchesHome(i)
        OBVIOUS
      <4>1. PICK j \in 1 .. Len(rest) : rest[j] = i
        BY <3>2, Members
      <4>2. kept + j - 1 \in 1 .. Len(longer) /\ i = longer[kept + j - 1]
        BY <3>1, <3>2, <4>1
      <4> QED
        BY <2>5, <4>2
    <3>5. ASSUME NEW i \in Got', TouchesHome(i), Fresh(i) PROVE i \in ToSet(rest)
      <4>1. PICK j \in 1 .. Len(longer) : longer[j] = i
        BY <2>4, <3>5
      <4>2. kept <= j
        BY <2>3, <2>7, <3>5, <4>1
      <4>3. j + 1 - kept \in 1 .. Len(rest) /\ rest[j + 1 - kept] = i
        BY <3>1, <3>2, <4>1, <4>2
      <4> QED
        BY <3>2, <4>3, Members
    <3> QED
      BY <3>2, <3>3, <3>4, <3>5
  <2> QED BY <2>6, <2>7
<1> QED BY <1>6, <1>7

(* The newest prints, one more and as many as there is room for.           *)
LEMMA ReceiveKeepsTape ==
  ASSUME FeedKept, TapeKept, Receive
  PROVE  TapeKept'
<1> DEFINE n == received + 1
           m == received + 1 - first
           longer == <<n>> \o tape
           room(x) == IF x < BufferCap THEN x ELSE BufferCap
<1>1. /\ received' = n /\ tape' = Taken(n) /\ first' = first
      /\ first \in Nat /\ received \in Nat /\ first <= n /\ n \in Nat /\ m \in Nat
      /\ BufferCap \in Nat \ {0}
  BY TapeConstants DEF Receive, FeedKept
<1>2. /\ tape \in Seq(Int) /\ Len(tape) = room(m)
      /\ \A k \in 1 .. room(m) : tape[k] = n - k
  BY <1>1 DEF TapeKept
<1>3. room(m) \in Nat /\ room(m + 1) \in Nat
  BY <1>1
<1> HIDE DEF room
<1>4. /\ longer \in Seq(Int) /\ Len(longer) = room(m) + 1 /\ longer[1] = n
      /\ \A k \in 2 .. room(m) + 1 : longer[k] = tape[k - 1]
  <2> DEFINE S == Int
             l == <<n>>
             c == l \o tape
  <2>1. l \in Seq(S) /\ Len(l) = 1 /\ l[1] = n /\ tape \in Seq(S)
    BY <1>1, <1>2
  <2> SUFFICES /\ c \in Seq(Int) /\ Len(c) = room(m) + 1 /\ c[1] = n
               /\ \A k \in 2 .. room(m) + 1 : c[k] = tape[k - 1]
    OBVIOUS
  <2> HIDE DEF l, S
  <2>2. /\ c \in Seq(S) /\ Len(c) = Len(l) + Len(tape)
        /\ \A i \in 1 .. Len(l) + Len(tape) :
             c[i] = IF i <= Len(l) THEN l[i] ELSE tape[i - Len(l)]
    BY <2>1, ConcatProperties
  <2> HIDE DEF c
  <2>3. /\ Len(c) = 1 + room(m)
        /\ \A i \in 1 .. 1 + room(m) : c[i] = IF i <= 1 THEN l[i] ELSE tape[i - 1]
    BY <1>2, <2>1, <2>2
  <2>4. \A k \in 2 .. room(m) + 1 : k \in 1 .. 1 + room(m) /\ ~(k <= 1)
    BY <1>3
  <2>5. c[1] = n
    BY <1>3, <2>1, <2>3
  <2>6. c \in Seq(Int)
    BY <2>2 DEF S
  <2> QED
    BY <1>3, <2>3, <2>4, <2>5, <2>6
<1>5. \A k \in 1 .. room(m) + 1 : longer[k] = n + 1 - k
  <2> SUFFICES ASSUME NEW k \in 1 .. room(m) + 1 PROVE longer[k] = n + 1 - k
    OBVIOUS
  <2>1. CASE k = 1
    BY <1>1, <1>4, <2>1
  <2>2. CASE k \in 2 .. room(m) + 1
    <3>1. k - 1 \in 1 .. room(m)
      BY <1>3, <2>2
    <3> QED
      BY <1>1, <1>2, <1>4, <2>2, <3>1
  <2>3. room(m) \in Nat /\ k \in 1 .. room(m) + 1
    BY <1>3
  <2>4. k = 1 \/ k \in 2 .. room(m) + 1
    BY <2>3
  <2> QED
    BY <2>1, <2>2, <2>4
<1>6. tape' = IF Len(longer) > BufferCap THEN SubSeq(longer, 1, BufferCap) ELSE longer
  BY <1>1 DEF Taken
<1> HIDE DEF longer
<1>7. /\ tape' \in Seq(Int) /\ Len(tape') = room(m + 1)
      /\ \A k \in 1 .. room(m + 1) : tape'[k] = n + 1 - k
  <2>1. CASE Len(longer) > BufferCap
    <3>1. room(m) = BufferCap /\ room(m + 1) = BufferCap
      BY <1>1, <1>4, <2>1 DEF room
    <3> DEFINE cut == SubSeq(longer, 1, BufferCap)
    <3>2. /\ cut \in Seq(Int) /\ Len(cut) = BufferCap
          /\ \A k \in 1 .. BufferCap : cut[k] = longer[k]
      <4>1. \A k \in 1 .. BufferCap : longer[k] \in Int
        BY <1>1, <1>4, <3>1
      <4>2. /\ cut \in Seq(Int) /\ Len(cut) = (IF 1 <= BufferCap THEN BufferCap - 1 + 1 ELSE 0)
            /\ \A k \in 1 .. BufferCap - 1 + 1 : cut[k] = longer[1 + k - 1]
        BY <1>1, <4>1, SubSeqProperties
      <4> HIDE DEF cut
      <4> QED
        BY <1>1, <4>2
    <3>3. tape' = cut
      BY <1>6, <2>1
    <3> HIDE DEF cut
    <3> QED
      BY <1>1, <1>5, <3>1, <3>2, <3>3, SMTT(20), ZenonT(20)
  <2>2. CASE ~(Len(longer) > BufferCap)
    <3>1. room(m) = m /\ room(m + 1) = m + 1
      BY <1>1, <1>4, <2>2 DEF room
    <3> QED
      BY <1>4, <1>5, <1>6, <2>2, <3>1
  <2> QED BY <2>1, <2>2
<1>8. tape' = [k \in 1 .. room(m + 1) |-> n + 1 - k]
  BY <1>3, <1>7
<1> QED
  BY <1>1, <1>8 DEF TapeKept, room

(* The bars of a page that received nothing.                               *)
LEMMA NoBars ==
  ASSUME first' \in Nat, received' \in Nat, first' = received' + 1,
         age' = << >>, spark' = EmptyBars
  PROVE  BarsKept'
<1> DEFINE none(a, k) == {i \in (first .. received)' : prints'[i].buy = a /\ age'[i + 1 - first'] = k}
<1>1. first' \in Nat /\ received' \in Nat /\ first' = received' + 1 /\ Buckets \in Nat
  BY TapeConstants
<1>2. \A a, k : none(a, k) = {}
  BY <1>1
<1>3. \A a \in Home : \A k \in 0 .. Buckets - 1 : spark'[a][Buckets - k] = 0
  BY <1>1 DEF EmptyBars
<1>4. Cardinality({}) = 0
  BY FS_EmptySet
<1>5. \A a \in Home : \A k \in 0 .. Buckets - 1 : spark'[a][Buckets - k] = Cardinality(none(a, k))
  <2> HIDE DEF none
  <2> QED BY <1>2, <1>3, <1>4
<1>6. age' \in Seq(0 .. Buckets) /\ Len(age') = received' + 1 - first'
  <2>1. << >> \in Seq(0 .. Buckets) /\ Len(<< >>) = 0
    OBVIOUS
  <2>2. Len(age') = 0 /\ age' \in Seq(0 .. Buckets)
    BY <2>1
  <2>3. \A x, y \in Nat : x = y + 1 => y + 1 - x = 0
    OBVIOUS
  <2>4. received' + 1 - first' = 0
    BY <1>1, <2>3
  <2> QED
    BY <2>2, <2>4
<1>7. spark' \in [Home -> [1 .. Buckets -> Nat]]
  BY DEF EmptyBars
<1> QED
  BY <1>5, <1>6, <1>7 DEF BarsKept, Bought, Got

(* A print that comes is counted in the newest bar of the area that bought.*)
LEMMA ReceiveKeepsBars ==
  ASSUME FeedKept, BarsKept, Receive
  PROVE  BarsKept'
<1> DEFINE n == received + 1
           len == Len(age)
           b == prints[n].buy
           was(a, k) == Bought(a, k)
           is(a, k) == {i \in first .. n : prints[i].buy = a /\ age'[i + 1 - first] = k}
<1>1. /\ received' = n /\ age' = Append(age, 0) /\ spark' = Counted(n)
      /\ UNCHANGED <<prints, first>>
      /\ first \in Nat /\ received \in Nat /\ first <= n /\ n \in Nat
      /\ Buckets \in Nat \ {0} /\ len = n - first /\ len \in Nat
      /\ age \in Seq(0 .. Buckets)
  BY TapeConstants DEF Receive, FeedKept, BarsKept
<1>2. 0 \in 0 .. Buckets
  BY <1>1
<1>3. /\ age' \in Seq(0 .. Buckets) /\ Len(age') = len + 1 /\ age'[len + 1] = 0
      /\ \A j \in 1 .. len : age'[j] = age[j]
  BY <1>1, <1>2, AppendProperties
<1>4. n + 1 - first = len + 1 /\ \A i \in first .. received : i + 1 - first \in 1 .. len
  BY <1>1
<1>5. ASSUME NEW a \in Home, NEW k \in 0 .. Buckets - 1
      PROVE  IF k = 0 /\ a = b THEN is(a, k) = was(a, k) \cup {n} ELSE is(a, k) = was(a, k)
  <2>1. \A i \in first .. n : i \in first .. received \/ i = n
    BY <1>1
  <2>2. \A i \in first .. received : i \in first .. n /\ age'[i + 1 - first] = age[i + 1 - first]
    BY <1>1, <1>3, <1>4
  <2>3. n \in first .. n /\ age'[n + 1 - first] = 0
    BY <1>1, <1>3, <1>4
  <2>4. was(a, k) = {i \in first .. received : prints[i].buy = a /\ age[i + 1 - first] = k}
    BY DEF Bought, Got
  <2>5. CASE k = 0 /\ a = b
    BY <2>1, <2>2, <2>3, <2>4, <2>5
  <2>6. CASE ~(k = 0 /\ a = b)
    BY <2>1, <2>2, <2>3, <2>4, <2>6
  <2> QED BY <2>5, <2>6
<1>6. ASSUME NEW a \in Home, NEW k \in 0 .. Buckets - 1
      PROVE  /\ IsFiniteSet(was(a, k)) /\ n \notin was(a, k)
             /\ Cardinality(was(a, k) \cup {n}) = Cardinality(was(a, k)) + 1
  <2>1. IsFiniteSet(Got) /\ n \notin Got
    BY <1>1, FS_Interval DEF Got
  <2>2. was(a, k) \subseteq Got
    BY DEF Bought
  <2>3. IsFiniteSet(was(a, k)) /\ n \notin was(a, k)
    BY <2>1, <2>2, FS_Subset
  <2> QED
    BY <2>3, FS_AddElement
<1>7. spark \in [Home -> [1 .. Buckets -> Nat]]
  BY DEF BarsKept
<1>8. /\ spark' \in [Home -> [1 .. Buckets -> Nat]]
      /\ \A a \in Home : \A i \in 1 .. Buckets :
           spark'[a][i] = IF i = Buckets /\ a = b THEN spark[a][i] + 1 ELSE spark[a][i]
  <2>1. CASE b \in Home
    <3> DEFINE bars == [spark[b] EXCEPT ![Buckets] = @ + 1]
    <3>1. spark' = [spark EXCEPT ![b] = bars]
      BY <1>1, <2>1 DEF Counted
    <3>2. spark[b] \in [1 .. Buckets -> Nat] /\ Buckets \in 1 .. Buckets
      BY <1>1, <1>7, <2>1
    <3>3. /\ bars \in [1 .. Buckets -> Nat]
          /\ \A i \in 1 .. Buckets : bars[i] = IF i = Buckets THEN spark[b][i] + 1 ELSE spark[b][i]
      BY <3>2
    <3> HIDE DEF bars
    <3> QED
      BY <1>7, <2>1, <3>1, <3>3
  <2>2. CASE b \notin Home
    BY <1>1, <1>7, <2>2 DEF Counted
  <2> QED BY <2>1, <2>2
<1>9. ASSUME NEW a \in Home, NEW k \in 0 .. Buckets - 1
      PROVE  spark'[a][Buckets - k] = Cardinality(is(a, k))
  <2>1. spark[a][Buckets - k] = Cardinality(was(a, k))
    BY DEF BarsKept
  <2>2. Buckets - k \in 1 .. Buckets /\ (Buckets - k = Buckets <=> k = 0)
    BY <1>1
  <2> HIDE DEF is, was
  <2> QED
    BY <1>5, <1>6, <1>8, <2>1, <2>2
<1>10. \A a, k : Bought(a, k)' = is(a, k)
  BY <1>1 DEF Bought, Got
<1>11. Len(age') = received' + 1 - first'
  BY <1>1, <1>3
<1> HIDE DEF is
<1> QED
  BY <1>3, <1>8, <1>9, <1>10, <1>11 DEF BarsKept

(* A rotation shifts the bars and makes every print one rotation older.    *)
LEMMA RotateKeepsBars ==
  ASSUME FeedKept, BarsKept, Rotate
  PROVE  BarsKept'
<1> DEFINE old(i) == IF age[i] < Buckets THEN age[i] + 1 ELSE age[i]
           is(a, k) == {i \in first .. received : prints[i].buy = a /\ age'[i + 1 - first] = k}
<1>1. /\ UNCHANGED <<prints, first, received>>
      /\ age' = [i \in DOMAIN age |-> old(i)]
      /\ spark' = [a \in Home |-> Append(Tail(spark[a]), 0)]
      /\ first \in Nat /\ received \in Nat /\ Buckets \in Nat \ {0}
      /\ age \in Seq(0 .. Buckets) /\ Len(age) = received + 1 - first
      /\ spark \in [Home -> [1 .. Buckets -> Nat]]
  BY TapeConstants DEF Rotate, FeedKept, BarsKept
<1>2. /\ DOMAIN age = 1 .. Len(age) /\ Len(age) \in Nat
      /\ \A i \in 1 .. Len(age) : age[i] \in 0 .. Buckets
  BY <1>1
<1>3. \A i \in 1 .. Len(age) : old(i) \in 0 .. Buckets
  BY <1>1, <1>2
<1>4. /\ age' \in Seq(0 .. Buckets) /\ Len(age') = Len(age)
      /\ \A i \in 1 .. Len(age) : age'[i] = old(i)
  <2> HIDE DEF old
  <2>1. age' = [i \in 1 .. Len(age) |-> old(i)]
    BY <1>1, <1>2
  <2> QED
    BY <1>2, <1>3, <2>1
<1>5. ASSUME NEW a \in Home
      PROVE  /\ spark'[a] \in [1 .. Buckets -> Nat] /\ spark'[a][Buckets] = 0
             /\ \A i \in 1 .. Buckets - 1 : spark'[a][i] = spark[a][i + 1]
  <2> DEFINE bars == spark[a]
             rest == Tail(bars)
             new  == Append(rest, 0)
  <2>1. bars \in [1 .. Buckets -> Nat]
    BY <1>1
  <2>2. bars \in Seq(Nat) /\ Len(bars) = Buckets /\ bars # << >>
    BY <1>1, <2>1
  <2>3. spark'[a] = new
    BY <1>1
  <2> HIDE DEF bars
  <2>4. /\ rest \in Seq(Nat) /\ Len(rest) = Buckets - 1
        /\ \A i \in 1 .. Buckets - 1 : rest[i] = bars[i + 1]
    <3>1. rest \in Seq(Nat) /\ Len(rest) = Len(bars) - 1
          /\ \A i \in 1 .. Len(rest) : rest[i] = bars[i + 1]
      BY <2>2, HeadTailProperties
    <3> HIDE DEF rest
    <3> QED
      BY <2>2, <3>1
  <2> HIDE DEF rest
  <2>5. /\ new \in Seq(Nat) /\ Len(new) = Len(rest) + 1
        /\ (\A i \in 1 .. Len(rest) : new[i] = rest[i]) /\ new[Len(rest) + 1] = 0
    BY <2>4, AppendProperties
  <2> HIDE DEF new
  <2>6. Len(new) = Buckets /\ new[Buckets] = 0 /\ new \in [1 .. Buckets -> Nat]
    BY <1>1, <2>4, <2>5
  <2>7. \A i \in 1 .. Buckets - 1 : new[i] = bars[i + 1]
    BY <2>4, <2>5
  <2> QED
    BY <2>3, <2>6, <2>7 DEF bars
<1>6. spark' \in [Home -> [1 .. Buckets -> Nat]]
  <2>1. DOMAIN spark' = Home /\ spark' = [a \in Home |-> spark'[a]]
    BY <1>1
  <2> QED
    BY <1>5, <2>1
<1>7. \A i \in first .. received : i + 1 - first \in 1 .. Len(age)
  BY <1>1
<1>8. ASSUME NEW a \in Home, NEW k \in 0 .. Buckets - 1
      PROVE  spark'[a][Buckets - k] = Cardinality(is(a, k))
  <2>1. CASE k = 0
    <3>1. \A i \in 1 .. Len(age) : age'[i] # 0
      BY <1>1, <1>2, <1>4
    <3>2. is(a, k) = {}
      BY <1>7, <2>1, <3>1
    <3>3. Buckets - k = Buckets
      BY <1>1, <2>1
    <3> HIDE DEF is
    <3> QED
      BY <1>5, <3>2, <3>3, FS_EmptySet
  <2>2. CASE k # 0
    <3>1. k - 1 \in 0 .. Buckets - 1 /\ Buckets - k \in 1 .. Buckets - 1
          /\ Buckets - k + 1 = Buckets - (k - 1)
      BY <1>1, <2>2
    <3>2. \A i \in 1 .. Len(age) : age'[i] = k <=> age[i] = k - 1
      BY <1>1, <1>2, <1>4, <2>2
    <3>3. is(a, k) = Bought(a, k - 1)
      BY <1>7, <3>2 DEF Bought, Got
    <3>4. spark[a][Buckets - (k - 1)] = Cardinality(Bought(a, k - 1))
      BY <3>1 DEF BarsKept
    <3>5. spark'[a][Buckets - k] = spark[a][Buckets - k + 1]
      BY <1>5, <3>1
    <3> HIDE DEF is
    <3> QED
      BY <3>1, <3>3, <3>4, <3>5
  <2> QED BY <2>1, <2>2
<1>9. \A a, k : Bought(a, k)' = is(a, k)
  BY <1>1 DEF Bought, Got
<1>10. Len(age') = received' + 1 - first'
  BY <1>1, <1>4
<1> HIDE DEF is
<1> QED
  BY <1>4, <1>6, <1>8, <1>9, <1>10 DEF BarsKept

(* A trade that prints changes nothing that the page has received.         *)
LEMMA TradeKeeps ==
  ASSUME TapeInv, NEW p \in Prints, NEW late \in {0, 1}, Trade(p, late)
  PROVE  TapeInv'
<1> DEFINE new == [buy |-> p.buy, sell |-> p.sell, period |-> p.period, exec |-> now - late]
<1>1. /\ prints \in Seq(Printed) /\ Len(prints) < MaxPrints /\ prints' = Append(prints, new)
      /\ UNCHANGED <<now, first, received, open, tape, chart, spark, age, filters, changed,
                     picks>>
      /\ late <= now /\ now \in Nat /\ MaxPrints \in Nat
      /\ first \in Nat /\ received \in 0 .. Len(prints)
  BY TapeConstants DEF Trade, TapeInv, FeedKept
<1>2. new \in Printed
  BY <1>1 DEF Printed, Period
<1> HIDE DEF new
<1>3. /\ prints' \in Seq(Printed) /\ Len(prints') = Len(prints) + 1 /\ Len(prints) \in Nat
      /\ \A i \in 1 .. Len(prints) : prints'[i] = prints[i]
  BY <1>1, <1>2, AppendProperties
<1>4. FeedKept'
  <2>1. /\ Len(prints') <= MaxPrints /\ received' \in 0 .. Len(prints')
        /\ first' \in 1 .. MaxPrints + 1 /\ first' <= received' + 1
        /\ open' \in BOOLEAN /\ now' \in 0 .. MaxTime
    BY <1>1, <1>3 DEF TapeInv, FeedKept
  <2> QED
    BY <1>3, <2>1 DEF FeedKept
<1>5. TapeKept'
  BY <1>1 DEF TapeInv, TapeKept
<1>6. Got' = Got /\ \A i \in Got : prints'[i] = prints[i]
  <2>1. first \in 1 .. MaxPrints + 1
    BY DEF TapeInv, FeedKept
  <2> QED
    BY <1>1, <1>3, <2>1 DEF Got
<1>7. ChartKept'
  <2>1. chart \in Seq(Got) /\ ToSet(chart) \subseteq Got
    BY Members DEF TapeInv, ChartKept
  <2>2. \A i \in Got : TouchesHome(i)' = TouchesHome(i) /\ Fresh(i)' = Fresh(i)
    BY <1>1, <1>6 DEF TouchesHome, Fresh
  <2> QED
    BY <1>1, <1>6, <2>1, <2>2 DEF TapeInv, ChartKept
<1>8. BarsKept'
  <2>1. \A a, k : Bought(a, k)' = Bought(a, k)
    BY <1>1, <1>6 DEF Bought
  <2>2. /\ age' \in Seq(0 .. Buckets) /\ Len(age') = received' + 1 - first'
        /\ spark' \in [Home -> [1 .. Buckets -> Nat]]
        /\ \A a \in Home : \A k \in 0 .. Buckets - 1 :
             spark'[a][Buckets - k] = Cardinality(Bought(a, k))
    BY <1>1 DEF TapeInv, BarsKept
  <2> QED
    BY <2>1, <2>2 DEF BarsKept
<1>9. FiltersKept'
  <2>1. UNCHANGED <<activeAreas, showNeighbours, periodFilter, chartPeriod, focused, window,
                    stored, changed, picks>>
    BY <1>1 DEF filters
  <2>2. Offered' = Offered
    <3>1. ToSet(tape) \subseteq Got
      BY TapeHolds DEF TapeInv
    <3>2. ToSet(tape)' = ToSet(tape)
      BY <1>1
    <3> QED
      BY <1>6, <3>1, <3>2 DEF Offered
  <2>3. ActiveAreasHaveChips' /\ StorageMirrorsPage'
    BY <2>1 DEF TapeInv, FiltersKept, ActiveAreasHaveChips, VisibleChips, StorageMirrorsPage
  <2>4. FilterIsOffered'
    BY <2>1, <2>2 DEF TapeInv, FiltersKept, FilterIsOffered
  <2> QED
    BY <2>1, <2>3, <2>4 DEF TapeInv, FiltersKept, FilterTypes
<1> QED
  BY <1>4, <1>5, <1>7, <1>8, <1>9 DEF TapeInv

(* What a load takes from an item of the storage.                          *)
LEMMA Loads ==
  /\ \A x, v : OrElse({x}, v) = x /\ OrElse({}, v) = v
  /\ \A S : \A x \in S : {x} \in Option(S)
  /\ \A S : {} \in Option(S) /\ \A ps \in Option(S) : ps \subseteq S
<1>1. \A x, v : OrElse({x}, v) = x /\ OrElse({}, v) = v
  BY DEF OrElse
<1>2. \A S : \A x \in S : {x} \in Option(S)
  BY DEF Option
<1>3. \A S : {} \in Option(S) /\ \A ps \in Option(S) : ps \subseteq S
  BY DEF Option
<1> QED
  BY <1>1, <1>2, <1>3

(* The operator changes filters; what the page received stays.             *)
LEMMA PickKeeps ==
  ASSUME TapeInv, Pick, FilterTypes', ActiveAreasHaveChips', StorageMirrorsPage',
         periodFilter' \subseteq Offered
  PROVE  TapeInv'
<1>1. UNCHANGED <<now, prints, first, received, open, tape, chart, spark, age, changed>>
  BY DEF Pick, feed
<1>2. FeedKept' /\ TapeKept'
  BY <1>1 DEF TapeInv, FeedKept, TapeKept
<1>3. ChartKept'
  BY <1>1 DEF TapeInv, ChartKept, Got, TouchesHome, Fresh
<1>4. BarsKept'
  <2>1. \A a, k : Bought(a, k)' = Bought(a, k)
    BY <1>1 DEF Bought, Got
  <2> QED
    BY <1>1, <2>1 DEF TapeInv, BarsKept
<1>5. Offered' = Offered
  BY <1>1 DEF Offered
<1>6. FilterIsOffered'
  BY <1>5 DEF FilterIsOffered
<1> QED
  BY <1>2, <1>3, <1>4, <1>6 DEF TapeInv, FiltersKept

(* Chips that are changed are stored.                                      *)
LEMMA ChipsKeep ==
  ASSUME TapeInv, NEW active \in SUBSET AllAreas, NEW neighbours \in BOOLEAN,
         active \subseteq Home \cup (IF neighbours THEN Neighbour ELSE {}),
         Pick, Chips(active, neighbours)
  PROVE  TapeInv'
<1>1. /\ activeAreas' = active /\ showNeighbours' = neighbours
      /\ stored' = [stored EXCEPT !.areas = {active}, !.neighbours = {neighbours}]
      /\ UNCHANGED <<periodFilter, chartPeriod, focused, window, changed>>
      /\ picks' \in 0 .. MaxPicks /\ ~changed
  BY TapeConstants DEF Chips, Pick, TapeInv, FiltersKept, FilterTypes
<1>2. stored \in StoredItems
  BY DEF TapeInv, FiltersKept, FilterTypes
<1>3. {active} \in Option(SUBSET (AllAreas \cup {Unknown})) /\ {neighbours} \in Option(BOOLEAN)
  BY Loads
<1>4. /\ stored' \in StoredItems /\ stored'.areas = {active} /\ stored'.neighbours = {neighbours}
      /\ stored'.period = stored.period /\ stored'.chart = stored.chart
      /\ stored'.window = stored.window
  BY <1>1, <1>2, <1>3 DEF StoredItems
<1>5. FilterTypes'
  BY <1>1, <1>4 DEF TapeInv, FiltersKept, FilterTypes
<1>6. ActiveAreasHaveChips'
  BY <1>1 DEF ActiveAreasHaveChips, VisibleChips
<1>7. LoadAreas(stored') = active
  <2>1. OrElse({active}, Home) = active
    BY Loads
  <2> QED
    BY <1>4, <2>1 DEF LoadAreas
<1>8. LoadNeighbours(stored') = neighbours
  <2>1. CASE neighbours = TRUE
    BY <1>4, <2>1 DEF LoadNeighbours
  <2>2. CASE neighbours = FALSE
    BY <1>4, <2>2 DEF LoadNeighbours
  <2> QED BY <2>1, <2>2
<1>9. StorageMirrorsPage'
  BY <1>1, <1>4, <1>7, <1>8
  DEF TapeInv, FiltersKept, StorageMirrorsPage, LoadPeriod, LoadChart, LoadWindow
<1>10. periodFilter' \subseteq Offered
  BY <1>1 DEF TapeInv, FiltersKept, FilterIsOffered
<1> QED
  BY <1>5, <1>6, <1>9, <1>10, PickKeeps

(* So is every other filter but the focus, which no load brings back.      *)
LEMMA FilterPeriodKeeps ==
  ASSUME TapeInv, NEW ps \in Option(Period), FilterPeriod(ps)
  PROVE  TapeInv'
<1>1. /\ periodFilter' = ps /\ stored' = [stored EXCEPT !.period = ps] /\ ps \subseteq Offered
      /\ UNCHANGED <<activeAreas, showNeighbours, chartPeriod, focused, window, changed>>
      /\ picks' \in 0 .. MaxPicks
  BY TapeConstants DEF FilterPeriod, StorePeriod, Pick, TapeInv, FiltersKept, FilterTypes
<1>2. stored \in StoredItems
  BY DEF TapeInv, FiltersKept, FilterTypes
<1>3. /\ stored' \in StoredItems /\ stored'.areas = stored.areas
      /\ stored'.neighbours = stored.neighbours /\ stored'.period = ps
      /\ stored'.chart = stored.chart /\ stored'.window = stored.window
  BY <1>1, <1>2 DEF StoredItems
<1>4. FilterTypes'
  BY <1>1, <1>3 DEF TapeInv, FiltersKept, FilterTypes
<1>5. ActiveAreasHaveChips'
  BY <1>1 DEF TapeInv, FiltersKept, ActiveAreasHaveChips, VisibleChips
<1>6. StorageMirrorsPage'
  BY <1>1, <1>3 DEF TapeInv, FiltersKept, StorageMirrorsPage,
                    LoadAreas, LoadNeighbours, LoadPeriod, LoadChart, LoadWindow
<1> QED
  BY <1>1, <1>4, <1>5, <1>6, PickKeeps DEF FilterPeriod

(* The chart's own contract.                                               *)
LEMMA ChooseChartKeeps ==
  ASSUME TapeInv, NEW ps \in Option(Period \cup {AllDeliveries}), ChooseChart(ps)
  PROVE  TapeInv'
<1>1. /\ chartPeriod' = ps /\ stored' = [stored EXCEPT !.chart = ps]
      /\ UNCHANGED <<activeAreas, showNeighbours, periodFilter, focused, window, changed>>
      /\ picks' \in 0 .. MaxPicks /\ ~changed
  BY TapeConstants DEF ChooseChart, Pick, TapeInv, FiltersKept, FilterTypes
<1>2. stored \in StoredItems
  BY DEF TapeInv, FiltersKept, FilterTypes
<1>3. /\ stored' \in StoredItems /\ stored'.areas = stored.areas
      /\ stored'.neighbours = stored.neighbours /\ stored'.period = stored.period
      /\ stored'.chart = ps /\ stored'.window = stored.window
  BY <1>1, <1>2 DEF StoredItems
<1>4. FilterTypes'
  BY <1>1, <1>3 DEF TapeInv, FiltersKept, FilterTypes
<1>5. ActiveAreasHaveChips' /\ periodFilter' \subseteq Offered
  BY <1>1 DEF TapeInv, FiltersKept, ActiveAreasHaveChips, VisibleChips, FilterIsOffered
<1>6. StorageMirrorsPage'
  BY <1>1, <1>3 DEF TapeInv, FiltersKept, StorageMirrorsPage,
                    LoadAreas, LoadNeighbours, LoadPeriod, LoadChart, LoadWindow
<1> QED
  BY <1>4, <1>5, <1>6, PickKeeps DEF ChooseChart

(* The chart's window.                                                     *)
LEMMA ChooseWindowKeeps ==
  ASSUME TapeInv, NEW w \in Windows, ChooseWindow(w)
  PROVE  TapeInv'
<1>1. /\ window' = w /\ stored' = [stored EXCEPT !.window = {w}]
      /\ UNCHANGED <<activeAreas, showNeighbours, periodFilter, chartPeriod, focused, changed>>
      /\ picks' \in 0 .. MaxPicks /\ ~changed
  BY TapeConstants DEF ChooseWindow, Pick, TapeInv, FiltersKept, FilterTypes
<1>2. stored \in StoredItems /\ {w} \in Option(Windows)
  BY Loads DEF TapeInv, FiltersKept, FilterTypes
<1>3. /\ stored' \in StoredItems /\ stored'.areas = stored.areas
      /\ stored'.neighbours = stored.neighbours /\ stored'.period = stored.period
      /\ stored'.chart = stored.chart /\ stored'.window = {w}
  BY <1>1, <1>2 DEF StoredItems
<1>4. FilterTypes'
  BY <1>1, <1>3 DEF TapeInv, FiltersKept, FilterTypes
<1>5. ActiveAreasHaveChips' /\ periodFilter' \subseteq Offered
  BY <1>1 DEF TapeInv, FiltersKept, ActiveAreasHaveChips, VisibleChips, FilterIsOffered
<1>6. LoadWindow(stored') = w
  BY <1>3, Loads DEF LoadWindow
<1>7. StorageMirrorsPage'
  BY <1>1, <1>3, <1>6 DEF TapeInv, FiltersKept, StorageMirrorsPage,
                          LoadAreas, LoadNeighbours, LoadPeriod, LoadChart
<1> QED
  BY <1>4, <1>5, <1>7, PickKeeps DEF ChooseWindow

(* The contract that a row pins.                                           *)
LEMMA FocusKeeps ==
  ASSUME TapeInv, NEW ps \in Option(Period), Pick, Focus(ps)
  PROVE  TapeInv'
<1>1. /\ focused' = ps
      /\ UNCHANGED <<activeAreas, showNeighbours, periodFilter, chartPeriod, window, stored,
                     changed>>
      /\ picks' \in 0 .. MaxPicks /\ ~changed
  BY TapeConstants DEF Focus, Pick, TapeInv, FiltersKept, FilterTypes
<1>2. FilterTypes'
  BY <1>1 DEF TapeInv, FiltersKept, FilterTypes
<1>3. ActiveAreasHaveChips' /\ periodFilter' \subseteq Offered
  BY <1>1 DEF TapeInv, FiltersKept, ActiveAreasHaveChips, VisibleChips, FilterIsOffered
<1>4. StorageMirrorsPage'
  BY <1>1 DEF TapeInv, FiltersKept, StorageMirrorsPage
<1> QED
  BY <1>2, <1>3, <1>4, PickKeeps

(* The filter on a contract that the tape has no print of is dropped, and  *)
(* its item of the storage with it.                                        *)
LEMMA DropFilterKeeps ==
  ASSUME TapeInv, DropFilter
  PROVE  TapeInv'
<1> DEFINE kept == periodFilter \cap Offered
<1>1. /\ changed' = FALSE /\ periodFilter' = kept
      /\ stored' = IF kept = periodFilter THEN stored ELSE [stored EXCEPT !.period = {}]
      /\ UNCHANGED <<now, prints, first, received, open, tape, chart, spark, age,
                     activeAreas, showNeighbours, chartPeriod, focused, window, picks>>
  BY DEF DropFilter, feed
<1>2. stored \in StoredItems /\ periodFilter \in Option(Period) /\ {} \in Option(Period)
  BY Loads DEF TapeInv, FiltersKept, FilterTypes
<1>3. kept = periodFilter \/ kept = {}
  BY <1>2 DEF Option
<1>4. /\ stored' \in StoredItems /\ stored'.areas = stored.areas
      /\ stored'.neighbours = stored.neighbours /\ stored'.period = kept
      /\ stored'.chart = stored.chart /\ stored'.window = stored.window
  <2>1. stored.period = periodFilter
    BY DEF TapeInv, FiltersKept, StorageMirrorsPage, LoadPeriod
  <2>2. CASE kept = periodFilter
    BY <1>1, <1>2, <2>1, <2>2
  <2>3. CASE kept # periodFilter
    <3>1. kept = {} /\ stored' = [stored EXCEPT !.period = {}]
      BY <1>1, <1>3, <2>3
    <3> HIDE DEF kept
    <3> QED
      BY <1>2, <3>1 DEF StoredItems
  <2> QED BY <2>2, <2>3
<1>5. FeedKept' /\ TapeKept' /\ ChartKept' /\ BarsKept' /\ Offered' = Offered
  <2>1. FeedKept' /\ TapeKept'
    BY <1>1 DEF TapeInv, FeedKept, TapeKept
  <2>2. ChartKept'
    BY <1>1 DEF TapeInv, ChartKept, Got, TouchesHome, Fresh
  <2>3. BarsKept'
    <3>1. \A a, k : Bought(a, k)' = Bought(a, k)
      BY <1>1 DEF Bought, Got
    <3> QED
      BY <1>1, <3>1 DEF TapeInv, BarsKept
  <2>4. Offered' = Offered
    BY <1>1 DEF Offered
  <2> QED BY <2>1, <2>2, <2>3, <2>4
<1>6. FilterIsOffered'
  BY <1>1, <1>5 DEF FilterIsOffered
<1>7. ActiveAreasHaveChips'
  BY <1>1 DEF TapeInv, FiltersKept, ActiveAreasHaveChips, VisibleChips
<1> HIDE DEF kept
<1>8. StorageMirrorsPage'
  BY <1>1, <1>4 DEF TapeInv, FiltersKept, StorageMirrorsPage,
                    LoadAreas, LoadNeighbours, LoadPeriod, LoadChart, LoadWindow
<1>9. FilterTypes'
  <2>1. kept \in Option(Period)
    BY <1>2, <1>3
  <2> QED
    BY <1>1, <1>4, <2>1 DEF TapeInv, FiltersKept, FilterTypes
<1> QED
  BY <1>5, <1>6, <1>7, <1>8, <1>9 DEF TapeInv, FiltersKept

(* A page that is loaded has nothing yet, and shows the filters it had.    *)
LEMMA ReloadKeeps ==
  ASSUME TapeInv, Reload
  PROVE  TapeInv'
<1>1. /\ first' = (IF Len(prints) > RingSize THEN Len(prints) - RingSize + 1 ELSE 1)
      /\ received' = first' - 1 /\ tape' = << >> /\ chart' = << >> /\ spark' = EmptyBars
      /\ age' = << >> /\ changed' = TRUE /\ open' = TRUE /\ focused' = {}
      /\ UNCHANGED <<now, prints, stored, picks>>
  BY DEF Reload
<1>2. /\ RingSize \in Nat \ {0} /\ MaxPrints \in Nat /\ Len(prints) \in Nat
      /\ Len(prints) <= MaxPrints
  BY TapeConstants DEF TapeInv, FeedKept
<1>3. /\ first' \in 1 .. MaxPrints + 1 /\ received' \in 0 .. Len(prints)
      /\ first' \in Nat /\ received' \in Nat /\ first' = received' + 1
  BY <1>1, <1>2
<1>4. FeedKept'
  <2>1. first' <= received' + 1
    <3>1. \A x, y \in Nat : x = y + 1 => x <= y + 1
      OBVIOUS
    <3> QED
      BY <1>3, <3>1
  <2>2. prints' \in Seq(Printed) /\ Len(prints') <= MaxPrints /\ now' \in 0 .. MaxTime
    BY <1>1 DEF TapeInv, FeedKept
  <2>3. received' \in 0 .. Len(prints')
    BY <1>1, <1>3
  <2> QED
    BY <1>1, <1>3, <2>1, <2>2, <2>3 DEF FeedKept
<1>5. \A x, y \in Nat : x = y + 1 => y + 1 - x = 0 /\ x .. y = {}
  OBVIOUS
<1>6. received' + 1 - first' = 0 /\ Got' = {}
  BY <1>3, <1>5 DEF Got
<1>7. TapeKept'
  <2>1. BufferCap \in Nat \ {0}
    BY TapeConstants
  <2>2. << >> = [k \in 1 .. 0 |-> received' + 1 - k]
    OBVIOUS
  <2>3. (IF 0 < BufferCap THEN 0 ELSE BufferCap) = 0
    BY <2>1
  <2> QED
    BY <1>1, <1>6, <2>2, <2>3 DEF TapeKept
<1>8. ChartKept'
  BY <1>1, <1>6 DEF ChartKept, ToSet
<1>9. BarsKept'
  BY <1>1, <1>3, NoBars
<1>10. UNCHANGED <<activeAreas, showNeighbours, periodFilter, chartPeriod, window>>
  BY DEF Reload, TapeInv, FiltersKept, StorageMirrorsPage
<1>11. FilterTypes'
  BY <1>1, <1>10, Loads DEF TapeInv, FiltersKept, FilterTypes
<1>12. ActiveAreasHaveChips' /\ StorageMirrorsPage' /\ FilterIsOffered'
  BY <1>1, <1>10 DEF TapeInv, FiltersKept, ActiveAreasHaveChips, VisibleChips,
                     StorageMirrorsPage, FilterIsOffered
<1> QED
  BY <1>4, <1>7, <1>8, <1>9, <1>11, <1>12 DEF TapeInv, FiltersKept

(* A print that comes, taken by the tape, the history and the bars.        *)
LEMMA ReceiveKeeps ==
  ASSUME TapeInv, Receive
  PROVE  TapeInv'
<1>1. /\ received < Len(prints) /\ received' = received + 1 /\ changed' = TRUE
      /\ UNCHANGED <<now, prints, first, open, activeAreas, showNeighbours, periodFilter,
                     chartPeriod, focused, window, stored, picks>>
  BY DEF Receive, filters
<1>2. FeedKept'
  <2>1. /\ received \in 0 .. Len(prints) /\ Len(prints) \in Nat
        /\ first \in Nat /\ first <= received + 1
    BY TapeConstants DEF TapeInv, FeedKept
  <2>2. received' \in 0 .. Len(prints) /\ first' <= received' + 1
    BY <1>1, <2>1
  <2> QED
    BY <1>1, <2>2 DEF TapeInv, FeedKept
<1>3. TapeKept' /\ ChartKept' /\ BarsKept'
  BY ReceiveKeepsTape, ReceiveKeepsChart, ReceiveKeepsBars DEF TapeInv
<1>4. FiltersKept'
  BY <1>1 DEF TapeInv, FiltersKept, FilterTypes, ActiveAreasHaveChips, VisibleChips,
              StorageMirrorsPage, FilterIsOffered
<1> QED
  BY <1>2, <1>3, <1>4 DEF TapeInv

(* Time, the socket's end and a rotation leave filters and tape alone.     *)
LEMMA TickCloseRotateKeep ==
  ASSUME TapeInv, Tick \/ Close \/ Rotate
  PROVE  TapeInv'
<1>1. /\ UNCHANGED <<prints, first, received, tape, chart, filters, changed, picks>>
      /\ now' \in 0 .. MaxTime /\ open' \in BOOLEAN /\ now <= now' /\ now' \in Nat
      /\ now \in Nat
  <2>1. /\ now \in 0 .. MaxTime /\ open \in BOOLEAN /\ MaxTime \in Nat /\ now \in Nat
    BY TapeConstants DEF TapeInv, FeedKept
  <2>2. CASE Tick
    BY <2>1, <2>2 DEF Tick, feed
  <2>3. CASE Close
    <3>1. open' = FALSE
      BY <2>3 DEF Close
    <3>2. open' \in BOOLEAN
      BY <3>1
    <3>3. now' = now /\ now <= now
      BY <2>1, <2>3 DEF Close
    <3> QED
      BY <2>1, <2>3, <3>2, <3>3 DEF Close
  <2>4. CASE Rotate
    BY <2>1, <2>4 DEF Rotate
  <2> QED BY <2>2, <2>3, <2>4
<1>2. FeedKept' /\ TapeKept'
  BY <1>1 DEF TapeInv, FeedKept, TapeKept
<1>3. Got' = Got
  BY <1>1 DEF Got
<1>4. ChartKept'
  <2>1. \A i : TouchesHome(i)' = TouchesHome(i)
    BY <1>1 DEF TouchesHome
  <2>2. ASSUME NEW i \in Got, Fresh(i)' PROVE Fresh(i)
    <3>1. i \in 1 .. Len(prints)
      <4>1. first \in 1 .. MaxPrints + 1 /\ received \in 0 .. Len(prints) /\ MaxPrints \in Nat
        BY TapeConstants DEF TapeInv, FeedKept
      <4> QED
        BY <4>1 DEF Got
    <3>2. prints[i].exec \in Nat
      BY <3>1, PrintFields DEF TapeInv
    <3>3. BufferSpan \in Nat
      BY TapeConstants
    <3>4. prints[i].exec + BufferSpan >= now'
      BY <1>1, <2>2 DEF Fresh
    <3> QED
      BY <1>1, <3>2, <3>3, <3>4 DEF Fresh
  <2> QED
    BY <1>1, <1>3, <2>1, <2>2 DEF TapeInv, ChartKept
<1>5. BarsKept'
  <2>1. CASE Tick \/ Close
    <3>1. UNCHANGED <<age, spark>>
      BY <2>1 DEF Tick, Close, feed
    <3>2. \A a, k : Bought(a, k)' = Bought(a, k)
      BY <1>1, <3>1 DEF Bought, Got
    <3> QED
      BY <1>1, <3>1, <3>2 DEF TapeInv, BarsKept
  <2>2. CASE Rotate
    BY <2>2, RotateKeepsBars DEF TapeInv
  <2> QED BY <2>1, <2>2
<1>6. Offered' = Offered
  BY <1>1 DEF Offered
<1>7. FiltersKept'
  <2>1. FilterTypes' /\ ActiveAreasHaveChips'
    BY <1>1 DEF TapeInv, FiltersKept, FilterTypes, filters, ActiveAreasHaveChips, VisibleChips
  <2>2. StorageMirrorsPage' /\ FilterIsOffered'
    BY <1>1, <1>6 DEF TapeInv, FiltersKept, filters, StorageMirrorsPage, FilterIsOffered
  <2> QED BY <2>1, <2>2 DEF FiltersKept
<1> QED
  BY <1>2, <1>4, <1>5, <1>7 DEF TapeInv

(* The page opens on an empty tape with what was stored.                   *)
LEMMA TapeStarts == TapeInit => TapeInv
<1> SUFFICES ASSUME TapeInit PROVE TapeInv
  OBVIOUS
<1>1. /\ now = 0 /\ prints = << >> /\ first = 1 /\ received = 0 /\ open = TRUE
      /\ tape = << >> /\ chart = << >> /\ spark = EmptyBars /\ age = << >>
      /\ changed = TRUE /\ picks = 0 /\ focused = {}
  BY DEF TapeInit
<1>2. FeedKept
  BY <1>1, TapeConstants DEF FeedKept
<1>3. TapeKept
  <2>1. BufferCap \in Nat \ {0} /\ received + 1 - first = 0
    BY <1>1, TapeConstants
  <2>2. << >> = [k \in 1 .. 0 |-> received + 1 - k]
    OBVIOUS
  <2>3. (IF 0 < BufferCap THEN 0 ELSE BufferCap) = 0
    BY <2>1
  <2> QED
    BY <1>1, <2>1, <2>2, <2>3 DEF TapeKept
<1>4. Got = {}
  BY <1>1 DEF Got
<1>5. ChartKept
  BY <1>1, <1>4 DEF ChartKept, ToSet
<1>6. BarsKept
  <2>1. \A a, k : Bought(a, k) = {}
    BY <1>4 DEF Bought
  <2>2. \A a \in Home : \A k \in 0 .. Buckets - 1 : spark[a][Buckets - k] = 0
    BY <1>1, TapeConstants DEF EmptyBars
  <2>3. spark \in [Home -> [1 .. Buckets -> Nat]]
    BY <1>1 DEF EmptyBars
  <2>4. age \in Seq(0 .. Buckets) /\ Len(age) = received + 1 - first
    BY <1>1
  <2> QED
    BY <2>1, <2>2, <2>3, <2>4, FS_EmptySet DEF BarsKept
<1>7. stored \in StoredItems /\ stored.areas \in {{}, {Home \cup {Unknown}}}
      /\ stored.neighbours \in {{}, {FALSE}} /\ stored.period = {} /\ stored.chart = {}
      /\ stored.window = {}
  <2> DEFINE before == [NothingStored EXCEPT !.areas = {Home \cup {Unknown}},
                                             !.neighbours = {FALSE}]
  <2>1. NothingStored \in StoredItems
    BY Loads DEF NothingStored, StoredItems
  <2>2. {Home \cup {Unknown}} \in Option(SUBSET (AllAreas \cup {Unknown}))
        /\ {FALSE} \in Option(BOOLEAN)
    BY Loads DEF AllAreas
  <2>3. CASE stored = NothingStored
    BY <2>1, <2>3 DEF NothingStored
  <2>4. CASE stored = before
    <3>1. stored = [areas |-> {Home \cup {Unknown}}, neighbours |-> {FALSE}, period |-> {},
                    chart |-> {}, window |-> {}]
      BY <2>4 DEF NothingStored
    <3> QED
      BY <2>2, <3>1, Loads DEF StoredItems
  <2> QED
    BY <2>3, <2>4 DEF TapeInit
<1>8. LoadAreas(stored) = Home
  <2>1. OrElse(stored.areas, Home) \in {Home, Home \cup {Unknown}}
    BY <1>7, Loads
  <2> QED
    BY <2>1, TapeAssumption DEF LoadAreas, AllAreas
<1>9. activeAreas = Home /\ showNeighbours \in BOOLEAN
  BY <1>8 DEF TapeInit, LoadNeighbours
<1>10. periodFilter = {} /\ chartPeriod = {} /\ window = DefaultWindow
  BY <1>7, Loads DEF TapeInit, LoadPeriod, LoadChart, LoadWindow
<1>11. FilterTypes
  BY <1>1, <1>7, <1>9, <1>10, Loads, TapeConstants DEF FilterTypes, AllAreas
<1>12. ActiveAreasHaveChips /\ StorageMirrorsPage /\ FilterIsOffered
  BY <1>1, <1>9 DEF TapeInit, ActiveAreasHaveChips, VisibleChips, StorageMirrorsPage,
                    FilterIsOffered
<1> QED
  BY <1>2, <1>3, <1>5, <1>6, <1>11, <1>12 DEF TapeInv, FiltersKept

(* The rows' contracts are contracts.                                      *)
LEMMA PeriodsOfTape ==
  ASSUME TapeInv, NEW i \in ToSet(tape)
  PROVE  prints[i].period \in Period
<1>1. i \in Got
  BY TapeHolds DEF TapeInv
<1>2. first \in 1 .. MaxPrints + 1 /\ received \in 0 .. Len(prints) /\ MaxPrints \in Nat
  BY TapeConstants DEF TapeInv, FeedKept
<1>3. i \in 1 .. Len(prints)
  BY <1>1, <1>2 DEF Got
<1> QED
  BY <1>3, PrintFields DEF TapeInv

(* Every step of the tape keeps what it has received in order.             *)
LEMMA TapeStays == TapeInv /\ [TapeNext]_tapeVars => TapeInv'
<1> SUFFICES ASSUME TapeInv, [TapeNext]_tapeVars PROVE TapeInv'
  OBVIOUS
<1>1. CASE Tick \/ Close \/ Rotate
  BY <1>1, TickCloseRotateKeep
<1>2. CASE Receive
  BY <1>2, ReceiveKeeps
<1>3. CASE DropFilter
  BY <1>3, DropFilterKeeps
<1>4. CASE Reload
  BY <1>4, ReloadKeeps
<1>5. CASE \E p \in Prints, late \in {0, 1} : Trade(p, late)
  BY <1>5, TradeKeeps
<1>6. activeAreas \subseteq AllAreas /\ showNeighbours \in BOOLEAN
      /\ activeAreas \subseteq VisibleChips
  BY DEF TapeInv, FiltersKept, FilterTypes, ActiveAreasHaveChips
<1>7. CASE \E a \in AllAreas : ToggleArea(a)
  <2>1. PICK a \in AllAreas : ToggleArea(a)
    BY <1>7
  <2> DEFINE active == IF a \in activeAreas THEN activeAreas \ {a} ELSE activeAreas \cup {a}
  <2>2. Pick /\ Chips(active, showNeighbours) /\ a \in VisibleChips
    BY <2>1 DEF ToggleArea
  <2>3. active \in SUBSET AllAreas
        /\ active \subseteq Home \cup (IF showNeighbours THEN Neighbour ELSE {})
    BY <1>6, <2>2 DEF VisibleChips
  <2> HIDE DEF active
  <2> QED
    BY <1>6, <2>2, <2>3, ChipsKeep
<1>8. CASE ToggleNeighbours
  <2>1. Pick /\ Chips(NeighbourAreas, ~showNeighbours)
    BY <1>8 DEF ToggleNeighbours
  <2>2. NeighbourAreas \in SUBSET AllAreas
        /\ NeighbourAreas \subseteq Home \cup (IF ~showNeighbours THEN Neighbour ELSE {})
    BY <1>6 DEF NeighbourAreas, AllAreas, VisibleChips
  <2>3. (~showNeighbours) \in BOOLEAN
    OBVIOUS
  <2> QED
    BY <2>1, <2>2, <2>3, ChipsKeep
<1>9. CASE ClickPill
  BY <1>9, FocusKeeps, Loads DEF ClickPill
<1>10. CASE \E ps \in Option(Period) : FilterPeriod(ps)
  BY <1>10, FilterPeriodKeeps
<1>11. CASE \E ps \in Option(Period \cup {AllDeliveries}) : ChooseChart(ps)
  BY <1>11, ChooseChartKeeps
<1>12. CASE \E w \in Windows : ChooseWindow(w)
  BY <1>12, ChooseWindowKeeps
<1>13. CASE \E i \in ToSet(tape) : ClickRow(i)
  <2>1. PICK i \in ToSet(tape) : ClickRow(i)
    BY <1>13
  <2> DEFINE ps == IF focused = {prints[i].period} THEN {} ELSE {prints[i].period}
  <2>2. ps \in Option(Period)
    BY PeriodsOfTape, Loads
  <2>3. Pick /\ Focus(ps)
    BY <2>1 DEF ClickRow
  <2> HIDE DEF ps
  <2> QED
    BY <2>2, <2>3, FocusKeeps
<1>14. CASE UNCHANGED tapeVars
  <2>1. UNCHANGED <<now, prints, first, received, open, tape, chart, spark, age, activeAreas,
                    showNeighbours, periodFilter, chartPeriod, focused, window, stored,
                    changed, picks>>
    BY <1>14 DEF tapeVars, feed, filters
  <2>2. FeedKept' /\ TapeKept'
    BY <2>1 DEF TapeInv, FeedKept, TapeKept
  <2>3. ChartKept'
    BY <2>1 DEF TapeInv, ChartKept, Got, TouchesHome, Fresh
  <2>4. BarsKept'
    <3>1. \A a, k : Bought(a, k)' = Bought(a, k)
      BY <2>1 DEF Bought, Got
    <3> QED
      BY <2>1, <3>1 DEF TapeInv, BarsKept
  <2>5. FilterTypes' /\ ActiveAreasHaveChips' /\ StorageMirrorsPage'
    BY <2>1 DEF TapeInv, FiltersKept, FilterTypes, ActiveAreasHaveChips, VisibleChips,
                StorageMirrorsPage
  <2>6. FilterIsOffered'
    BY <2>1 DEF TapeInv, FiltersKept, FilterIsOffered, Offered
  <2> QED
    BY <2>2, <2>3, <2>4, <2>5, <2>6 DEF TapeInv, FiltersKept
<1> QED
  BY <1>1, <1>2, <1>3, <1>4, <1>5, <1>7, <1>8, <1>9, <1>10, <1>11, <1>12, <1>13, <1>14
  DEF TapeNext

(* The inductive invariant of the tape and its filters.                    *)
THEOREM TapeInvariant == TapeSpec => []TapeInv
BY TapeStarts, TapeStays, PTL DEF TapeSpec

(* Whatever the operator picks and however prints, rotations, loads and    *)
(* the clock come in between: the tape is the newest prints, the chart     *)
(* draws all of its window, the bars count what was bought, and the        *)
(* filters are offered, seen and stored (web/src/main.rs, panels/chart.rs, *)
(* panels/pulse.rs, panels/filter_bar.rs, panels/public_trades.rs).        *)
THEOREM TapeStaysConsistent == TapeSpec => []TapeConsistent
<1> SUFFICES ASSUME TapeInv PROVE TapeConsistent
  BY TapeInvariant, PTL
<1>1. /\ first \in 1 .. MaxPrints + 1 /\ received \in 0 .. Len(prints) /\ first <= received + 1
      /\ first \in Nat /\ received \in Nat /\ MaxPrints \in Nat /\ received <= MaxPrints
      /\ Buckets \in Nat \ {0}
  BY TapeConstants DEF TapeInv, FeedKept
<1>2. IsFiniteSet(Got) /\ Cardinality(Got) = received + 1 - first
  <2>1. /\ IsFiniteSet(first .. received)
        /\ Cardinality(first .. received) = IF first > received THEN 0
                                            ELSE received - first + 1
    BY <1>1, FS_Interval
  <2>2. (IF first > received THEN 0 ELSE received - first + 1) = received + 1 - first
    BY <1>1
  <2> QED
    BY <2>1, <2>2 DEF Got
<1>3. TapeIsNewest
  BY <1>2 DEF TapeInv, TapeKept, TapeIsNewest
<1>4. ChartIsComplete
  <2> SUFFICES ASSUME window <= BufferSpan PROVE Drawn = ToDraw
    BY DEF ChartIsComplete
  <2>1. ToSet(chart) \subseteq Got
    BY Members DEF TapeInv, ChartKept
  <2>2. Drawn \subseteq ToDraw
    BY <2>1 DEF Drawn, ToDraw, TapeInv, ChartKept
  <2>3. ASSUME NEW i \in ToDraw PROVE i \in Drawn
    <3>1. i \in Got /\ TouchesHome(i) /\ prints[i].exec + window >= now
      BY DEF ToDraw
    <3>2. prints[i].exec \in Nat
      BY <1>1, <3>1, PrintFields DEF TapeInv, Got
    <3>3. window \in Nat /\ BufferSpan \in Nat /\ now \in Nat
      BY TapeConstants DEF TapeInv, FiltersKept, FilterTypes, FeedKept
    <3>4. Fresh(i)
      BY <3>1, <3>2, <3>3 DEF Fresh
    <3> QED
      BY <3>1, <3>4 DEF TapeInv, ChartKept, ToDraw, Drawn
  <2> QED BY <2>2, <2>3
<1>5. SparkCounts
  BY DEF TapeInv, BarsKept, Bought, SparkCounts
<1>6. spark \in [Home -> [1 .. Buckets -> 0 .. MaxPrints]]
  <2>1. ASSUME NEW a \in Home, NEW i \in 1 .. Buckets PROVE spark[a][i] \in 0 .. MaxPrints
    <3>1. Buckets - i \in 0 .. Buckets - 1 /\ Buckets - (Buckets - i) = i
      BY <1>1
    <3>2. spark[a][i] = Cardinality(Bought(a, Buckets - i))
      BY <3>1 DEF TapeInv, BarsKept
    <3>3. Bought(a, Buckets - i) \subseteq Got
      BY DEF Bought
    <3>4. /\ Cardinality(Bought(a, Buckets - i)) <= Cardinality(Got)
          /\ Cardinality(Bought(a, Buckets - i)) \in Nat
      BY <1>2, <3>3, FS_Subset, FS_CardinalityType
    <3> QED
      BY <1>1, <1>2, <3>2, <3>4
  <2>2. spark \in [Home -> [1 .. Buckets -> Nat]]
    BY DEF TapeInv, BarsKept
  <2> QED
    BY <2>1, <2>2
<1>7. ToSet(tape) \subseteq first .. received /\ ToSet(chart) \subseteq first .. received
  BY TapeHolds, Members DEF TapeInv, ChartKept, Got
<1>8. TapeTypeOK
  BY <1>1, <1>6, <1>7 DEF TapeInv, FeedKept, BarsKept, FiltersKept, FilterTypes, TapeTypeOK
<1> QED
  BY <1>3, <1>4, <1>5, <1>8 DEF TapeInv, FiltersKept, TapeConsistent

-----------------------------------------------------------------------------
(* The shell and the scenario panel.                                       *)

ListOf == [Scenario -> Stage \union {Idle}]

(* What a task still has to send: commands, the list it ends with, or the  *)
(* list a switch begins with.                                              *)
ReadFirst == Command("list", 0, 0)
Order ==
  [op: {"start", "stop", "next", "prev"}, scenario: Scenario, stage: {0}]
  \cup [op: {"jump"}, scenario: Scenario, stage: Stage]
  \cup {Fetch}
ShellTask ==
  [plan: Seq(Order) \cup {<<ReadFirst>>}, target: Optional(Scenario),
   got: Optional(ListOf), clean: BOOLEAN]

(* Only a switch, which has a target, begins with a list.                  *)
ReadsForTarget(task) == task.plan = <<ReadFirst>> => task.target # {}

(* Where a switch to s stands that nobody came between, seen from the set  *)
(* of scenarios that run: it has its list, it has still to stop the one    *)
(* that runs, it has still to start its own, or it is done.                *)
StopOne(a) == Command("stop", a, 0)
StartOne(s) == Command("start", s, 0)
HasItsList(task, running) ==
  /\ task.plan = <<ReadFirst>> /\ task.got # {}
  /\ \A list \in task.got : Active(list) = running
  /\ \A a, b \in running : a = b
HasToStop(task, s, running) ==
  /\ task.got = {}
  /\ \E a \in Scenario : task.plan = <<StopOne(a), StartOne(s), Fetch>> /\ running = {a}
HasToStart(task, s, running) ==
  task.plan = <<StartOne(s), Fetch>> /\ task.got = {} /\ running = {}
IsDone(task, s, running) ==
  task.plan \in {<<Fetch>>, << >>} /\ running = {s}
OnItsWay(task, running) ==
  task.clean =>
    \E s \in Scenario :
      /\ task.target = {s}
      /\ \/ HasItsList(task, running) \/ HasToStop(task, s, running)
         \/ HasToStart(task, s, running) \/ IsDone(task, s, running)

TasksOK ==
  /\ tasks \in Seq(ShellTask)
  /\ \A t \in DOMAIN tasks :
       ReadsForTarget(tasks[t]) /\ OnItsWay(tasks[t], Active(stage))
ListsOK ==
  /\ shown \in Optional(ListOf)
  /\ poll \in [at: {"asleep", "asked", "answered"}, list: Optional(ListOf)]

ShellInv ==
  /\ stage \in ListOf /\ Len(tasks) <= MaxTasks
  /\ tzMode \in {"local", "utc"} /\ troubles \in 0 .. MaxTroubles
  /\ TasksOK /\ ListsOK

(* At most one of a list runs, by count, if any two that run are the same. *)
LEMMA AtMostOneActive ==
  ASSUME NEW list \in ListOf, Cardinality(Active(list)) <= 1
  PROVE  \A a, b \in Active(list) : a = b
<1> SUFFICES ASSUME NEW a \in Active(list), NEW b \in Active(list), a # b
             PROVE  FALSE
  OBVIOUS
<1>1. IsFiniteSet(Active(list))
  BY ShellAssumption, FS_Subset DEF Active
<1>2. IsFiniteSet({a}) /\ Cardinality({a}) = 1
  BY FS_Singleton
<1>3. IsFiniteSet({a} \cup {b}) /\ Cardinality({a} \cup {b}) = 2
  BY <1>2, FS_AddElement, SMTT(20), ZenonT(20)
<1>4. Cardinality({a} \cup {b}) <= Cardinality(Active(list))
  BY <1>1, FS_Subset
<1>5. Cardinality(Active(list)) \in Nat
  BY <1>1, FS_CardinalityType
<1> QED
  BY <1>3, <1>4, <1>5

(* A command leaves stages, and changes one scenario alone.                *)
LEMMA ObeyedStages ==
  ASSUME stage \in ListOf, NEW cmd \in Order, cmd.op \in Writes, Obey(cmd)
  PROVE  /\ cmd.scenario \in Scenario /\ stage' \in ListOf
         /\ cmd.op = "stop" => Active(stage') = Active(stage) \ {cmd.scenario}
         /\ cmd.op = "start" => Active(stage') = Active(stage) \cup {cmd.scenario}
<1> DEFINE s == cmd.scenario
<1>1. /\ s \in Scenario
      /\ \/ cmd.op \in {"start", "stop", "next", "prev"}
         \/ cmd.op = "jump" /\ cmd.stage \in Stage
  <2>1. CASE cmd \in [op: {"start", "stop", "next", "prev"}, scenario: Scenario, stage: {0}]
    BY <2>1
  <2>2. CASE cmd \in [op: {"jump"}, scenario: Scenario, stage: Stage]
    BY <2>2
  <2>3. CASE cmd = Fetch
    BY <2>3 DEF Fetch, Command, Writes
  <2> QED BY <2>1, <2>2, <2>3 DEF Order
<1>2. stage[s] \in Stage \cup {Idle} /\ Idle \notin Stage
  BY <1>1 DEF ListOf, Idle, Stage
<1>3. PICK i \in After(cmd, stage[s]) : stage' = [stage EXCEPT ![s] = i]
  BY DEF Obey
<1>4. /\ i \in Stage \cup {Idle}
      /\ cmd.op = "stop" => i = Idle
      /\ cmd.op = "start" => i \in Stage
  BY <1>1, <1>2, <1>3 DEF After
<1>5. stage' \in ListOf
  BY <1>1, <1>3, <1>4 DEF ListOf
<1>6. \A r \in Scenario : stage'[r] = IF r = s THEN i ELSE stage[r]
  BY <1>1, <1>3 DEF ListOf
<1>7. cmd.op = "stop" => Active(stage') = Active(stage) \ {s}
  BY <1>2, <1>4, <1>6 DEF Active
<1>8. cmd.op = "start" => Active(stage') = Active(stage) \cup {s}
  BY <1>1, <1>2, <1>4, <1>6 DEF Active
<1> QED
  BY <1>1, <1>5, <1>7, <1>8

(* Whatever another does leaves every task one, and no switch is taken for *)
(* undisturbed that was not alone.                                         *)
LEMMA SpoiledTasks ==
  ASSUME NEW ts \in Seq(ShellTask), NEW but, NEW running,
         \A t \in DOMAIN ts : ReadsForTarget(ts[t]),
         but \in DOMAIN ts => OnItsWay(ts[but], running)
  PROVE  /\ Spoiled(ts, but) \in Seq(ShellTask)
         /\ Len(Spoiled(ts, but)) = Len(ts)
         /\ \A t \in DOMAIN Spoiled(ts, but) :
              /\ ReadsForTarget(Spoiled(ts, but)[t])
              /\ OnItsWay(Spoiled(ts, but)[t], running)
<1> DEFINE new == Spoiled(ts, but)
<1>1. DOMAIN ts = 1 .. Len(ts) /\ Len(ts) \in Nat /\ \A t \in DOMAIN ts : ts[t] \in ShellTask
  OBVIOUS
<1>2. new = [t \in 1 .. Len(ts) |-> IF t = but THEN ts[t] ELSE [ts[t] EXCEPT !.clean = FALSE]]
  BY <1>1 DEF Spoiled
<1>3. ASSUME NEW t \in 1 .. Len(ts)
      PROVE  new[t] \in ShellTask /\ ReadsForTarget(new[t]) /\ OnItsWay(new[t], running)
  <2>1. CASE t = but
    BY <1>1, <1>2, <2>1
  <2>2. CASE t # but
    <3> DEFINE old == ts[t]
    <3>1. new[t] = [old EXCEPT !.clean = FALSE] /\ old \in ShellTask /\ ReadsForTarget(old)
      BY <1>1, <1>2, <2>2
    <3> HIDE DEF new, old
    <3>2. /\ new[t] \in ShellTask /\ new[t].clean = FALSE
          /\ new[t].plan = old.plan /\ new[t].target = old.target
      BY <3>1 DEF ShellTask
    <3> QED
      BY <3>1, <3>2 DEF ReadsForTarget, OnItsWay
  <2> QED BY <2>1, <2>2
<1> HIDE DEF new
<1>4. new \in Seq(ShellTask) /\ Len(new) = Len(ts) /\ DOMAIN new = 1 .. Len(ts)
  BY <1>1, <1>2, <1>3
<1> QED
  BY <1>3, <1>4 DEF new

(* Commands are told by their kinds; the list of a switch is not among     *)
(* what a task sends later.                                                *)
LEMMA Commands ==
  /\ Fetch \in Order /\ ReadFirst \notin Order
  /\ \A s \in Scenario : StopOne(s) \in Order /\ StartOne(s) \in Order
  /\ \A cmd \in Order : cmd.op # "list"
  /\ \A plan \in Seq(Order) : plan # <<ReadFirst>>
  /\ \A plan \in Seq(Order) : plan # << >> => plan[1] \in Order /\ Tail(plan) \in Seq(Order)
  /\ Fetch.op = "fetch" /\ ReadFirst.op = "list"
<1>1. \A cmd \in Order : cmd.op # "list"
  BY DEF Order, Fetch, Command
<1>2. Fetch.op = "fetch" /\ ReadFirst.op = "list"
  BY DEF Fetch, ReadFirst, Command
<1>3. \A s \in Scenario : StopOne(s) \in Order /\ StartOne(s) \in Order
  BY DEF Order, StopOne, StartOne, Command
<1>4. \A plan \in Seq(Order) : plan # << >> => plan[1] \in Order /\ Tail(plan) \in Seq(Order)
  OBVIOUS
<1>5. ASSUME NEW plan \in Seq(Order) PROVE plan # <<ReadFirst>>
  <2>1. CASE plan # << >>
    <3>1. plan[1] \in Order
      BY <1>4, <2>1
    <3> QED
      BY <1>1, <1>2, <3>1
  <2> QED BY <2>1
<1> QED
  BY <1>1, <1>2, <1>3, <1>4, <1>5 DEF Order

(* One task takes a step of its own, and the same scenarios run.           *)
LEMMA OneTaskSteps ==
  ASSUME TasksOK, NEW t \in DOMAIN tasks, NEW k \in ShellTask,
         ReadsForTarget(k), OnItsWay(k, Active(stage)),
         tasks' = [tasks EXCEPT ![t] = k], Active(stage') = Active(stage)
  PROVE  TasksOK' /\ Len(tasks') = Len(tasks)
<1>1. tasks \in Seq(ShellTask) /\ t \in 1 .. Len(tasks) /\ DOMAIN tasks = 1 .. Len(tasks)
  BY DEF TasksOK
<1>2. /\ tasks' \in Seq(ShellTask) /\ Len(tasks') = Len(tasks)
      /\ DOMAIN tasks' = DOMAIN tasks
      /\ \A u \in DOMAIN tasks : tasks'[u] = IF u = t THEN k ELSE tasks[u]
  BY <1>1, ExceptSeq
<1>3. ASSUME NEW u \in DOMAIN tasks'
      PROVE  ReadsForTarget(tasks'[u]) /\ OnItsWay(tasks'[u], Active(stage'))
  BY <1>2, <1>3 DEF TasksOK
<1> QED
  BY <1>2, <1>3 DEF TasksOK

(* A task that is begun has sent nothing.                                  *)
LEMMA OneTaskBegins ==
  ASSUME ShellInv, NEW k \in ShellTask, ReadsForTarget(k), ~k.clean, Begin(k)
  PROVE  ShellInv'
<1>1. tasks \in Seq(ShellTask) /\ Len(tasks) < MaxTasks /\ tasks' = Append(tasks, k)
  BY DEF Begin, ShellInv, TasksOK
<1>2. /\ tasks' \in Seq(ShellTask) /\ Len(tasks') = Len(tasks) + 1
      /\ Len(tasks) \in Nat /\ DOMAIN tasks = 1 .. Len(tasks)
      /\ DOMAIN tasks' = 1 .. Len(tasks) + 1
      /\ \A u \in 1 .. Len(tasks) : tasks'[u] = tasks[u]
      /\ tasks'[Len(tasks) + 1] = k
  BY <1>1, AppendProperties
<1>3. UNCHANGED <<stage, shown, poll, tzMode, troubles>>
  BY DEF Begin, zone
<1>4. ASSUME NEW u \in DOMAIN tasks'
      PROVE  ReadsForTarget(tasks'[u]) /\ OnItsWay(tasks'[u], Active(stage))
  <2>1. CASE u \in 1 .. Len(tasks)
    BY <1>2, <2>1 DEF ShellInv, TasksOK
  <2>2. CASE u = Len(tasks) + 1
    BY <1>2, <2>2 DEF OnItsWay
  <2> QED
    BY <1>2, <1>4, <2>1, <2>2
<1>5. TasksOK'
  BY <1>2, <1>3, <1>4 DEF TasksOK
<1>6. Len(tasks') <= MaxTasks
  BY <1>1, <1>2, ShellAssumption
<1> QED
  BY <1>3, <1>5, <1>6 DEF ShellInv, ListsOK

(* The one that runs is the lowest of those that run; there is always one. *)
LEMMA LowestRuns ==
  ASSUME NEW list \in ListOf, Active(list) # {}
  PROVE  /\ (CHOOSE s \in Lowest(Active(list)) : TRUE) \in Active(list)
         /\ Active(list) \subseteq Scenario
<1>1. Active(list) \subseteq Nat /\ IsFiniteSet(Active(list))
  BY ShellAssumption, FS_Subset DEF Active
<1>2. PICK s \in Active(list) : \A r \in Active(list) : s <= r
  BY <1>1, HasLeast
<1> QED
  BY <1>2 DEF Lowest, Active

(* A command that is carried out brings its own switch on its way.         *)
LEMMA HandleKeepsTasks ==
  ASSUME ShellInv, NEW t \in DOMAIN tasks, Handle(t)
  PROVE  stage' \in ListOf /\ TasksOK' /\ Len(tasks') = Len(tasks)
<1> DEFINE old == tasks[t]
           cmd == old.plan[1]
           k   == [old EXCEPT !.plan = Tail(old.plan)]
           mid == [tasks EXCEPT ![t].plan = Tail(@)]
<1>1. /\ tasks \in Seq(ShellTask) /\ t \in 1 .. Len(tasks) /\ old \in ShellTask
      /\ ReadsForTarget(old) /\ OnItsWay(old, Active(stage))
      /\ \A u \in DOMAIN tasks : ReadsForTarget(tasks[u])
  BY DEF ShellInv, TasksOK
<1>2. /\ old.plan # << >> /\ cmd.op \in Writes /\ Obey(cmd)
      /\ tasks' = Spoiled(mid, t)
  BY DEF Handle, Waits
<1>3. mid = [tasks EXCEPT ![t] = k]
  OBVIOUS
<1> HIDE DEF mid, k, old
<1>4. old.plan \in Seq(Order)
  <2>1. old.plan = <<ReadFirst>> => cmd.op = "list"
    BY Commands
  <2> QED
    BY <1>1, <1>2, <2>1 DEF ShellTask, Writes
<1>5. cmd \in Order /\ Tail(old.plan) \in Seq(Order)
  BY <1>2, <1>4, Commands
<1>6. /\ k \in ShellTask /\ k.plan = Tail(old.plan) /\ k.target = old.target
      /\ k.got = old.got /\ k.clean = old.clean
  BY <1>1, <1>5 DEF k, ShellTask
<1>7. ReadsForTarget(k)
  BY <1>5, <1>6, Commands DEF ReadsForTarget
<1>8. /\ cmd.scenario \in Scenario /\ stage' \in ListOf
      /\ cmd.op = "stop" => Active(stage') = Active(stage) \ {cmd.scenario}
      /\ cmd.op = "start" => Active(stage') = Active(stage) \cup {cmd.scenario}
  BY <1>2, <1>5, ObeyedStages DEF ShellInv
<1>9. OnItsWay(k, Active(stage'))
  <2> SUFFICES ASSUME k.clean PROVE OnItsWay(k, Active(stage'))
    BY DEF OnItsWay
  <2>1. PICK s \in Scenario :
          /\ old.target = {s}
          /\ \/ HasItsList(old, Active(stage)) \/ HasToStop(old, s, Active(stage))
             \/ HasToStart(old, s, Active(stage)) \/ IsDone(old, s, Active(stage))
    BY <1>1, <1>6 DEF OnItsWay
  <2>2. ~HasItsList(old, Active(stage))
    BY <1>4, Commands DEF HasItsList
  <2>3. ~IsDone(old, s, Active(stage))
    <3>1. old.plan = <<Fetch>> => cmd.op = "fetch"
      BY Commands
    <3> QED
      BY <1>2, <3>1 DEF IsDone, Writes
  <2>4. CASE HasToStop(old, s, Active(stage))
    <3>1. PICK a \in Scenario :
            old.plan = <<StopOne(a), StartOne(s), Fetch>> /\ Active(stage) = {a}
      BY <2>4 DEF HasToStop
    <3>2. cmd = StopOne(a) /\ Tail(old.plan) = <<StartOne(s), Fetch>>
      BY <3>1
    <3>3. cmd.op = "stop" /\ cmd.scenario = a
      BY <3>2 DEF StopOne, Command
    <3>4. Active(stage') = {}
      BY <1>8, <3>1, <3>3
    <3> QED
      BY <1>6, <2>1, <2>4, <3>2, <3>4 DEF OnItsWay, HasToStart, HasToStop
  <2>5. CASE HasToStart(old, s, Active(stage))
    <3>1. old.plan = <<StartOne(s), Fetch>> /\ Active(stage) = {}
      BY <2>5 DEF HasToStart
    <3>2. cmd = StartOne(s) /\ Tail(old.plan) = <<Fetch>>
      BY <3>1
    <3>3. cmd.op = "start" /\ cmd.scenario = s
      BY <3>2 DEF StartOne, Command
    <3>4. Active(stage') = {s}
      BY <1>8, <3>1, <3>3
    <3> QED
      BY <1>6, <2>1, <3>2, <3>4 DEF OnItsWay, IsDone
  <2> QED
    BY <2>1, <2>2, <2>3, <2>4, <2>5
<1>10. /\ mid \in Seq(ShellTask) /\ Len(mid) = Len(tasks)
       /\ \A u \in DOMAIN mid : ReadsForTarget(mid[u])
       /\ mid[t] = k /\ t \in DOMAIN mid
  <2>1. /\ mid \in Seq(ShellTask) /\ Len(mid) = Len(tasks)
        /\ \A u \in 1 .. Len(tasks) : mid[u] = IF u = t THEN k ELSE tasks[u]
    BY <1>1, <1>3, <1>6, ExceptSeq
  <2>2. DOMAIN mid = 1 .. Len(tasks) /\ DOMAIN tasks = 1 .. Len(tasks)
    BY <1>1, <2>1
  <2> QED
    BY <1>1, <1>7, <2>1, <2>2
<1>11. /\ Spoiled(mid, t) \in Seq(ShellTask)
       /\ Len(Spoiled(mid, t)) = Len(mid)
       /\ \A u \in DOMAIN Spoiled(mid, t) :
            /\ ReadsForTarget(Spoiled(mid, t)[u])
            /\ OnItsWay(Spoiled(mid, t)[u], Active(stage'))
  <2> DEFINE running == Active(stage')
  <2>1. OnItsWay(mid[t], running)
    BY <1>9, <1>10
  <2> HIDE DEF running
  <2>2. /\ Spoiled(mid, t) \in Seq(ShellTask)
        /\ Len(Spoiled(mid, t)) = Len(mid)
        /\ \A u \in DOMAIN Spoiled(mid, t) :
             /\ ReadsForTarget(Spoiled(mid, t)[u])
             /\ OnItsWay(Spoiled(mid, t)[u], running)
    BY <1>10, <2>1, SpoiledTasks
  <2> QED
    BY <2>2 DEF running
<1> QED
  BY <1>2, <1>8, <1>10, <1>11 DEF TasksOK

(* A list is answered, and a switch may be alone from here on.             *)
LEMMA ServeListKeepsTasks ==
  ASSUME ShellInv, NEW t \in DOMAIN tasks, ServeList(t)
  PROVE  TasksOK' /\ Len(tasks') = Len(tasks)
<1> DEFINE old == tasks[t]
           clean == IF Waits(t, {"list"}) THEN Cardinality(Active(stage)) <= 1
                                          ELSE old.clean
           k   == [old EXCEPT !.got = {stage}, !.clean = clean]
<1>1. /\ tasks \in Seq(ShellTask) /\ t \in 1 .. Len(tasks) /\ old \in ShellTask
      /\ ReadsForTarget(old) /\ OnItsWay(old, Active(stage))
  BY DEF ShellInv, TasksOK
<1>2. tasks' = [tasks EXCEPT ![t] = k] /\ stage' = stage
  BY <1>1 DEF ServeList
<1>3. old.plan # << >> /\ old.plan[1].op \in Reads
  BY DEF ServeList, Waits
<1>4. clean \in BOOLEAN
  <2>1. old.clean \in BOOLEAN
    BY <1>1 DEF ShellTask
  <2>2. (Cardinality(Active(stage)) <= 1) \in BOOLEAN
    OBVIOUS
  <2>3. CASE Waits(t, {"list"})
    BY <2>2, <2>3
  <2>4. CASE ~Waits(t, {"list"})
    BY <2>1, <2>4
  <2> QED BY <2>3, <2>4
<1>5. stage \in ListOf /\ {stage} \in Optional(ListOf)
  BY OptionalIsSubset DEF ShellInv
<1>6. Waits(t, {"list"}) <=> old.plan = <<ReadFirst>>
  <2>1. old.plan = <<ReadFirst>> => old.plan # << >> /\ old.plan[1].op = "list"
    BY Commands
  <2>2. old.plan \in Seq(Order) => old.plan[1].op # "list"
    BY <1>3, Commands
  <2> QED
    BY <1>1, <2>1, <2>2 DEF Waits, ShellTask
<1> HIDE DEF clean, k, old
<1>7. /\ k \in ShellTask /\ k.plan = old.plan /\ k.target = old.target
      /\ k.got = {stage} /\ k.clean = clean
  BY <1>1, <1>4, <1>5 DEF k, ShellTask
<1>8. ReadsForTarget(k)
  BY <1>1, <1>7 DEF ReadsForTarget
<1>9. OnItsWay(k, Active(stage))
  <2>1. CASE old.plan = <<ReadFirst>>
    <3>1. PICK s \in Scenario : old.target = {s}
      BY <1>1, <2>1 DEF ReadsForTarget, ShellTask, Optional
    <3>2. clean => \A a, b \in Active(stage) : a = b
      BY <1>5, <1>6, <2>1, AtMostOneActive DEF clean
    <3> QED
      BY <1>7, <2>1, <3>1, <3>2 DEF OnItsWay, HasItsList
  <2>2. CASE old.plan # <<ReadFirst>>
    <3> SUFFICES ASSUME old.clean PROVE OnItsWay(k, Active(stage))
      BY <1>6, <1>7, <2>2 DEF OnItsWay, clean
    <3>1. PICK s \in Scenario :
            /\ old.target = {s}
            /\ \/ HasToStop(old, s, Active(stage)) \/ HasToStart(old, s, Active(stage))
               \/ IsDone(old, s, Active(stage))
      BY <1>1, <2>2 DEF OnItsWay, HasItsList
    <3>2. ~HasToStop(old, s, Active(stage)) /\ ~HasToStart(old, s, Active(stage))
      <4>1. \A a, b, c : /\ old.plan = <<StopOne(a), b, c>> => old.plan[1].op = "stop"
                         /\ old.plan = <<StartOne(a), b>> => old.plan[1].op = "start"
        BY DEF StopOne, StartOne, Command
      <4> QED
        BY <1>3, <4>1 DEF HasToStop, HasToStart, Reads
    <3> QED
      BY <1>7, <3>1, <3>2 DEF OnItsWay, IsDone
  <2> QED BY <2>1, <2>2
<1>10. t \in DOMAIN tasks /\ TasksOK
  BY DEF ShellInv
<1> QED
  BY <1>2, <1>7, <1>8, <1>9, <1>10, OneTaskSteps

(* A switch with one to stop sends three requests.                         *)
LEMMA ThreeInARow ==
  ASSUME NEW x, NEW y, NEW z
  PROVE  <<x>> \o <<y, z>> = <<x, y, z>>
<1> DEFINE S == {x, y, z}
           l == <<x>>
           r == <<y, z>>
           b == <<x, y, z>>
<1> SUFFICES l \o r = b
  OBVIOUS
<1>1. l \in Seq(S) /\ r \in Seq(S) /\ b \in Seq(S)
  OBVIOUS
<1>2. /\ Len(l) = 1 /\ l[1] = x
      /\ Len(r) = 2 /\ r[1] = y /\ r[2] = z
      /\ Len(b) = 3 /\ b[1] = x /\ b[2] = y /\ b[3] = z
  OBVIOUS
<1> HIDE DEF S, l, r, b
<1>3. /\ l \o r \in Seq(S) /\ Len(l \o r) = 3
      /\ (l \o r)[1] = x /\ (l \o r)[2] = y /\ (l \o r)[3] = z
  <2> DEFINE c == l \o r
  <2> SUFFICES /\ c \in Seq(S) /\ Len(c) = 3
               /\ c[1] = x /\ c[2] = y /\ c[3] = z
    OBVIOUS
  <2>1. /\ c \in Seq(S) /\ Len(c) = Len(l) + Len(r)
        /\ \A i \in 1 .. Len(l) + Len(r) :
             c[i] = IF i <= Len(l) THEN l[i] ELSE r[i - Len(l)]
    BY <1>1, ConcatProperties
  <2> HIDE DEF c
  <2>2. \A i \in 1 .. 3 : c[i] = IF i <= 1 THEN l[i] ELSE r[i - 1]
    BY <1>2, <2>1
  <2> QED
    BY <1>2, <2>1, <2>2
<1>4. \A i \in 1 .. 3 : i = 1 \/ i = 2 \/ i = 3
  OBVIOUS
<1>5. \A i \in 1 .. Len(b) : (l \o r)[i] = b[i]
  BY <1>2, <1>3, <1>4
<1> QED
  BY <1>1, <1>2, <1>3, <1>5, SeqEqual

(* A switch that takes its list decides what to stop by it; any other task *)
(* has ended.                                                              *)
LEMMA TakeListKeepsTasks ==
  ASSUME ShellInv, NEW t \in DOMAIN tasks, TakeList(t)
  PROVE  TasksOK' /\ Len(tasks') = Len(tasks) /\ shown' \in Optional(ListOf)
<1> DEFINE old == tasks[t]
<1>1. /\ tasks \in Seq(ShellTask) /\ t \in 1 .. Len(tasks) /\ old \in ShellTask
      /\ ReadsForTarget(old) /\ OnItsWay(old, Active(stage))
  BY DEF ShellInv, TasksOK
<1>2. PICK list \in old.got :
        /\ IF Waits(t, {"list"})
             THEN \E s \in old.target :
                    tasks' = [tasks EXCEPT ![t].plan = Rest(s, list), ![t].got = {}]
                  /\ UNCHANGED shown
             ELSE tasks' = [tasks EXCEPT ![t].plan = << >>, ![t].got = {}]
                  /\ shown' = {list}
        /\ stage' = stage
  BY DEF TakeList
<1>3. list \in ListOf /\ {list} \in Optional(ListOf) /\ shown \in Optional(ListOf)
  BY <1>1, OptionalIsSubset DEF ShellTask, ShellInv, ListsOK
<1>4. Waits(t, {"list"}) <=> old.plan = <<ReadFirst>>
  <2>1. old.plan = <<ReadFirst>> => old.plan # << >> /\ old.plan[1].op = "list"
    BY Commands
  <2>2. old.plan \in Seq(Order) /\ old.plan # << >> => old.plan[1].op # "list"
    BY Commands
  <2> QED
    BY <1>1, <2>1, <2>2 DEF Waits, ShellTask
<1>5. t \in DOMAIN tasks /\ TasksOK
  BY DEF ShellInv
<1>6. CASE Waits(t, {"list"})
  <2>1. PICK s \in old.target :
          tasks' = [tasks EXCEPT ![t].plan = Rest(s, list), ![t].got = {}]
    BY <1>2, <1>6
  <2>2. s \in Scenario /\ old.target = {s}
    BY <1>1 DEF ShellTask, Optional
  <2> DEFINE k == [old EXCEPT !.plan = Rest(s, list), !.got = {}]
  <2>3. tasks' = [tasks EXCEPT ![t] = k]
    BY <2>1
  <2>4. /\ Active(list) = {} => Rest(s, list) = <<StartOne(s), Fetch>>
        /\ Active(list) # {} =>
             \E a \in Active(list) : /\ a \in Scenario
                                     /\ Rest(s, list) = <<StopOne(a), StartOne(s), Fetch>>
    <3>1. CASE Active(list) = {}
      BY <3>1 DEF Rest, StartOne
    <3>2. CASE Active(list) # {}
      <4> DEFINE a == CHOOSE r \in Lowest(Active(list)) : TRUE
      <4>1. a \in Active(list) /\ a \in Scenario
        BY <1>3, <3>2, LowestRuns
      <4>2. Rest(s, list) = <<StopOne(a)>> \o <<StartOne(s), Fetch>>
        BY <3>2 DEF Rest, StartOne, StopOne
      <4> HIDE DEF a
      <4>3. <<StopOne(a)>> \o <<StartOne(s), Fetch>> = <<StopOne(a), StartOne(s), Fetch>>
        BY ThreeInARow
      <4> QED
        BY <3>2, <4>1, <4>2, <4>3
    <3> QED BY <3>1, <3>2
  <2>5. Rest(s, list) \in Seq(Order)
    <3>1. StartOne(s) \in Order /\ Fetch \in Order
      BY <2>2, Commands
    <3>2. CASE Active(list) = {}
      BY <2>4, <3>1, <3>2
    <3>3. CASE Active(list) # {}
      <4>1. PICK a \in Scenario : Rest(s, list) = <<StopOne(a), StartOne(s), Fetch>>
        BY <2>4, <3>3
      <4>2. StopOne(a) \in Order
        BY Commands
      <4> QED
        BY <3>1, <4>1, <4>2
    <3> QED BY <3>2, <3>3
  <2> HIDE DEF k, old
  <2>6. /\ k \in ShellTask /\ k.plan = Rest(s, list) /\ k.target = old.target
        /\ k.got = {} /\ k.clean = old.clean
    BY <1>1, <2>5, OptionalIsSubset DEF k, ShellTask
  <2>7. ReadsForTarget(k)
    BY <2>5, <2>6, Commands DEF ReadsForTarget
  <2>8. OnItsWay(k, Active(stage))
    <3> SUFFICES ASSUME old.clean PROVE OnItsWay(k, Active(stage))
      BY <2>6 DEF OnItsWay
    <3>1. HasItsList(old, Active(stage))
      <4>1. old.plan = <<ReadFirst>>
        BY <1>4, <1>6
      <4>2. \A a, b, c : /\ <<StopOne(a), b, c>> # <<ReadFirst>>
                         /\ <<b, c>> # <<ReadFirst>> /\ <<Fetch>> # <<ReadFirst>>
                         /\ << >> # <<ReadFirst>>
        BY Commands
      <4> QED
        BY <1>1, <4>1, <4>2 DEF OnItsWay, HasToStop, HasToStart, IsDone
    <3>2. Active(list) = Active(stage) /\ \A a, b \in Active(stage) : a = b
      BY <3>1 DEF HasItsList
    <3>3. CASE Active(list) = {}
      BY <2>2, <2>4, <2>6, <3>2, <3>3 DEF OnItsWay, HasToStart
    <3>4. CASE Active(list) # {}
      <4>1. PICK a \in Active(list) :
              a \in Scenario /\ Rest(s, list) = <<StopOne(a), StartOne(s), Fetch>>
        BY <2>4, <3>4
      <4>2. Active(stage) = {a}
        BY <3>2, <4>1
      <4> QED
        BY <2>2, <2>6, <4>1, <4>2 DEF OnItsWay, HasToStop
    <3> QED BY <3>3, <3>4
  <2>9. TasksOK' /\ Len(tasks') = Len(tasks)
    BY <1>2, <1>5, <2>3, <2>6, <2>7, <2>8, OneTaskSteps
  <2> QED
    BY <1>2, <1>3, <1>6, <2>9
<1>7. CASE ~Waits(t, {"list"})
  <2> DEFINE k == [old EXCEPT !.plan = << >>, !.got = {}]
  <2>1. tasks' = [tasks EXCEPT ![t] = k] /\ shown' = {list}
    BY <1>2, <1>7
  <2> HIDE DEF k, old
  <2>2. << >> \in Seq(Order) /\ {} \in Optional(ListOf)
    BY OptionalIsSubset
  <2>3. /\ k \in ShellTask /\ k.plan = << >> /\ k.target = old.target
        /\ k.got = {} /\ k.clean = old.clean
    BY <1>1, <2>2 DEF k, ShellTask
  <2>6. ReadsForTarget(k)
    BY <2>2, <2>3, Commands DEF ReadsForTarget
  <2>4. OnItsWay(k, Active(stage))
    <3>1. old.plan # <<ReadFirst>> /\ old.got # {}
      BY <1>2, <1>4, <1>7
    <3> QED
      <4> SUFFICES ASSUME old.clean PROVE OnItsWay(k, Active(stage))
        BY <2>3 DEF OnItsWay
      <4>1. PICK s \in Scenario :
              old.target = {s} /\ IsDone(old, s, Active(stage))
        BY <1>1, <3>1 DEF OnItsWay, HasItsList, HasToStop, HasToStart
      <4> QED
        BY <2>3, <4>1 DEF OnItsWay, IsDone
  <2>5. TasksOK' /\ Len(tasks') = Len(tasks)
    BY <1>2, <1>5, <2>1, <2>3, <2>4, <2>6, OneTaskSteps
  <2> QED
    BY <1>3, <2>1, <2>5
<1> QED
  BY <1>6, <1>7

(* A request that is lost ends no task early, and its switch is no longer  *)
(* undisturbed.                                                            *)
LEMMA LoseKeepsTasks ==
  ASSUME ShellInv, NEW t \in DOMAIN tasks, Lose(t)
  PROVE  TasksOK' /\ Len(tasks') = Len(tasks)
<1> DEFINE old  == tasks[t]
           s    == CHOOSE r \in old.target : TRUE
           rest == IF Waits(t, {"list"}) THEN <<Command("start", s, 0), Fetch>>
                                         ELSE Tail(old.plan)
           k    == [old EXCEPT !.plan = rest, !.got = {}, !.clean = FALSE]
<1>1. /\ tasks \in Seq(ShellTask) /\ t \in 1 .. Len(tasks) /\ old \in ShellTask
      /\ ReadsForTarget(old)
  BY DEF ShellInv, TasksOK
<1>2. tasks' = [tasks EXCEPT ![t] = k] /\ stage' = stage /\ old.plan # << >>
  <2>1. tasks' = [tasks EXCEPT ![t].plan = rest, ![t].got = {}, ![t].clean = FALSE]
    BY ONLY Lose(t) DEF Lose
  <2>2. stage' = stage /\ old.plan # << >>
    BY DEF Lose
  <2> HIDE DEF rest
  <2> QED
    BY <2>1, <2>2
<1>3. Waits(t, {"list"}) <=> old.plan = <<ReadFirst>>
  <2>1. old.plan = <<ReadFirst>> => old.plan # << >> /\ old.plan[1].op = "list"
    BY Commands
  <2>2. old.plan \in Seq(Order) /\ old.plan # << >> => old.plan[1].op # "list"
    BY Commands
  <2> QED
    BY <1>1, <2>1, <2>2 DEF Waits, ShellTask
<1>4. rest \in Seq(Order)
  <2>1. CASE old.plan = <<ReadFirst>>
    <3>1. old.target # {} /\ old.target \subseteq Scenario
      BY <1>1, <2>1, OptionalIsSubset DEF ReadsForTarget, ShellTask
    <3>2. s \in Scenario
      BY <3>1
    <3>3. StartOne(s) \in Order /\ Fetch \in Order
      BY <3>2, Commands
    <3>4. rest = <<StartOne(s), Fetch>>
      BY <1>3, <2>1 DEF StartOne
    <3> HIDE DEF rest, s
    <3> QED
      BY <3>3, <3>4
  <2>2. CASE old.plan # <<ReadFirst>>
    BY <1>1, <1>2, <1>3, <2>2, Commands DEF ShellTask
  <2> QED BY <2>1, <2>2
<1> HIDE DEF k, rest, s, old
<1>5. {} \in Optional(ListOf)
  BY OptionalIsSubset
<1>6. k \in ShellTask /\ k.plan = rest /\ ~k.clean
  BY <1>1, <1>4, <1>5 DEF k, ShellTask
<1>7. ReadsForTarget(k) /\ OnItsWay(k, Active(stage))
  BY <1>4, <1>6, Commands DEF ReadsForTarget, OnItsWay
<1>8. t \in DOMAIN tasks /\ TasksOK
  BY DEF ShellInv
<1> QED
  BY <1>2, <1>6, <1>7, <1>8, OneTaskSteps

(* What another client does spoils every switch under way.                 *)
LEMMA OtherClientKeepsTasks ==
  ASSUME ShellInv, NEW cmd \in Order, cmd.op \in Writes, OtherClient(cmd)
  PROVE  stage' \in ListOf /\ TasksOK' /\ Len(tasks') = Len(tasks)
<1>1. /\ tasks \in Seq(ShellTask) /\ 0 \notin DOMAIN tasks
      /\ \A t \in DOMAIN tasks : ReadsForTarget(tasks[t])
      /\ Obey(cmd) /\ tasks' = Spoiled(tasks, 0)
  BY DEF ShellInv, TasksOK, OtherClient
<1>2. stage' \in ListOf
  BY <1>1, ObeyedStages DEF ShellInv
<1> DEFINE running == Active(stage')
<1> HIDE DEF running
<1>3. /\ Spoiled(tasks, 0) \in Seq(ShellTask)
      /\ Len(Spoiled(tasks, 0)) = Len(tasks)
      /\ \A t \in DOMAIN Spoiled(tasks, 0) :
           /\ ReadsForTarget(Spoiled(tasks, 0)[t])
           /\ OnItsWay(Spoiled(tasks, 0)[t], running)
  BY <1>1, SpoiledTasks
<1> QED
  BY <1>1, <1>2, <1>3 DEF running, TasksOK

(* A begun command that is one request and the list after it.              *)
LEMMA ActBegins ==
  ASSUME ShellInv, NEW cmd \in Order, Act(cmd)
  PROVE  ShellInv'
<1> DEFINE k == Task(<<cmd, Fetch>>, {})
<1>1. <<cmd, Fetch>> \in Seq(Order)
  BY Commands
<1>2. {} \in Optional(Scenario) /\ {} \in Optional(ListOf)
  BY OptionalIsSubset
<1>3. k \in ShellTask /\ ~k.clean /\ k.plan = <<cmd, Fetch>>
  BY <1>1, <1>2 DEF Task, ShellTask
<1>4. Begin(k)
  BY DEF Act
<1> HIDE DEF k
<1>5. ReadsForTarget(k)
  BY <1>1, <1>3, Commands DEF ReadsForTarget
<1> QED
  BY <1>3, <1>4, <1>5, OneTaskBegins

(* A switch begins with a list and for a target.                           *)
LEMMA SwitchBegins ==
  ASSUME ShellInv, NEW s \in Scenario, SwitchTo(s)
  PROVE  ShellInv'
<1> DEFINE k == Task(<<ReadFirst>>, {s})
<1>1. {s} \in Optional(Scenario) /\ {} \in Optional(ListOf)
  BY OptionalIsSubset
<1>2. k \in ShellTask /\ ~k.clean /\ k.target # {}
  BY <1>1 DEF Task, ShellTask
<1>3. Begin(k)
  BY DEF SwitchTo, ReadFirst
<1> HIDE DEF k
<1> QED
  BY <1>2, <1>3, OneTaskBegins DEF ReadsForTarget

(* The page opens with no task under way.                                  *)
LEMMA ShellStarts == ShellInit => ShellInv
<1> SUFFICES ASSUME ShellInit PROVE ShellInv
  OBVIOUS
<1>1. stage \in ListOf
  BY ShellAssumption DEF ShellInit, ListOf, Stage
<1>2. tasks = << >> /\ tasks \in Seq(ShellTask) /\ DOMAIN tasks = {} /\ Len(tasks) = 0
  BY DEF ShellInit
<1>3. TasksOK
  BY <1>2 DEF TasksOK
<1>4. ListsOK
  BY OptionalIsSubset DEF ShellInit, ListsOK
<1>5. MaxTasks \in Nat /\ MaxTroubles \in Nat
  BY ShellAssumption
<1> QED
  BY <1>1, <1>2, <1>3, <1>4, <1>5 DEF ShellInit, ShellInv

(* Every step of the shell keeps the tasks in order.                       *)
LEMMA ShellStays == ShellInv /\ [ShellNext]_shellVars => ShellInv'
<1> SUFFICES ASSUME ShellInv, [ShellNext]_shellVars PROVE ShellInv'
  OBVIOUS
<1>1. /\ stage \in ListOf /\ Len(tasks) <= MaxTasks /\ TasksOK /\ ListsOK
      /\ tzMode \in {"local", "utc"} /\ troubles \in 0 .. MaxTroubles
      /\ MaxTroubles \in Nat /\ {stage} \in Optional(ListOf)
      /\ {} \in Optional(ListOf)
  BY ShellAssumption, OptionalIsSubset DEF ShellInv
<1>2. Trouble => troubles' \in 0 .. MaxTroubles
  BY <1>1 DEF Trouble
<1>3. UNCHANGED <<stage, tasks>> => TasksOK'
  BY <1>1 DEF TasksOK
<1>4. ASSUME NEW cmd \in Order, cmd.op \in Writes, OtherClient(cmd) PROVE ShellInv'
  <2>1. stage' \in ListOf /\ TasksOK' /\ Len(tasks') = Len(tasks)
    BY <1>4, OtherClientKeepsTasks
  <2>2. UNCHANGED <<shown, poll, tzMode>> /\ troubles' \in 0 .. MaxTroubles
    BY <1>2, <1>4 DEF OtherClient, zone
  <2> QED
    BY <1>1, <2>1, <2>2 DEF ShellInv, ListsOK
<1>5. \A s \in Scenario :
        \A op \in {"start", "stop", "next", "prev"} :
          Command(op, s, 0) \in Order /\ Command(op, s, 0).op \in Writes
  BY DEF Command, Order, Writes
<1>6. \A s \in Scenario : \A i \in Stage :
        Command("jump", s, i) \in Order /\ Command("jump", s, i).op \in Writes
  BY DEF Command, Order, Writes
<1>7. CASE \E s \in Scenario, op \in {"start", "stop", "next", "prev"} :
             OtherClient(Command(op, s, 0))
  BY <1>4, <1>5, <1>7
<1>8. ASSUME NEW s \in Scenario, NEW i \in Stage, Advance(s, i) PROVE ShellInv'
  <2>1. stage' \in ListOf
    BY <1>1, <1>8 DEF Advance, ListOf
  <2>2. \A r \in Scenario : stage'[r] = IF r = s THEN i ELSE stage[r]
    BY <1>1, <1>8 DEF Advance, ListOf
  <2>3. i # Idle /\ stage[s] # Idle
    BY <1>8 DEF Advance, Stage, Idle
  <2>4. Active(stage') = Active(stage)
    BY <2>2, <2>3 DEF Active
  <2>5. UNCHANGED <<shown, tasks, poll, tzMode>> /\ troubles' \in 0 .. MaxTroubles
    BY <1>2, <1>8 DEF Advance, zone
  <2>6. TasksOK'
    BY <1>1, <2>4, <2>5 DEF TasksOK
  <2> QED
    BY <1>1, <2>1, <2>5, <2>6 DEF ShellInv, ListsOK
<1>9. CASE \E s \in Scenario, i \in Stage : OtherClient(Command("jump", s, i)) \/ Advance(s, i)
  BY <1>4, <1>6, <1>8, <1>9
<1>10. CASE \E s \in Scenario : PickStart(s) \/ Step(s) \/ StopIt(s) \/ SwitchTo(s)
  <2>1. PICK s \in Scenario : PickStart(s) \/ Step(s) \/ StopIt(s) \/ SwitchTo(s)
    BY <1>10
  <2>2. CASE PickStart(s)
    BY <1>5, <2>2, ActBegins DEF PickStart
  <2>3. CASE Step(s)
    BY <1>5, <2>3, ActBegins DEF Step
  <2>4. CASE StopIt(s)
    BY <1>5, <2>4, ActBegins DEF StopIt
  <2>5. CASE SwitchTo(s)
    BY <2>5, SwitchBegins
  <2> QED BY <2>1, <2>2, <2>3, <2>4, <2>5
<1>11. CASE \E s \in Scenario, i \in Stage : JumpTo(s, i)
  BY <1>6, <1>11, ActBegins DEF JumpTo
<1>12. ASSUME NEW t \in DOMAIN tasks, Handle(t) PROVE ShellInv'
  <2>1. stage' \in ListOf /\ TasksOK' /\ Len(tasks') = Len(tasks)
    BY <1>12, HandleKeepsTasks
  <2>2. UNCHANGED <<shown, poll, tzMode, troubles>>
    BY <1>12 DEF Handle, zone
  <2> QED
    BY <1>1, <2>1, <2>2 DEF ShellInv, ListsOK
<1>13. ASSUME NEW t \in DOMAIN tasks, ServeList(t) PROVE ShellInv'
  <2>1. TasksOK' /\ Len(tasks') = Len(tasks)
    BY <1>13, ServeListKeepsTasks
  <2>2. UNCHANGED <<stage, shown, poll, tzMode, troubles>>
    BY <1>13 DEF ServeList, zone
  <2> QED
    BY <1>1, <2>1, <2>2 DEF ShellInv, ListsOK
<1>14. ASSUME NEW t \in DOMAIN tasks, TakeList(t) PROVE ShellInv'
  <2>1. TasksOK' /\ Len(tasks') = Len(tasks) /\ shown' \in Optional(ListOf)
    BY <1>14, TakeListKeepsTasks
  <2>2. UNCHANGED <<stage, poll, tzMode, troubles>>
    BY <1>14 DEF TakeList, zone
  <2> QED
    BY <1>1, <2>1, <2>2 DEF ShellInv, ListsOK
<1>15. ASSUME NEW t \in DOMAIN tasks, Lose(t) PROVE ShellInv'
  <2>1. TasksOK' /\ Len(tasks') = Len(tasks)
    BY <1>15, LoseKeepsTasks
  <2>2. UNCHANGED <<stage, shown, poll, tzMode>> /\ troubles' \in 0 .. MaxTroubles
    BY <1>2, <1>15 DEF Lose, zone
  <2> QED
    BY <1>1, <2>1, <2>2 DEF ShellInv, ListsOK
<1>16. CASE PollAsk \/ PollServe \/ PollTake \/ PollLose
  <2>1. /\ UNCHANGED <<stage, tasks, tzMode>> /\ troubles' \in 0 .. MaxTroubles
        /\ shown' = shown \/ shown' = poll.list
        /\ \/ poll' = [at |-> "asked", list |-> {}]
           \/ poll' = [at |-> "asleep", list |-> {}]
           \/ poll' = [at |-> "answered", list |-> {stage}]
    BY <1>1, <1>2, <1>16
    DEF PollAsk, PollServe, PollTake, PollLose, Polled, unpolled, zone
  <2>2. ListsOK'
    <3>1. shown' \in Optional(ListOf)
      BY <1>1, <2>1 DEF ListsOK
    <3>2. poll' \in [at: {"asleep", "asked", "answered"}, list: Optional(ListOf)]
      <4> DEFINE O == Optional(ListOf)
      <4>1. {} \in O /\ {stage} \in O
        BY <1>1
      <4> HIDE DEF O
      <4>2. poll' \in [at: {"asleep", "asked", "answered"}, list: O]
        BY <2>1, <4>1
      <4> QED
        BY <4>2 DEF O
    <3> QED
      BY <3>1, <3>2 DEF ListsOK
  <2> QED
    BY <1>1, <1>3, <2>1, <2>2 DEF ShellInv
<1>17. CASE ClockAnswered \/ ClockLost \/ ToggleZone
  <2>1. /\ UNCHANGED <<stage, shown, tasks, poll>> /\ tzMode' \in {"local", "utc"}
        /\ troubles' \in 0 .. MaxTroubles
    BY <1>1, <1>2, <1>17 DEF ClockAnswered, ClockLost, ToggleZone, commands
  <2> QED
    BY <1>1, <1>3, <2>1 DEF ShellInv, ListsOK
<1>18. CASE UNCHANGED shellVars
  BY <1>1, <1>3, <1>18 DEF shellVars, zone, ShellInv, ListsOK
<1> QED
  BY <1>7, <1>9, <1>10, <1>11, <1>12, <1>13, <1>14, <1>15, <1>16, <1>17, <1>18 DEF ShellNext

(* The inductive invariant of the shell.                                   *)
THEOREM ShellInvariant == ShellSpec => []ShellInv
BY ShellStarts, ShellStays, PTL DEF ShellSpec

(* However lists, commands, losses and other clients cross: a switch that  *)
(* nobody came between leaves its target running and nothing else          *)
(* (web/src/panels/scenarios.rs).                                          *)
THEOREM ShellStaysConsistent == ShellSpec => []ShellConsistent
<1>1. ASSUME ShellInv PROVE ShellTypeOK
  <2>1. shown \in Optional(ListOf)
    BY <1>1 DEF ShellInv, ListsOK
  <2>2. Cardinality(shown) <= 1
    <3>1. shown = {} \/ \E list : shown = {list}
      BY <2>1 DEF Optional
    <3>2. CASE shown = {}
      BY <3>2, FS_EmptySet
    <3>3. CASE \E list : shown = {list}
      <4>1. PICK list : shown = {list}
        BY <3>3
      <4>2. Cardinality({list}) = 1
        BY FS_Singleton
      <4> QED
        BY <4>1, <4>2
    <3> QED
      BY <3>1, <3>2, <3>3
  <2> QED
    BY <1>1, <2>2 DEF ShellInv, ShellTypeOK, ListsOK, ListOf
<1>2. ASSUME ShellInv PROVE LoneSwitchLeavesTarget
  <2> SUFFICES ASSUME NEW t \in DOMAIN tasks, tasks[t].clean,
                      tasks[t].plan = << >> \/ Waits(t, {"fetch"})
               PROVE  Active(stage) = tasks[t].target
    BY DEF LoneSwitchLeavesTarget
  <2>1. PICK s \in Scenario :
          /\ tasks[t].target = {s}
          /\ \/ HasItsList(tasks[t], Active(stage)) \/ HasToStop(tasks[t], s, Active(stage))
             \/ HasToStart(tasks[t], s, Active(stage)) \/ IsDone(tasks[t], s, Active(stage))
    BY <1>2 DEF ShellInv, TasksOK, OnItsWay
  <2>2. /\ tasks[t].plan = <<ReadFirst>> => tasks[t].plan # << >> /\ tasks[t].plan[1].op = "list"
        /\ \A a, b, c : tasks[t].plan = <<StopOne(a), b, c>> =>
             tasks[t].plan # << >> /\ tasks[t].plan[1].op = "stop"
        /\ \A a, b : tasks[t].plan = <<StartOne(a), b>> =>
             tasks[t].plan # << >> /\ tasks[t].plan[1].op = "start"
    BY SMTT(20), ZenonT(20) DEF StopOne, StartOne, ReadFirst, Command
  <2>3. IsDone(tasks[t], s, Active(stage))
    BY <2>1, <2>2 DEF HasItsList, HasToStop, HasToStart, Waits
  <2> QED
    BY <2>1, <2>3 DEF IsDone
<1> QED
  BY <1>1, <1>2, ShellInvariant, PTL DEF ShellConsistent
=============================================================================
