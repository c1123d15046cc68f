---------------------------- MODULE PricingProofs ---------------------------
(***************************************************************************)
(* What the functions of Tables promise for every argument, what the maker *)
(* and the aggressor of Quoting do with them for every recipe, price, tick *)
(* and walk, and what the bias tick of Scenarios does for any scenarios,   *)
(* stages, locations and hours.                                            *)
(***************************************************************************)
EXTENDS Quoting, Scenarios, FiniteSetTheorems, WellFoundedInduction, TLAPS

-----------------------------------------------------------------------------
(* Integer division, as the provers need it told.                          *)
IsQuotient(q, m, d) == q \in Int /\ q * d <= m /\ m < q * d + d

(* The quotient of two integers is one. *)
LEMMA Quotient ==
  ASSUME NEW m \in Int, NEW d \in Nat \ {0}
  PROVE  IsQuotient(m \div d, m, d)
  BY SMTT(30) DEF IsQuotient

(* Division is monotonic in the dividend. *)
LEMMA QuotientGrows ==
  ASSUME NEW m \in Int, NEW k \in Int, NEW d \in Nat \ {0}, m <= k
  PROVE  m \div d <= k \div d
<1>1. IsQuotient(m \div d, m, d) /\ IsQuotient(k \div d, k, d)
  BY Quotient
<1> DEFINE q == m \div d  r == k \div d
<1>2. q \in Int /\ r \in Int /\ q * d < r * d + d
  BY <1>1 DEF IsQuotient
<1> HIDE DEF q, r
<1>3. q <= r
  BY <1>2, SMTT(30)
<1> QED
  BY <1>3 DEF q, r

-----------------------------------------------------------------------------
(* A snapped price is on the grid: the exchange will not refuse it as off  *)
(* the grid (snap_to_tick and is_multiple_of, src/sim/decimal.rs).         *)
THEOREM SnapIsOnGrid ==
  ASSUME NEW x \in Int, NEW tick \in Nat \ {0}
  PROVE  /\ SnapToTick(x, tick) \in Int
         /\ IsMultipleOf(SnapToTick(x, tick), tick)
<1> DEFINE k == Sign(x) * ((2 * Abs(x) + tick) \div (2 * tick))
<1>1. k \in Int
  BY DEF Sign, Abs
<1>2. SnapToTick(x, tick) = k * tick
  BY DEF SnapToTick
<1> HIDE DEF k
<1>3. k * tick \in Int /\ (k * tick) % tick = 0
  BY <1>1, SMTT(30)
<1> QED
  BY <1>2, <1>3 DEF IsMultipleOf

(* Nor is it far: half a tick at most lies between a price and its snap.   *)
THEOREM SnapIsNearest ==
  ASSUME NEW x \in Int, NEW tick \in Nat \ {0}
  PROVE  2 * Abs(SnapToTick(x, tick) - x) <= tick
<1> DEFINE m == 2 * Abs(x) + tick
           q == m \div (2 * tick)
<1>1. m \in Int /\ Abs(x) \in Nat /\ 2 * tick \in Nat \ {0}
  BY DEF Abs
<1>2. q \in Int /\ q * (2 * tick) <= m /\ m < q * (2 * tick) + 2 * tick
  <2> HIDE DEF m
  <2> QED BY <1>1, Quotient DEF IsQuotient
<1>3. SnapToTick(x, tick) = Sign(x) * q * tick
  BY DEF SnapToTick
<1> HIDE DEF q
<1>4. q * tick \in Int /\ q * (2 * tick) = 2 * (q * tick)
  BY <1>2
<1> DEFINE p == q * tick
<1>5. p \in Int /\ 2 * p <= 2 * Abs(x) + tick /\ 2 * Abs(x) + tick < 2 * p + 2 * tick
  BY <1>2, <1>4
<1>6. SnapToTick(x, tick) = IF x < 0 THEN -p ELSE p
  <2>1. CASE x < 0
    BY <2>1, <1>2, <1>3 DEF Sign
  <2>2. CASE ~(x < 0)
    BY <2>2, <1>2, <1>3 DEF Sign
  <2> QED BY <2>1, <2>2
<1> HIDE DEF p
<1> QED
  BY <1>5, <1>6 DEF Abs

-----------------------------------------------------------------------------
(* The next boundary is ahead, at most a quarter of an hour, and a quarter *)
(* that starts there is aligned (next_quarter_boundary, src/lisp/mod.rs,   *)
(* and is_aligned, src/sim/market.rs): the contracts a fleet computes are  *)
(* ones the exchange accepts.                                              *)
THEOREM BoundaryIsNextQuarter ==
  ASSUME NEW t \in Nat
  PROVE  /\ t < NextQuarterBoundary(t) /\ NextQuarterBoundary(t) <= t + 900
         /\ IsAligned(NextQuarterBoundary(t), 15)
<1> DEFINE k == t \div 900
<1>1. k \in Int /\ k * 900 <= t /\ t < k * 900 + 900
  OBVIOUS
<1>2. NextQuarterBoundary(t) = k * 900 + 900
  BY DEF NextQuarterBoundary
<1> HIDE DEF k
<1> QED
  BY <1>1, <1>2 DEF IsAligned

-----------------------------------------------------------------------------
(* However far a contract drifts past its window, or is past its start,    *)
(* its band exists: the lookup never leaves the table (band_for,           *)
(* src/sim/counterparty.rs).                                               *)
THEOREM BandIsInTable ==
  ASSUME NEW offset \in Int, NEW window \in Int, NEW bands \in Nat \ {0}
  PROVE  BandIndex(offset, bands, window) \in 0 .. bands - 1
  BY DEF BandIndex, Clamp, Higher

(* A contract keeps its band or moves to an earlier one as its delivery    *)
(* comes closer: "A contract enters at the back band, tightens its spread  *)
(* and grows its size as it ages forward" (sim/common.lisp).               *)
THEOREM BandsMoveForward ==
  ASSUME NEW near \in Int, NEW far \in Int, near <= far,
         NEW window \in Int, NEW bands \in Nat \ {0}
  PROVE  BandIndex(near, bands, window) <= BandIndex(far, bands, window)
<1> DEFINE n == Higher(0, near)  f == Higher(0, far)  w == Higher(1, window)
<1>1. n \in Nat /\ f \in Nat /\ n <= f /\ w \in Nat \ {0}
  BY DEF Higher
<1> HIDE DEF n, f, w
<1>2. n * bands \in Int /\ f * bands \in Int /\ n * bands <= f * bands
  BY <1>1, SMTT(30)
<1>3. (n * bands) \div w <= (f * bands) \div w
  BY <1>1, <1>2, QuotientGrows
<1>4. (n * bands) \div w \in Int /\ (f * bands) \div w \in Int
  BY <1>1, <1>2
<1> QED
  BY <1>3, <1>4 DEF BandIndex, Clamp, n, f, w

(* Near delivery an aggressor fires up to three times as often, and never  *)
(* less often than its rate or more often than every 50 ms                 *)
(* (gate_close_scale and run_aggressor_contract).                          *)
THEOREM GateScaleIsBounded ==
  ASSUME NEW gate \in Int, NEW t \in Int
  PROVE  /\ GateCloseScale(gate, t) >= 7200 /\ GateCloseScale(gate, t) <= 21600
         /\ \A later \in Int : t <= later =>
              GateCloseScale(gate, t) <= GateCloseScale(gate, later)
<1> DEFINE Near(u) == Clamp(7200 - Higher(0, gate - u), 0, 7200)
<1>1. ASSUME NEW s \in Int, NEW u \in Int, s <= u
      PROVE  Near(s) \in Nat /\ Near(s) <= 7200 /\ Near(s) <= Near(u)
  <2> DEFINE x == Higher(0, gate - s)  y == Higher(0, gate - u)
  <2>1. x \in Nat /\ y \in Nat /\ y <= x
    BY <1>1 DEF Higher
  <2> HIDE DEF x, y
  <2>2. Clamp(7200 - x, 0, 7200) \in Nat /\ Clamp(7200 - x, 0, 7200) <= 7200
    BY <2>1 DEF Clamp
  <2>3. Clamp(7200 - x, 0, 7200) <= Clamp(7200 - y, 0, 7200)
    BY <2>1 DEF Clamp
  <2> QED
    BY <2>2, <2>3 DEF x, y
<1>2. ASSUME NEW u \in Int PROVE GateCloseScale(gate, u) = 7200 + 2 * Near(u)
  BY DEF GateCloseScale
<1> HIDE DEF Near
<1>3. GateCloseScale(gate, t) >= 7200 /\ GateCloseScale(gate, t) <= 21600
  <2>1. t <= t
    OBVIOUS
  <2>2. Near(t) \in Nat /\ Near(t) <= 7200
    BY <1>1, <2>1
  <2>3. GateCloseScale(gate, t) = 7200 + 2 * Near(t)
    BY <1>2
  <2> QED
    BY <2>2, <2>3
<1>4. ASSUME NEW later \in Int, t <= later
      PROVE  GateCloseScale(gate, t) <= GateCloseScale(gate, later)
  <2>1. later <= later
    OBVIOUS
  <2>2. Near(t) \in Nat /\ Near(later) \in Nat /\ Near(t) <= Near(later)
    BY <1>1, <1>4, <2>1
  <2>3. GateCloseScale(gate, t) = 7200 + 2 * Near(t)
    BY <1>2
  <2>4. GateCloseScale(gate, later) = 7200 + 2 * Near(later)
    BY <1>2
  <2> QED
    BY <2>2, <2>3, <2>4
<1> QED
  BY <1>3, <1>4

-----------------------------------------------------------------------------
(* An interpolation stays between its ends (lerp, src/sim/demand.rs and    *)
(* src/sim/curve.rs).                                                      *)
THEOREM LerpIsBetween ==
  ASSUME NEW a \in Int, NEW b \in Int, NEW d \in Nat \ {0}, NEW n \in 0 .. d
  PROVE  /\ Lerp(a, b, n, d) \in Int
         /\ Lower(a, b) <= Lerp(a, b, n, d)
         /\ Lerp(a, b, n, d) <= Higher(a, b)
<1> DEFINE g == b - a
           m == g * n
           q == m \div d
<1>1. g \in Int /\ n \in Nat /\ n <= d
  OBVIOUS
<1>2. m \in Int
  BY <1>1
<1>3. q \in Int /\ q * d <= m /\ m < q * d + d
  <2> HIDE DEF m
  <2> QED BY <1>2, Quotient DEF IsQuotient
<1>4. Lerp(a, b, n, d) = a + q
  BY DEF Lerp
<1> HIDE DEF q
<1>5. CASE g >= 0
  <2>1. 0 <= m /\ m <= g * d
    <3> HIDE DEF g
    <3> QED BY <1>1, <1>5, SMTT(30)
  <2> HIDE DEF g, m
  <2>2. 0 <= q
    BY <1>1, <1>2, <1>3, <2>1, SMTT(30)
  <2>3. q <= g
    BY <1>1, <1>2, <1>3, <2>1, SMTT(30)
  <2> QED
    BY <1>3, <1>4, <1>5, <2>2, <2>3 DEF g, Lower, Higher
<1>6. CASE g < 0
  <2>1. g * d <= m /\ m <= 0
    <3> HIDE DEF g
    <3> QED BY <1>1, <1>6, SMTT(30)
  <2> HIDE DEF g, m
  <2>2. q <= 0
    BY <1>1, <1>2, <1>3, <2>1, SMTT(30)
  <2>3. g <= q
    BY <1>1, <1>2, <1>3, <2>1, SMTT(30)
  <2> QED
    BY <1>3, <1>4, <1>6, <2>2, <2>3 DEF g, Lower, Higher
<1> QED
  BY <1>1, <1>5, <1>6

(* A stage's bias stays between the two it is defined with, also when the  *)
(* operator holds the stage longer than it lasts or the clock is outside   *)
(* its hours (stage_bias_now, src/scenarios.rs).                           *)
THEOREM StageBiasIsBetween ==
  ASSUME NEW from \in Int, NEW to \in Int, NEW elapsed \in Int, NEW length \in Int
  PROVE  /\ Lower(from, to) <= StageBias(from, to, elapsed, length)
         /\ StageBias(from, to, elapsed, length) <= Higher(from, to)
<1> DEFINE d == Higher(1, length)  n == Clamp(elapsed, 0, d)
<1>1. d \in Nat \ {0} /\ n \in 0 .. d
  BY DEF Higher, Clamp
<1>2. StageBias(from, to, elapsed, length) = Lerp(from, to, n, d)
  BY DEF StageBias
<1> HIDE DEF d, n
<1> QED
  BY <1>1, <1>2, LerpIsBetween

(* The curve's price at any minute lies between the anchors around it, and *)
(* at a full hour is the anchor (point_at, src/sim/curve.rs).              *)
THEOREM CurveIsBetweenAnchors ==
  ASSUME NEW anchors \in Anchors, NEW minute \in Int
  PROVE  \E lo \in 0 .. 23 :
           /\ Lower(anchors[lo], anchors[lo + 1]) <= PointAt(anchors, minute)
           /\ PointAt(anchors, minute) <= Higher(anchors[lo], anchors[lo + 1])
<1> DEFINE h == minute % 1440  lo == h \div 60  n == h % 60
<1>1. h \in 0 .. 1439
  OBVIOUS
<1>2. PointAt(anchors, minute) = Lerp(anchors[lo], anchors[lo + 1], n, 60)
  BY DEF PointAt
<1> HIDE DEF h
<1>3. lo \in 0 .. 23 /\ n \in 0 .. 60
  BY <1>1
<1> HIDE DEF lo, n
<1>4. anchors[lo] \in Int /\ anchors[lo + 1] \in Int
  BY <1>3 DEF Anchors
<1>5. /\ Lower(anchors[lo], anchors[lo + 1]) <= PointAt(anchors, minute)
      /\ PointAt(anchors, minute) <= Higher(anchors[lo], anchors[lo + 1])
  BY <1>2, <1>3, <1>4, LerpIsBetween
<1> QED
  BY <1>3, <1>5

(* Whatever anchors a configuration overrides, midnight has one price      *)
(* (set_base_price_at, src/sim/curve.rs).                                  *)
THEOREM CurveStaysCyclic ==
  ASSUME NEW anchors \in Anchors, anchors[0] = anchors[24],
         NEW h \in 0 .. 24, NEW price \in Int
  PROVE  LET changed == SetBasePriceAt(anchors, h, price) IN
         /\ changed \in Anchors
         /\ changed[0] = changed[24]
         /\ changed[h] = price
<1> DEFINE changed == SetBasePriceAt(anchors, h, price)
<1>1. changed = [i \in 0 .. 24 |->
                   IF i = h \/ {i, h} = {0, 24} THEN price ELSE anchors[i]]
  BY DEF SetBasePriceAt
<1> HIDE DEF changed
<1>2. changed \in Anchors /\ changed[h] = price
  BY <1>1 DEF Anchors
<1>3. \A i \in {0, 24} :
        changed[i] = IF h \in {0, 24} THEN price ELSE anchors[i]
  <2> SUFFICES ASSUME NEW i \in {0, 24}
               PROVE  changed[i] = IF h \in {0, 24} THEN price ELSE anchors[i]
    OBVIOUS
  <2>1. (i = h \/ {i, h} = {0, 24}) <=> h \in {0, 24}
    BY Zenon
  <2> QED
    BY <1>1, <2>1
<1> QED
  BY <1>2, <1>3 DEF changed

-----------------------------------------------------------------------------
(* The state of one contract's pricing.  Beside what the run checks: the   *)
(* tick's half-done write is one of its own, and a step in progress has    *)
(* copied a config.                                                        *)
BiasUnderWay == biasing \in [baseline: Fundamentals, tilt: Tilts] \cup {Nothing}
CopyIsConfig == step = "write" => known \in ConfigType

QuotingInv ==
  TypeOK /\ BiasUnderWay /\ CopyIsConfig /\ BiasIsKept

(* A maker's half-spread is a number, as what else its recipe stamps.      *)
LEMMA RecipeStamps ==
  ASSUME NEW r \in Recipes, NEW q \in Int
  PROVE  /\ BandFor(r.spreads, q, Window) \in Nat
         /\ r.onGrid \in BOOLEAN /\ r.follow \in 0 .. FollowOf
<1>1. /\ r.spreads \in Seq(Nat) /\ r.spreads # <<>> /\ r.onGrid \in BOOLEAN
      /\ r.follow \in 0 .. FollowOf
  BY QuotingAssumption
<1>2. /\ Len(r.spreads) \in Nat \ {0} /\ DOMAIN r.spreads = 1 .. Len(r.spreads)
      /\ Window \in Int
  BY <1>1, QuotingAssumption
<1> DEFINE bands == Len(r.spreads)
<1>3. BandIndex(q, bands, Window) \in 0 .. bands - 1
  <2> HIDE DEF bands
  <2> QED BY <1>2, BandIsInTable DEF bands
<1>4. BandIndex(q, Len(r.spreads), Window) + 1 \in DOMAIN r.spreads
  BY <1>2, <1>3
<1> QED
  BY <1>1, <1>2, <1>4 DEF BandFor

(* More times as much is more. *)
LEMMA MoreOfMore ==
  ASSUME NEW x \in Int, NEW y \in Int, x <= y, NEW t \in Nat
  PROVE  x * t <= y * t
<1>1. PICK e \in Nat : y = x + e
  <2>1. y - x \in Nat /\ y = x + (y - x)
    OBVIOUS
  <2> QED BY <2>1
<1>2. (x + e) * t = x * t + e * t
  BY SMTT(20)
<1>3. e * t \in Nat /\ x * t \in Int
  BY SMTT(20)
<1> DEFINE u == x * t  v == e * t
<1>4. u \in Int /\ v \in Nat /\ y * t = u + v
  BY <1>1, <1>2, <1>3
<1> HIDE DEF u, v
<1>5. u <= y * t
  BY <1>4
<1> QED BY <1>5 DEF u

(* What is taken of a gap is no more than the gap, on the same side.       *)
LEMMA PartOfGap ==
  ASSUME NEW gap \in Int, NEW d \in Nat \ {0}, NEW n \in 0 .. d
  PROVE  /\ Part(gap, n, d) \in Int
         /\ gap >= 0 => 0 <= Part(gap, n, d) /\ Part(gap, n, d) <= gap
         /\ gap <= 0 => gap <= Part(gap, n, d) /\ Part(gap, n, d) <= 0
         /\ d * Abs(Part(gap, n, d)) <= n * Abs(gap)
<1> DEFINE m == Abs(gap)  z == n * m  q == z \div d
<1>1. m \in Nat /\ (gap >= 0 => m = gap) /\ (gap < 0 => m = -gap)
  BY DEF Abs
<1>2. n \in Nat /\ n <= d
  OBVIOUS
<1>3. z \in Nat /\ z <= d * m
  <2> HIDE DEF m
  <2>1. n * m \in Nat
    BY <1>1, <1>2, SMTT(20)
  <2>2. n * m <= d * m
    BY <1>1, <1>2, MoreOfMore
  <2> QED BY <2>1, <2>2
<1>4. q \in Int /\ q * d <= z /\ z < q * d + d
  <2> HIDE DEF z
  <2> QED BY <1>3, Quotient DEF IsQuotient
<1>5. Part(gap, n, d) = IF gap < 0 THEN -q ELSE q
  BY <1>4 DEF Part, Sign
<1> HIDE DEF m, z, q
<1>6. 0 <= q
  BY <1>3, <1>4, SMTT(30)
<1>7. q <= m
  <2> SUFFICES ASSUME m + 1 <= q PROVE FALSE
    BY <1>1, <1>4
  <2>1. (m + 1) * d <= q * d
    BY <1>1, <1>4, MoreOfMore
  <2>2. (m + 1) * d = d * m + d
    BY <1>1, SMTT(20)
  <2> DEFINE x == d * m  y == q * d
  <2>3. x \in Int /\ y \in Int /\ x + d <= y /\ y <= z /\ z <= x
    BY <1>1, <1>3, <1>4, <2>1, <2>2, SMTT(20)
  <2> HIDE DEF x, y
  <2> QED BY <1>3, <2>3
<1>8. Abs(Part(gap, n, d)) = q
  BY <1>4, <1>5, <1>6 DEF Abs
<1>9. d * q <= n * m
  <2>1. d * q = q * d
    BY <1>4
  <2> QED BY <1>4, <2>1 DEF z
<1> QED
  BY <1>1, <1>4, <1>5, <1>6, <1>7, <1>8, <1>9 DEF m

(* Pricing starts with fundamentals, a recipe's spread and an empty book.  *)
LEMMA QuotingStarts == Init => QuotingInv
<1> SUFFICES ASSUME Init PROVE QuotingInv
  OBVIOUS
<1>1. PICK f \in Fundamentals :
        /\ config = [baseline |-> f, reference |-> f, tilt |-> 0,
                     spread |-> BandFor(recipe.spreads, quarters, Window),
                     onGrid |-> recipe.onGrid, follow |-> recipe.follow]
        /\ fair = f /\ told = [baseline |-> f, tilt |-> 0]
  BY DEF Init
<1>2. recipe \in Recipes /\ quarters \in 0 .. Window - 1 /\ f \in Int
  BY QuotingAssumption DEF Init
<1>3. /\ BandFor(recipe.spreads, quarters, Window) \in Nat
      /\ recipe.onGrid \in BOOLEAN /\ recipe.follow \in 0 .. FollowOf
  BY <1>2, RecipeStamps
<1>4. config \in ConfigType
  BY <1>1, <1>2, <1>3 DEF ConfigType
<1>5. TypeOK
  BY <1>1, <1>2, <1>4 DEF Init, TypeOK, Price
<1> QED
  BY <1>1, <1>5 DEF Init, QuotingInv, BiasUnderWay, CopyIsConfig, BiasIsKept

(* What an order on one side meets first is a price, or nothing.           *)
LEMMA BestIsPrice ==
  ASSUME TypeOK, NEW side \in Side
  PROVE  Best(side) \in Price
BY QuotingAssumption DEF TypeOK, Best, Price, Lower, Higher, Side

(* Taking the best order keeps the book's types. *)
LEMMA TakeKeepsBook ==
  ASSUME TypeOK, NEW side \in Side, Take(side), Best(side) # Nothing
  PROVE  /\ \A p \in {bid', ask'} \ {Nothing} : p \in Int /\ p % Tick = 0
         /\ last' \in Price
         /\ stray' = Nothing \/ stray' \in [side: Side, price: UserPrices]
<1>1. last' \in Price
  BY BestIsPrice DEF Take, Printed
<1>2. CASE stray # Nothing /\ stray.side # side /\ stray.price = Best(side)
  BY <1>1, <1>2 DEF Take, TypeOK
<1>3. CASE ~(stray # Nothing /\ stray.side # side /\ stray.price = Best(side))
  BY <1>1, <1>3 DEF Take, TypeOK
<1> QED
  BY <1>2, <1>3

(* Posting keeps the book's types: both prices are on the grid.            *)
LEMMA PostKeepsBook ==
  ASSUME QuotingInv, Post
  PROVE  /\ \A p \in {bid', ask'} \ {Nothing} : p \in Int /\ p % Tick = 0
         /\ last' \in Price
         /\ stray' = Nothing \/ stray' \in [side: Side, price: UserPrices]
<1>1. /\ config.reference \in Int /\ config.spread \in Int /\ config.tilt \in Int
  BY DEF QuotingInv, TypeOK, ConfigType
<1>2. /\ BidPrice \in Int /\ BidPrice % Tick = 0
      /\ AskPrice \in Int /\ AskPrice % Tick = 0
  <2> DEFINE lo == config.reference - config.spread + config.tilt
             hi == config.reference + config.spread + config.tilt
  <2>1. lo \in Int /\ hi \in Int /\ Tick \in Nat \ {0}
    BY <1>1, QuotingAssumption
  <2>2. BidPrice = SnapToTick(lo, Tick) /\ AskPrice = SnapToTick(hi, Tick)
    BY DEF BidPrice, AskPrice, Snap
  <2> HIDE DEF lo, hi
  <2> QED
    BY <2>1, <2>2, SnapIsOnGrid DEF IsMultipleOf
<1>3. TypeOK /\ (stray # Nothing => stray.price \in Int)
  BY QuotingAssumption DEF QuotingInv, TypeOK
<1>4. CASE BidPrice >= AskPrice
  BY <1>3, <1>4 DEF Post, book, TypeOK
<1>5. CASE ~(BidPrice >= AskPrice) /\ ~Admitted(config.onGrid)
  BY <1>3, <1>5 DEF Post, book, TypeOK
<1>6. CASE ~(BidPrice >= AskPrice) /\ Admitted(config.onGrid)
  <2>1. CASE StrayCrosses("buy", BidPrice)
    BY <1>2, <1>3, <1>6, <2>1 DEF Post, TypeOK, Printed, StrayCrosses, Price
  <2>2. CASE ~StrayCrosses("buy", BidPrice) /\ StrayCrosses("sell", AskPrice)
    BY <1>2, <1>3, <1>6, <2>2 DEF Post, TypeOK, Printed, StrayCrosses, Price
  <2>3. CASE ~StrayCrosses("buy", BidPrice) /\ ~StrayCrosses("sell", AskPrice)
    BY <1>2, <1>3, <1>6, <2>3 DEF Post, TypeOK
  <2> QED BY <2>1, <2>2, <2>3
<1> QED
  BY <1>4, <1>5, <1>6

(* Every step keeps the invariant.                                         *)
LEMMA QuotingStays == QuotingInv /\ [Next]_vars => QuotingInv'
<1> SUFFICES ASSUME QuotingInv, [Next]_vars PROVE QuotingInv'
  OBVIOUS
<1> USE DEF QuotingInv
<1>1. ASSUME NEW f \in Fundamentals, NEW t \in Tilts, BiasAggressor(f, t)
      PROVE  QuotingInv'
  <2>1. biasing' \in [baseline: Fundamentals, tilt: Tilts]
    BY <1>1 DEF BiasAggressor
  <2>2. TypeOK'
    BY <1>1 DEF BiasAggressor, TypeOK, maker, book
  <2> QED
    BY <1>1, <2>1, <2>2 DEF BiasAggressor, BiasUnderWay, CopyIsConfig, BiasIsKept, maker, book
<1>2. CASE BiasMaker
  <2>1. biasing.baseline \in Int /\ biasing.tilt \in Int
    BY <1>2, QuotingAssumption DEF BiasMaker, BiasUnderWay
  <2>2. config \in ConfigType /\ config' \in ConfigType
    BY <1>2, <2>1 DEF BiasMaker, TypeOK, ConfigType
  <2>3. /\ config'.baseline = biasing.baseline /\ config'.tilt = biasing.tilt
    BY <1>2, <2>2 DEF BiasMaker, ConfigType
  <2>4. TypeOK'
    BY <1>2, <2>2 DEF BiasMaker, TypeOK, maker, book
  <2> QED
    BY <1>2, <2>3, <2>4 DEF BiasMaker, BiasUnderWay, CopyIsConfig, BiasIsKept, maker
<1>3. ASSUME NEW r \in Recipes, Reload(r) PROVE QuotingInv'
  BY <1>3 DEF Reload, TypeOK, BiasUnderWay, CopyIsConfig,
              BiasIsKept, maker, book
<1>4. CASE QuarterPasses
  <2>1. quarters' \in 0 .. Window - 1
    BY <1>4, QuotingAssumption DEF QuarterPasses, TypeOK
  <2> QED
    BY <1>4, <2>1 DEF QuarterPasses, TypeOK, BiasUnderWay, CopyIsConfig, BiasIsKept, maker, book
<1>5. ASSUME NEW s \in BOOLEAN, SetSuspended(s) PROVE QuotingInv'
  BY <1>5 DEF SetSuspended, TypeOK, BiasUnderWay, CopyIsConfig,
              BiasIsKept, maker, book
<1>6. CASE Stamp
  <2>1. recipe \in Recipes /\ quarters \in Int /\ config \in ConfigType
    BY DEF TypeOK
  <2>2. /\ BandFor(recipe.spreads, quarters, Window) \in Nat
        /\ recipe.onGrid \in BOOLEAN /\ recipe.follow \in 0 .. FollowOf
    BY <2>1, RecipeStamps
  <2>3. /\ config' \in ConfigType
        /\ config'.baseline = config.baseline /\ config'.tilt = config.tilt
    BY <1>6, <2>1, <2>2 DEF Stamp, ConfigType
  <2>4. TypeOK'
    BY <1>6, <2>3 DEF Stamp, TypeOK, book
  <2> QED
    BY <1>6, <2>3, <2>4 DEF Stamp, BiasUnderWay, CopyIsConfig, BiasIsKept
<1>7. CASE ReadConfig
  BY <1>7 DEF ReadConfig, TypeOK, BiasUnderWay, CopyIsConfig,
              BiasIsKept, book
<1>8. ASSUME NEW w \in Walk, StepReference(w) PROVE QuotingInv'
  <2>1. /\ known \in ConfigType /\ config \in ConfigType /\ w \in Int
        /\ last = Nothing \/ last \in Int
    BY <1>8, QuotingAssumption DEF StepReference, CopyIsConfig, TypeOK, Price
  <2>2. Stepped(w) \in Int
    <3>1. known.reference \in Int /\ known.baseline \in Int
      BY <2>1 DEF ConfigType
    <3>2. Part(known.baseline - known.reference, 1, MeanRevert) \in Int
      <4>1. /\ known.baseline - known.reference \in Int
            /\ MeanRevert \in Nat \ {0} /\ 1 \in 0 .. MeanRevert
        BY <3>1, QuotingAssumption
      <4> QED BY <4>1, PartOfGap
    <3>3. (IF last = Nothing THEN 0
           ELSE Part(last - known.reference, known.follow, FollowOf)) \in Int
      <4>1. CASE last # Nothing
        <5>1. /\ last - known.reference \in Int
              /\ FollowOf \in Nat \ {0} /\ known.follow \in 0 .. FollowOf
          BY <2>1, <3>1, <4>1, QuotingAssumption DEF ConfigType
        <5> QED BY <4>1, <5>1, PartOfGap
      <4> QED BY <4>1
    <3> QED
      BY <2>1, <3>1, <3>2, <3>3 DEF Stepped
  <2>3. /\ config' \in ConfigType
        /\ config'.baseline = config.baseline /\ config'.tilt = config.tilt
    BY <1>8, <2>1, <2>2 DEF StepReference, ConfigType
  <2>4. TypeOK'
    BY <1>8, <2>3 DEF StepReference, TypeOK, book
  <2> QED
    BY <1>8, <2>3, <2>4 DEF StepReference, BiasUnderWay, CopyIsConfig, BiasIsKept
<1>9. CASE Post
  <2>1. TypeOK'
    BY <1>9, PostKeepsBook DEF Post, TypeOK
  <2> QED
    BY <1>9, <2>1 DEF Post, BiasUnderWay, CopyIsConfig, BiasIsKept
<1>10. ASSUME NEW side \in Side, NEW p \in UserPrices, UserOrder(side, p)
       PROVE  QuotingInv'
  <2>1. TypeOK'
    <3>1. CASE Crosses(side, p, Best(side))
      BY <1>10, <3>1, TakeKeepsBook DEF UserOrder, Crosses, TypeOK, maker
    <3>2. CASE ~Crosses(side, p, Best(side))
      BY <1>10, <3>2 DEF UserOrder, TypeOK, maker
    <3> QED BY <3>1, <3>2
  <2> QED
    BY <1>10, <2>1 DEF UserOrder, BiasUnderWay, CopyIsConfig,
                       BiasIsKept, maker
<1>11. CASE UserCancels
  BY <1>11 DEF UserCancels, TypeOK, BiasUnderWay, CopyIsConfig,
               BiasIsKept, maker
<1>12. ASSUME NEW side \in Side, Fire(side) PROVE QuotingInv'
  <2>1. TypeOK'
    BY <1>12, TakeKeepsBook DEF Fire, Crosses, TypeOK, maker
  <2> QED
    BY <1>12, <2>1 DEF Fire, BiasUnderWay, CopyIsConfig,
                       BiasIsKept, maker
<1>13. CASE UNCHANGED vars
  BY <1>13 DEF vars, TypeOK, BiasUnderWay, CopyIsConfig,
               BiasIsKept, maker, book
<1> QED
  BY <1>1, <1>2, <1>3, <1>4, <1>5, <1>6, <1>7, <1>8, <1>9, <1>10, <1>11, <1>12, <1>13
  DEF Next

(* The inductive invariant of one contract's pricing. *)
THEOREM QuotingInvariant == Spec => []QuotingInv
BY QuotingStarts, QuotingStays, PTL DEF Spec

(* A bias tick in the middle of a refresh is not undone: the maker writes  *)
(* back its reference alone (step_reference, src/sim/counterparty.rs).     *)
THEOREM QuotingStaysConsistent == Spec => []QuotingConsistent
<1>1. QuotingInv => QuotingConsistent
  BY DEF QuotingInv, QuotingConsistent
<1> QED
  BY <1>1, QuotingInvariant, PTL

-----------------------------------------------------------------------------
(* Two fractions of two gaps, 1/R of a and f/G of c, that are the whole of *)
(* one gap at most add up to no more than the larger gap.                  *)
LEMMA TwoPulls ==
  ASSUME NEW p \in Nat, NEW q \in Nat, NEW a \in Nat, NEW c \in Nat,
         NEW R \in Nat \ {0}, NEW G \in Nat \ {0}, NEW f \in Nat,
         R * p <= a, G * q <= f * c, G + R * f <= R * G
  PROVE  p + q <= a \/ p + q <= c
<1> SUFFICES ASSUME NEW M \in Nat, a <= M, c <= M, M = a \/ M = c
             PROVE  p + q <= M
  <2>1. CASE a <= c  BY <2>1
  <2>2. CASE c <= a  BY <2>2
  <2> QED BY <2>1, <2>2
<1>1. p * (R * G) <= M * G
  <2>1. R * p \in Int /\ R * p <= M
    BY SMTT(20)
  <2>2. (R * p) * G <= M * G
    BY <2>1, MoreOfMore
  <2>3. (R * p) * G = p * (R * G)
    BY SMTT(20)
  <2> QED BY <2>2, <2>3
<1>2. q * (R * G) <= M * (R * f)
  <2>1. G * q \in Int /\ f * c \in Int /\ c * f <= M * f
    BY MoreOfMore, SMTT(20)
  <2>2. f * c = c * f
    OBVIOUS
  <2>3. M * f \in Int /\ G * q <= M * f
    BY <2>1, <2>2, SMTT(20)
  <2>4. (G * q) * R <= (M * f) * R
    BY <2>1, <2>3, MoreOfMore
  <2>5. (G * q) * R = q * (R * G)
    BY SMTT(20)
  <2>6. (M * f) * R = M * (R * f)
    BY SMTT(20)
  <2> QED BY <2>4, <2>5, <2>6
<1>3. (p + q) * (R * G) <= M * (R * G)
  <2>1. (p + q) * (R * G) = p * (R * G) + q * (R * G)
    BY SMTT(20)
  <2>2. M * G + M * (R * f) = (G + R * f) * M
    BY SMTT(20)
  <2>3. G + R * f \in Int /\ R * G \in Int
    BY SMTT(20)
  <2>4. (G + R * f) * M <= (R * G) * M
    BY <2>3, MoreOfMore
  <2>5. (R * G) * M = M * (R * G)
    BY SMTT(20)
  <2>6. /\ p * (R * G) \in Int /\ q * (R * G) \in Int
        /\ M * G \in Int /\ M * (R * f) \in Int
    BY SMTT(20)
  <2> DEFINE x == p * (R * G)  y == q * (R * G)  g == M * G  h == M * (R * f)
             w == M * (R * G)
  <2>7. x \in Int /\ y \in Int /\ g \in Int /\ h \in Int /\ x <= g /\ y <= h /\ g + h <= w
    BY <1>1, <1>2, <2>2, <2>4, <2>5, <2>6
  <2>8. w \in Int
    BY SMTT(20)
  <2>9. (p + q) * (R * G) = x + y
    BY <2>1
  <2> HIDE DEF x, y, g, h, w
  <2>10. (p + q) * (R * G) <= w
    BY <2>7, <2>8, <2>9
  <2> QED BY <2>10 DEF w
<1> DEFINE k == R * G
<1>4. k \in Nat \ {0}
  BY SMTT(20)
<1> HIDE DEF k
<1>5. (p + q) * k <= M * k
  BY <1>3 DEF k
<1>6. ASSUME M + 1 <= p + q PROVE FALSE
  <2>1. (M + 1) * k <= (p + q) * k
    BY <1>4, <1>6, MoreOfMore
  <2>2. (M + 1) * k = M * k + k
    BY <1>4, SMTT(20)
  <2>3. M * k \in Int /\ (p + q) * k \in Int
    BY <1>4, SMTT(20)
  <2> DEFINE x == M * k  y == (p + q) * k
  <2>4. x \in Int /\ y \in Int /\ x + k <= y /\ y <= x
    BY <1>5, <2>1, <2>2, <2>3
  <2> HIDE DEF x, y
  <2> QED BY <1>4, <2>4
<1> QED BY <1>6

(* Between two prices, or beyond one of them by so much at most.           *)
Within(x, low, high, over) == low - over <= x /\ x <= high + over

(* A pull towards b and one towards l stay within the three, or overshoot  *)
(* by the first when together they are more than the whole of a gap.       *)
LEMMA StepIsBetween ==
  ASSUME NEW k \in Int, NEW b \in Int, NEW l \in Int, NEW p \in Int, NEW q \in Int,
         NEW over \in Int,
         b - k >= 0 => 0 <= p /\ p <= b - k,
         b - k <= 0 => b - k <= p /\ p <= 0,
         l - k >= 0 => 0 <= q /\ q <= l - k,
         l - k <= 0 => l - k <= q /\ q <= 0,
         \/ over = Abs(p)
         \/ /\ over = 0
            /\ Abs(p) + Abs(q) <= Abs(b - k) \/ Abs(p) + Abs(q) <= Abs(l - k)
  PROVE  \/ Within(k + p + q, k, b, over) \/ Within(k + p + q, b, k, over)
         \/ Within(k + p + q, k, l, over) \/ Within(k + p + q, l, k, over)
         \/ Within(k + p + q, b, l, over) \/ Within(k + p + q, l, b, over)
BY DEF Abs, Within

(* Without noise a refresh moves the reference no further than the         *)
(* farthest of itself, fundamentals and last print, but for what two large *)
(* pulls overshoot (step_reference, src/sim/counterparty.rs).              *)
LEMMA ReferenceStays ==
  ASSUME QuotingInv, Next, step = "write", step' = "post", Walk = {0}
  PROVE  \E low, high \in Guides :
           low - Overshoot <= config'.reference /\ config'.reference <= high + Overshoot
<1>1. StepReference(0)
  BY DEF Next, BiasAggressor, BiasMaker, Reload, QuarterPasses, SetSuspended, Stamp,
         ReadConfig, Post, UserOrder, UserCancels, Fire, maker
<1>2. /\ known \in ConfigType /\ config \in ConfigType
      /\ last = Nothing \/ last \in Int
  BY DEF QuotingInv, CopyIsConfig, TypeOK, Price
<1>3. /\ known.reference \in Int /\ known.baseline \in Int
      /\ known.follow \in 0 .. FollowOf
  BY <1>2 DEF ConfigType
<1>4. config'.reference = Stepped(0)
  BY <1>1, <1>2 DEF StepReference, ConfigType
<1> DEFINE k == known.reference  b == known.baseline
           p == Part(b - k, 1, MeanRevert)  q == Part(last - k, known.follow, FollowOf)
<1>5. /\ p \in Int /\ MeanRevert * Abs(p) <= 1 * Abs(b - k)
      /\ b - k >= 0 => 0 <= p /\ p <= b - k
      /\ b - k <= 0 => b - k <= p /\ p <= 0
  <2>1. b - k \in Int /\ MeanRevert \in Nat \ {0} /\ 1 \in 0 .. MeanRevert
    BY <1>3, QuotingAssumption
  <2> HIDE DEF b, k
  <2> QED BY <2>1, PartOfGap
<1>6. CASE last = Nothing
  <2>1. config'.reference = k + p
    BY <1>3, <1>4, <1>5, <1>6 DEF Stepped
  <2>2. Overshoot = 0 /\ k \in Guides /\ b \in Guides
    BY <1>6 DEF Overshoot, Guides
  <2>3. k \in Int /\ b \in Int
    BY <1>3
  <2> HIDE DEF p, b, k
  <2>4. \/ k <= k + p /\ k + p <= b
        \/ b <= k + p /\ k + p <= k
    BY <1>5, <2>3
  <2>5. CASE k <= k + p /\ k + p <= b
    BY <1>5, <2>1, <2>2, <2>3, <2>5
  <2>6. CASE b <= k + p /\ k + p <= k
    BY <1>5, <2>1, <2>2, <2>3, <2>6
  <2> QED BY <2>4, <2>5, <2>6
<1>7. CASE last # Nothing
  <2>1. last \in Int /\ k \in Int /\ b \in Int
    BY <1>2, <1>3, <1>7
  <2>2. /\ q \in Int /\ FollowOf * Abs(q) <= known.follow * Abs(last - k)
        /\ last - k >= 0 => 0 <= q /\ q <= last - k
        /\ last - k <= 0 => last - k <= q /\ q <= 0
    <3>1. last - k \in Int /\ FollowOf \in Nat \ {0}
      BY <1>3, <2>1, QuotingAssumption
    <3> HIDE DEF k
    <3> QED BY <1>3, <3>1, PartOfGap
  <2>3. config'.reference = k + p + q
    BY <1>3, <1>4, <1>5, <1>7, <2>2 DEF Stepped
  <2>4. Guides = {k, b, last}
    BY <1>7 DEF Guides
  <2>5. Overshoot = IF WholeGapAtMost THEN 0 ELSE Abs(p)
    BY <1>7 DEF Overshoot
  <2> HIDE DEF p, q, b, k
  <2>6. WholeGapAtMost => Abs(p) + Abs(q) <= Abs(b - k) \/ Abs(p) + Abs(q) <= Abs(last - k)
    <3>1. /\ Abs(p) \in Nat /\ Abs(q) \in Nat /\ Abs(b - k) \in Nat /\ Abs(last - k) \in Nat
      BY <1>5, <2>1, <2>2 DEF Abs
    <3>2. /\ MeanRevert \in Nat \ {0} /\ FollowOf \in Nat \ {0} /\ known.follow \in Nat
      BY <1>3, QuotingAssumption
    <3>3. MeanRevert * Abs(p) <= Abs(b - k)
      BY <1>5, <3>1
    <3> QED BY <2>2, <3>1, <3>2, <3>3, TwoPulls DEF WholeGapAtMost
  <2>7. /\ Overshoot \in Int
        /\ \/ Overshoot = Abs(p)
           \/ /\ Overshoot = 0
              /\ Abs(p) + Abs(q) <= Abs(b - k) \/ Abs(p) + Abs(q) <= Abs(last - k)
    <3>1. Abs(p) \in Int
      BY <1>5 DEF Abs
    <3>2. CASE WholeGapAtMost
      <4>1. Overshoot = 0
        BY <2>5, <3>2
      <4>2. Abs(p) + Abs(q) <= Abs(b - k) \/ Abs(p) + Abs(q) <= Abs(last - k)
        BY <2>6, <3>2, Zenon
      <4> QED BY <4>1, <4>2
    <3>3. CASE ~WholeGapAtMost
      <4>1. Overshoot = Abs(p)
        BY <2>5, <3>3
      <4> QED BY <3>1, <4>1
    <3> QED BY <3>2, <3>3
  <2>8. \/ Within(k + p + q, k, b, Overshoot) \/ Within(k + p + q, b, k, Overshoot)
        \/ Within(k + p + q, k, last, Overshoot) \/ Within(k + p + q, last, k, Overshoot)
        \/ Within(k + p + q, b, last, Overshoot) \/ Within(k + p + q, last, b, Overshoot)
    BY <1>5, <2>1, <2>2, <2>7, StepIsBetween
  <2>9. k \in Guides /\ b \in Guides /\ last \in Guides
    BY <2>4
  <2>10. \E low, high \in Guides : Within(config'.reference, low, high, Overshoot)
    BY <2>3, <2>8, <2>9
  <2> QED
    BY <2>10 DEF Within
<1> QED
  BY <1>6, <1>7

(* What an aggressor gives is within its slippage and a tick.              *)
LEMMA FireIsFair ==
  ASSUME QuotingInv, NEW side \in Side, Fire(side), fair + MaxSlippage >= Tick
  PROVE  Slip(side) <= MaxSlippage + Tick
<1>1. /\ fair \in Int /\ MaxSlippage \in Nat /\ Tick \in Nat \ {0}
      /\ Best(side) \in Int
  BY QuotingAssumption, BestIsPrice DEF QuotingInv, TypeOK, Fire, Crosses, Price
<1> DEFINE up == SnapToTick(fair + MaxSlippage, Tick)
           down == SnapToTick(fair - MaxSlippage, Tick)
<1>2. /\ up \in Int /\ 2 * Abs(up - (fair + MaxSlippage)) <= Tick
      /\ down \in Int /\ 2 * Abs(down - (fair - MaxSlippage)) <= Tick
  <2>1. fair + MaxSlippage \in Int /\ fair - MaxSlippage \in Int
    BY <1>1
  <2> QED
    BY <1>1, <2>1, SnapIsNearest, SnapIsOnGrid
<1>3. CASE side = "buy"
  <2>1. Best(side) <= Higher(Tick, up)
    BY <1>3 DEF Fire, Crosses, Limit, Snap
  <2> HIDE DEF up, down
  <2> QED
    BY <1>1, <1>2, <1>3, <2>1 DEF Slip, Higher, Abs
<1>4. CASE side = "sell"
  <2>1. Best(side) >= Higher(Tick, down)
    BY <1>4 DEF Fire, Crosses, Limit, Snap
  <2> HIDE DEF up, down
  <2> QED
    BY <1>1, <1>2, <1>4, <2>1 DEF Slip, Higher, Abs
<1> QED
  BY <1>3, <1>4 DEF Side

(* Neither strategy follows its own prices away: whatever part of the gap  *)
(* to the last print a recipe closes, all of it included, a maker's        *)
(* reference stays within the market or overshoots by its pull to the      *)
(* fundamentals at most, and an aggressor gives no more than its slippage  *)
(* and a tick (step_reference, Aggressor::fire).                           *)
THEOREM QuotingPricesInMarket == Spec => PricesInMarket
<1>1. QuotingInv /\ [Next]_vars =>
        [step = "write" /\ step' = "post" /\ Walk = {0} =>
           \E low, high \in Guides :
             /\ low - Overshoot <= config'.reference
             /\ config'.reference <= high + Overshoot]_vars
  BY ReferenceStays
<1>2. QuotingInv /\ [Next]_vars =>
        [\A side \in Side : Fire(side) /\ fair + MaxSlippage >= Tick =>
           Slip(side) <= MaxSlippage + Tick]_vars
  BY FireIsFair
<1> QED
  BY <1>1, <1>2, QuotingInvariant, PTL DEF Spec, PricesInMarket, ReferenceInMarket, FairTakes

-----------------------------------------------------------------------------
(* A stage's bias is an integer. *)
LEMMA StageBiasIsInt ==
  ASSUME NEW from \in Int, NEW to \in Int, NEW elapsed \in Int, NEW length \in Int
  PROVE  StageBias(from, to, elapsed, length) \in Int
<1> DEFINE d == Higher(1, length)  n == Clamp(elapsed, 0, d)
<1>1. d \in Nat \ {0} /\ n \in 0 .. d
  BY DEF Higher, Clamp
<1>2. StageBias(from, to, elapsed, length) = Lerp(from, to, n, d)
  BY DEF StageBias
<1> HIDE DEF d, n
<1> QED BY <1>1, <1>2, LerpIsBetween

(* The scenarios.  A number that is the least of some positions in a list. *)
LEMMA LeastPosition ==
  ASSUME NEW n \in Nat, NEW D \in SUBSET (1 .. n), D # {}
  PROVE  \E i \in D : \A j \in D : i <= j
<1> DEFINE H(i) == {k \in D : k < i}
           T == {H(i) : i \in D}
<1>1. IsWellFoundedOn(StrictSubsetOrdering(D), SUBSET D)
  <2>1. IsFiniteSet(D)
    <3>1. IsFiniteSet(1 .. n) BY FS_Interval
    <3> QED BY <3>1, FS_Subset
  <2> QED BY <2>1, FS_StrictSubsetOrderingWellFounded, FS_FiniteSubsetsOfFinite
<1>2. T \subseteq SUBSET D /\ T # {}
  OBVIOUS
<1>3. PICK x \in T : \A y \in T : <<y, x>> \notin StrictSubsetOrdering(D)
  <2> HIDE DEF T
  <2> QED BY <1>1, <1>2, WFMin
<1>4. PICK i \in D : x = H(i)
  OBVIOUS
<1>5. ASSUME NEW j \in D, j < i PROVE FALSE
  <2>1. H(j) \in T /\ H(j) \in SUBSET D /\ H(i) \in SUBSET D
    OBVIOUS
  <2>2. H(j) \subseteq H(i) /\ j \in H(i) /\ j \notin H(j)
    <3>1. i \in Nat /\ j \in Nat /\ \A k \in D : k \in Nat
      OBVIOUS
    <3>2. \A k \in D : k < j => k < i
      BY <1>5, <3>1
    <3>3. ~(j < j)
      BY <3>1
    <3> QED BY <1>5, <3>2, <3>3
  <2> HIDE DEF H, T
  <2> QED BY <1>3, <1>4, <2>1, <2>2 DEF StrictSubsetOrdering
<1> QED BY <1>5

(* The stage of the clock is one whose hours hold the hour; there is none  *)
(* only if no stage's hours do (wallclock_stage, src/scenarios.rs).        *)
THEOREM WallclockStageHolds ==
  ASSUME NEW stages \in Seq(Stage), NEW h \in Hour
  PROVE  LET i == WallclockStage(stages, h) IN
         \/ i = 0 /\ \A j \in DOMAIN stages : h \notin stages[j].from .. stages[j].to - 1
         \/ i \in DOMAIN stages /\ stages[i].from <= h /\ h < stages[i].to
<1> DEFINE hit == {i \in DOMAIN stages : stages[i].from <= h /\ h < stages[i].to}
<1>1. Hours \in Nat /\ h \in Int
  BY ScenariosAssumption DEF Hour
<1>2. CASE hit = {}
  <2>1. WallclockStage(stages, h) = 0
    BY <1>2 DEF WallclockStage
  <2>2. ASSUME NEW j \in DOMAIN stages PROVE h \notin stages[j].from .. stages[j].to - 1
    <3>1. stages[j].from \in Int /\ stages[j].to \in Int
      <4>1. stages[j] \in Stage OBVIOUS
      <4> QED BY <1>1, <4>1 DEF Stage, Hour
    <3>2. ~(stages[j].from <= h /\ h < stages[j].to)
      BY <1>2
    <3> QED BY <1>1, <3>1, <3>2
  <2> QED BY <2>1, <2>2
<1>3. CASE hit # {}
  <2>1. \E i \in hit : \A j \in hit : i <= j
    <3>1. hit \in SUBSET (1 .. Len(stages)) /\ Len(stages) \in Nat
      OBVIOUS
    <3> HIDE DEF hit
    <3> QED BY <1>3, <3>1, LeastPosition
  <2>2. WallclockStage(stages, h) = CHOOSE i \in hit : \A j \in hit : i <= j
    BY <1>3 DEF WallclockStage
  <2>3. WallclockStage(stages, h) \in hit
    <3> HIDE DEF hit
    <3> QED BY <2>1, <2>2
  <2> QED BY <2>3
<1> QED BY <1>2, <1>3

(* The tick looks at a scenario that runs, unless none does. *)
LEMMA FirstRunningRuns ==
  \/ FirstRunning = 0 /\ \A s \in Name : ~Running(s)
  \/ FirstRunning # 0 /\ FirstRunning \in DOMAIN Scenario /\ Running(Scenario[FirstRunning])
<1> DEFINE I == {i \in 1 .. Len(Scenario) : Running(Scenario[i])}
<1>1. Scenario \in Seq(Name) /\ Name = {Scenario[i] : i \in DOMAIN Scenario}
  BY ScenariosAssumption DEF Name, ToSet
<1>2. DOMAIN Scenario = 1 .. Len(Scenario) /\ Len(Scenario) \in Nat
  BY <1>1
<1>3. FirstRunning = IF I # {} THEN Min(I) ELSE 0
  BY DEF FirstRunning, SelectInSeq
<1>4. CASE I = {}
  <2>1. \A i \in DOMAIN Scenario : ~Running(Scenario[i])
    BY <1>2, <1>4
  <2> QED BY <1>1, <1>3, <1>4, <2>1
<1>5. CASE I # {}
  <2>1. \E i \in I : \A j \in I : i <= j
    <3>1. I \in SUBSET (1 .. Len(Scenario))
      OBVIOUS
    <3> HIDE DEF I
    <3> QED BY <1>2, <1>5, <3>1, LeastPosition
  <2>2. Min(I) \in I
    <3> HIDE DEF I
    <3> QED BY <2>1 DEF Min
  <2> QED BY <1>2, <1>3, <1>5, <2>2
<1> QED BY <1>4, <1>5

-----------------------------------------------------------------------------
(* What the scenarios keep, whoever comes first: what the weather is reset *)
(* to is what the configuration set, and only a stage that plays is held.  *)
ScenariosInv ==
  /\ ScenariosTypeOK /\ OverridesDoNotCompound
  /\ def \in [Name -> Seq(Stage)] /\ runtime \in [Name -> ScenarioRuntime]
  /\ baseline = configured
  /\ \A s \in Name : runtime[s].manual => Running(s)

(* A running scenario has its stage; so long as it does. *)
RunsIn(r, stages) ==
  /\ r \in ScenarioRuntime
  /\ r.stage # NotRunning => r.stage \in DOMAIN stages
  /\ r.manual => r.stage # NotRunning

(* What an operator does to the runtime of one scenario. *)
LEMMA SetRuntimeStep ==
  ASSUME ScenariosInv, NEW s \in Name, NEW r, RunsIn(r, def[s]), SetRuntime(s, r)
  PROVE  ScenariosInv'
<1>1. /\ runtime' = [runtime EXCEPT ![s] = r] /\ hour' = hour /\ def' = def
      /\ live' = live /\ baseline' = baseline /\ configured' = configured
      /\ picked' = picked /\ applied' = applied
  BY DEF SetRuntime, weather
<1>2. runtime \in [Name -> ScenarioRuntime] /\ r \in ScenarioRuntime
  BY DEF ScenariosInv, RunsIn
<1>3. /\ runtime' \in [Name -> ScenarioRuntime]
      /\ \A z \in Name : runtime'[z] = IF z = s THEN r ELSE runtime[z]
  BY <1>1, <1>2
<1>4. ASSUME NEW z \in Name
      PROVE  /\ def[z] \in Definitions[z]
             /\ runtime'[z].stage # NotRunning => runtime'[z].stage \in DOMAIN def[z]
             /\ runtime'[z].manual => runtime'[z].stage # NotRunning
  BY <1>3 DEF ScenariosInv, ScenariosTypeOK, RunsIn, Running
<1>5. ScenariosTypeOK'
  BY <1>1, <1>3, <1>4 DEF ScenariosInv, ScenariosTypeOK, Running
<1> QED BY <1>1, <1>3, <1>4, <1>5 DEF ScenariosInv, OverridesDoNotCompound, Running

(* A request of the operator. *)
LEMMA OperatorStep ==
  ASSUME ScenariosInv, NEW s \in Name, Operator(s) PROVE ScenariosInv'
<1>1. /\ def[s] \in Seq(Stage) /\ hour \in Hour /\ Hours \in Nat
      /\ runtime[s] \in ScenarioRuntime
  BY ScenariosAssumption DEF ScenariosInv, ScenariosTypeOK
<1>2. NotRunning \notin Nat /\ DOMAIN def[s] \subseteq Nat /\ 0 \in 0 .. Hours
  BY <1>1, ScenariosAssumption
<1>3. ASSUME NEW i \in DOMAIN def[s], NEW m \in BOOLEAN
      PROVE  RunsIn([stage |-> i, manual |-> m, age |-> 0], def[s])
  BY <1>2 DEF RunsIn, ScenarioRuntime
<1>4. CASE Start(s)
  <2> DEFINE i == WallclockStage(def[s], hour)
             k == IF i = 0 THEN 1 ELSE i
             r == [stage |-> k, manual |-> FALSE, age |-> 0]
  <2>1. k \in DOMAIN def[s]
    <3>1. i = 0 \/ i \in DOMAIN def[s]
      BY <1>1, WallclockStageHolds
    <3>2. 1 \in DOMAIN def[s]
      BY <1>1, <1>4 DEF Start
    <3> QED BY <3>1, <3>2
  <2>2. SetRuntime(s, r)
    BY <1>4 DEF Start
  <2>3. RunsIn(r, def[s])
    <3> HIDE DEF k
    <3> QED BY <1>3, <2>1
  <2> HIDE DEF r
  <2> QED BY <2>2, <2>3, SetRuntimeStep
<1>5. CASE Stop(s)
  <2>1. RunsIn(Stopped, def[s])
    BY <1>2 DEF Stopped, RunsIn, ScenarioRuntime
  <2>2. SetRuntime(s, Stopped)
    BY <1>5 DEF Stop
  <2> QED BY <2>1, <2>2, SetRuntimeStep
<1>6. ASSUME NEW i, Jump(s, i) PROVE ScenariosInv'
  <2> DEFINE m == WallclockStage(def[s], hour) # i
             r == [stage |-> i, manual |-> m, age |-> 0]
  <2>1. i \in DOMAIN def[s] /\ SetRuntime(s, r)
    BY <1>6 DEF Jump, JumpTo
  <2>2. m \in BOOLEAN
    OBVIOUS
  <2> HIDE DEF m
  <2>3. RunsIn(r, def[s])
    BY <1>3, <2>1, <2>2
  <2> HIDE DEF r
  <2> QED BY <2>1, <2>3, SetRuntimeStep
<1> QED BY <1>4, <1>5, <1>6 DEF Operator, JumpRelative

(* A definition that replaces another, or a value for a location. *)
LEMMA ConfigurationStep ==
  ASSUME ScenariosInv, Configuration PROVE ScenariosInv'
<1>1. CASE \E s \in Name : \E stages \in Definitions[s] : DefineScenario(s, stages)
  <2> PICK s \in Name : \E stages \in Definitions[s] : DefineScenario(s, stages)
    BY <1>1
  <2>1. PICK stages \in Definitions[s] : DefineScenario(s, stages)
    OBVIOUS
  <2>2. /\ def' = [def EXCEPT ![s] = stages] /\ hour' = hour
        /\ runtime' = [runtime EXCEPT ![s] = Stopped]
        /\ live' = live /\ baseline' = baseline /\ configured' = configured
        /\ picked' = picked /\ applied' = applied
    BY <2>1 DEF DefineScenario, weather
  <2>3. def \in [Name -> Seq(Stage)] /\ runtime \in [Name -> ScenarioRuntime]
    BY DEF ScenariosInv
  <2>4. stages \in Seq(Stage)
    BY ScenariosAssumption
  <2>5. /\ Stopped \in ScenarioRuntime /\ Stopped.stage = NotRunning
        /\ Stopped.manual = FALSE
    BY ScenariosAssumption DEF Stopped, ScenarioRuntime
  <2>6. /\ def' \in [Name -> Seq(Stage)] /\ runtime' \in [Name -> ScenarioRuntime]
        /\ \A z \in Name :
             /\ def'[z] = IF z = s THEN stages ELSE def[z]
             /\ runtime'[z] = IF z = s THEN Stopped ELSE runtime[z]
    <3>1. def' \in [Name -> Seq(Stage)]
      BY <2>2, <2>3, <2>4
    <3>2. runtime' \in [Name -> ScenarioRuntime]
      BY <2>2, <2>3, <2>5
    <3>3. ASSUME NEW z \in Name
          PROVE  /\ def'[z] = IF z = s THEN stages ELSE def[z]
                 /\ runtime'[z] = IF z = s THEN Stopped ELSE runtime[z]
      BY <2>2, <2>3
    <3> QED BY <3>1, <3>2, <3>3
  <2>7. ASSUME NEW z \in Name
        PROVE  /\ def'[z] \in Definitions[z]
               /\ runtime'[z].stage # NotRunning => runtime'[z].stage \in DOMAIN def'[z]
               /\ runtime'[z].manual => runtime'[z].stage # NotRunning
    <3>1. CASE z = s
      <4>1. def'[z] = stages /\ runtime'[z] = Stopped
        BY <2>6, <3>1
      <4> QED BY <2>5, <3>1, <4>1
    <3>2. CASE z # s
      <4>1. def'[z] = def[z] /\ runtime'[z] = runtime[z]
        BY <2>6, <3>2
      <4> QED BY <4>1 DEF ScenariosInv, ScenariosTypeOK, Running
    <3> QED BY <3>1, <3>2
  <2>8. ScenariosTypeOK'
    BY <2>2, <2>6, <2>7 DEF ScenariosInv, ScenariosTypeOK, Running
  <2> QED BY <2>2, <2>6, <2>7, <2>8 DEF ScenariosInv, OverridesDoNotCompound, Running
<1>2. ASSUME NEW l \in Location, NEW c \in Cover, Configure(l, c) PROVE ScenariosInv'
  <2>1. /\ live' = [live EXCEPT ![l] = c] /\ baseline' = [baseline EXCEPT ![l] = c]
        /\ configured' = [configured EXCEPT ![l] = c] /\ hour' = hour
        /\ def' = def /\ runtime' = runtime /\ picked' = picked /\ applied' = applied
    BY <1>2 DEF Configure, registry
  <2>2. /\ live \in [Location -> Cover] /\ baseline \in [Location -> Cover]
        /\ configured \in [Location -> Cover]
    BY DEF ScenariosInv, ScenariosTypeOK
  <2>3. /\ live' \in [Location -> Cover] /\ baseline' \in [Location -> Cover]
        /\ configured' \in [Location -> Cover]
    BY <2>1, <2>2
  <2>4. ScenariosTypeOK'
    BY <2>1, <2>3 DEF ScenariosInv, ScenariosTypeOK, Running
  <2>5. OverridesDoNotCompound'
    BY <2>1, <2>2 DEF ScenariosInv, OverridesDoNotCompound
  <2> QED BY <2>1, <2>4, <2>5 DEF ScenariosInv, Running
<1> QED
  BY <1>1, <1>2, ScenariosAssumption
     DEF Configuration, SetWeatherCloudCover, MakeWeatherLocation

(* What the tick makes of the runtime it looks at. *)
LEMMA AdvancedRuns ==
  ASSUME ScenariosInv, NEW s \in Name, Running(s)
  PROVE  /\ RunsIn(Advanced(s), def[s]) /\ Advanced(s).stage \in DOMAIN def[s]
         /\ Advanced(s).manual = runtime[s].manual
         /\ runtime[s].manual => Advanced(s) = runtime[s]
<1> DEFINE r == runtime[s]
           i == WallclockStage(def[s], hour)
           k == IF ~r.manual /\ i # 0 THEN i ELSE r.stage
<1>1. /\ def[s] \in Seq(Stage) /\ hour \in Hour /\ r \in ScenarioRuntime
      /\ r.stage \in DOMAIN def[s]
  BY DEF ScenariosInv, ScenariosTypeOK, Running
<1>2. i = 0 \/ i \in DOMAIN def[s]
  BY <1>1, WallclockStageHolds
<1>3. Advanced(s) = [r EXCEPT !.stage = k]
  BY DEF Advanced
<1>4. k \in DOMAIN def[s] /\ k \in Nat /\ k # NotRunning
  BY <1>1, <1>2, ScenariosAssumption
<1>5. r.manual => k = r.stage
  OBVIOUS
<1> HIDE DEF r, i, k
<1>6. /\ [r EXCEPT !.stage = k] \in ScenarioRuntime
      /\ [r EXCEPT !.stage = k].stage = k /\ [r EXCEPT !.stage = k].manual = r.manual
  BY <1>1, <1>4 DEF ScenarioRuntime
<1>7. k = r.stage => [r EXCEPT !.stage = k] = r
  BY <1>1 DEF ScenarioRuntime
<1> QED BY <1>3, <1>4, <1>5, <1>6, <1>7 DEF RunsIn, r

(* The stage that the tick hands on, and its bias. *)
LEMMA PickStep ==
  ASSUME ScenariosInv, PickActiveStage PROVE ScenariosInv'
<1>1. /\ hour' = hour /\ def' = def /\ live' = live /\ baseline' = baseline
      /\ configured' = configured /\ applied' = applied
  BY DEF PickActiveStage, weather
<1>2. CASE FirstRunning = 0
  <2>1. picked' = {} /\ runtime' = runtime
    BY <1>2 DEF PickActiveStage
  <2>2. ScenariosTypeOK'
    BY <1>1, <2>1 DEF ScenariosInv, ScenariosTypeOK, Running
  <2> QED BY <1>1, <2>1, <2>2 DEF ScenariosInv, OverridesDoNotCompound, Running
<1>3. CASE FirstRunning # 0
  <2> DEFINE s == Scenario[FirstRunning]
             r == Advanced(s)
             st == def[s][r.stage]
             b == StageBiasNow(st, r, hour)
             p == [stage |-> st, bias |-> b]
  <2>1. s \in Name /\ Running(s)
    BY <1>3, FirstRunningRuns DEF Name, ToSet
  <2>2. runtime' = [runtime EXCEPT ![s] = r] /\ picked' = {p}
    BY <1>3 DEF PickActiveStage
  <2>3. RunsIn(r, def[s]) /\ r.stage \in DOMAIN def[s]
    BY <2>1, AdvancedRuns
  <2>4. st \in Stage
    BY <2>1, <2>3 DEF ScenariosInv
  <2>5. b \in Lower(st.bias_from, st.bias_to) .. Higher(st.bias_from, st.bias_to)
    <3> HIDE DEF r, st
    <3> DEFINE e == IF r.manual THEN r.age ELSE hour - st.from
    <3>1. /\ st.bias_from \in Int /\ st.bias_to \in Int /\ st.from \in Int
          /\ st.to \in Int /\ hour \in Int /\ r.age \in Int
      <4>1. Hours \in Nat /\ Bias \subseteq Int /\ hour \in 0 .. Hours - 1
        BY ScenariosAssumption DEF ScenariosInv, ScenariosTypeOK, Hour
      <4>2. r.age \in 0 .. Hours
        BY <2>3 DEF RunsIn, ScenarioRuntime
      <4>3. /\ st.bias_from \in Bias /\ st.bias_to \in Bias
            /\ st.from \in 0 .. Hours - 1 /\ st.to \in 1 .. Hours
        BY <2>4 DEF Stage, Hour
      <4>4. st.bias_from \in Int /\ st.bias_to \in Int
        BY <4>1, <4>3
      <4>5. st.from \in Int /\ st.to \in Int /\ hour \in Int /\ r.age \in Int
        BY <4>1, <4>2, <4>3
      <4> QED BY <4>4, <4>5
    <3>2. e \in Int /\ st.to - st.from \in Int
      BY <3>1
    <3>3. b = StageBias(st.bias_from, st.bias_to, e, st.to - st.from)
      BY DEF StageBiasNow
    <3>4. /\ b \in Int /\ Lower(st.bias_from, st.bias_to) <= b
          /\ b <= Higher(st.bias_from, st.bias_to)
      <4> DEFINE f == st.bias_from
                 t == st.bias_to
                 n == st.to - st.from
      <4>1. f \in Int /\ t \in Int /\ e \in Int /\ n \in Int /\ b = StageBias(f, t, e, n)
        BY <3>1, <3>2, <3>3
      <4> HIDE DEF f, t, n, e, b
      <4>2. b \in Int
        BY <4>1, StageBiasIsInt
      <4>3. Lower(f, t) <= b /\ b <= Higher(f, t)
        BY <4>1, StageBiasIsBetween
      <4> QED BY <4>2, <4>3 DEF f, t
    <3>5. Lower(st.bias_from, st.bias_to) \in Int /\ Higher(st.bias_from, st.bias_to) \in Int
      BY <3>1 DEF Lower, Higher
    <3> QED BY <3>4, <3>5
  <2> HIDE DEF s, r, st, b
  <2>6. runtime \in [Name -> ScenarioRuntime] /\ r \in ScenarioRuntime
    BY <2>3 DEF ScenariosInv, RunsIn
  <2>7. /\ runtime' \in [Name -> ScenarioRuntime]
        /\ \A z \in Name : runtime'[z] = IF z = s THEN r ELSE runtime[z]
    BY <2>2, <2>6
  <2>8. ASSUME NEW z \in Name
        PROVE  /\ def[z] \in Definitions[z]
               /\ runtime'[z].stage # NotRunning => runtime'[z].stage \in DOMAIN def[z]
               /\ runtime'[z].manual => runtime'[z].stage # NotRunning
    BY <2>3, <2>7 DEF ScenariosInv, ScenariosTypeOK, RunsIn, Running
  <2>9. /\ {x.stage : x \in picked'} \in {{}} \cup {{x} : x \in Stage}
        /\ \A x \in picked' : LET y == x.stage IN
             x.bias \in Lower(y.bias_from, y.bias_to) .. Higher(y.bias_from, y.bias_to)
    <3>1. p.stage = st /\ p.bias = b
      OBVIOUS
    <3> HIDE DEF p
    <3>2. {x.stage : x \in picked'} = {st}
      BY <2>2, <3>1
    <3> QED BY <2>2, <2>4, <2>5, <3>1, <3>2
  <2> HIDE DEF p
  <2>10. ScenariosTypeOK'
    BY <1>1, <2>7, <2>8, <2>9 DEF ScenariosInv, ScenariosTypeOK, Running
  <2> QED BY <1>1, <2>7, <2>8, <2>10 DEF ScenariosInv, OverridesDoNotCompound, Running
<1> QED BY <1>2, <1>3

(* The weather is written: its baseline, and the picked stage on top. *)
LEMMA ApplyStep ==
  ASSUME ScenariosInv, ApplyWeather PROVE ScenariosInv'
<1>1. /\ hour' = hour /\ def' = def /\ runtime' = runtime /\ baseline' = baseline
      /\ configured' = configured /\ picked' = Idle /\ picked # Idle
      /\ live' = [l \in Location |-> Overridden(l)]
      /\ applied' = {p.stage : p \in picked}
  BY DEF ApplyWeather, registry
<1>2. /\ {p.stage : p \in picked} \in {{}} \cup {{st} : st \in Stage}
      /\ baseline \in [Location -> Cover] /\ baseline = configured
  BY <1>1 DEF ScenariosInv, ScenariosTypeOK
<1>3. ASSUME NEW l \in Location
      PROVE  /\ Overridden(l) \in Cover
             /\ Overridden(l) = configured[l]
                  \/ \E p \in picked : Overridden(l) = p.stage.cover
  <2>1. CASE \E p \in picked : p.stage.cover # Unset
    <3> DEFINE q == CHOOSE p \in picked : TRUE
    <3>1. PICK p \in picked : p.stage.cover # Unset
      BY <2>1
    <3>2. q \in picked
      BY <3>1
    <3>3. Overridden(l) = q.stage.cover
      BY <2>1 DEF Overridden
    <3> HIDE DEF q
    <3>4. p.stage \in Stage /\ q.stage = p.stage
      <4>1. p.stage \in {x.stage : x \in picked} /\ q.stage \in {x.stage : x \in picked}
        BY <3>2
      <4> DEFINE S == {x.stage : x \in picked}
      <4> HIDE DEF S
      <4>2. p.stage \in S /\ q.stage \in S /\ S \in {{}} \cup {{st} : st \in Stage}
        BY <1>2, <4>1 DEF S
      <4> QED BY <4>2
    <3>5. q.stage.cover \in Cover
      BY <3>1, <3>4 DEF Stage
    <3> QED BY <3>2, <3>3, <3>5
  <2>2. CASE ~ \E p \in picked : p.stage.cover # Unset
    <3>1. Overridden(l) = baseline[l]
      BY <2>2 DEF Overridden
    <3> QED BY <1>2, <3>1
  <2> QED BY <2>1, <2>2
<1>4. live' \in [Location -> Cover] /\ \A l \in Location : live'[l] = Overridden(l)
  BY <1>1, <1>3
<1>5. ScenariosTypeOK'
  BY <1>1, <1>2, <1>4 DEF ScenariosInv, ScenariosTypeOK, Running
<1>6. OverridesDoNotCompound'
  BY <1>1, <1>3, <1>4 DEF OverridesDoNotCompound
<1> QED BY <1>1, <1>5, <1>6 DEF ScenariosInv, Running

(* An hour passes: what is held grows older, up to its stage's length. *)
LEMMA HourStep ==
  ASSUME ScenariosInv, HourPasses PROVE ScenariosInv'
<1> DEFINE age(s) == IF runtime[s].manual
                     THEN Lower(runtime[s].age + 1, Length(def[s][runtime[s].stage]))
                     ELSE 0
<1>1. /\ hour' = (hour + 1) % Hours /\ def' = def /\ live' = live
      /\ baseline' = baseline /\ configured' = configured /\ picked' = picked
      /\ applied' = applied
      /\ runtime' = [s \in Name |-> [runtime[s] EXCEPT !.age = age(s)]]
  BY DEF HourPasses, weather
<1>2. hour \in Int /\ Hours \in Nat \ {0}
  BY ScenariosAssumption DEF ScenariosInv, ScenariosTypeOK, Hour
<1>3. hour' \in Hour
  BY <1>1, <1>2 DEF Hour
<1>4. ASSUME NEW s \in Name
      PROVE  /\ runtime[s] \in ScenarioRuntime /\ age(s) \in 0 .. Hours
  <2>1. runtime[s] \in ScenarioRuntime
    BY DEF ScenariosInv
  <2>2. CASE runtime[s].manual
    <3> DEFINE st == def[s][runtime[s].stage]
               n == runtime[s].age
    <3>1. st \in Stage
      BY <2>2 DEF ScenariosInv, ScenariosTypeOK
    <3>2. n \in 0 .. Hours
      BY <2>1 DEF ScenarioRuntime
    <3>3. age(s) = Lower(n + 1, Length(st))
      BY <2>2
    <3> HIDE DEF st, n, age
    <3>4. Length(st) \in 1 .. Hours
      BY <1>2, <3>1 DEF Stage, Hour, Length, Higher
    <3> QED BY <2>1, <3>2, <3>3, <3>4, <1>2 DEF Lower
  <2>3. CASE ~runtime[s].manual
    BY <1>2, <2>1, <2>3
  <2> QED BY <2>2, <2>3
<1> HIDE DEF age
<1>5. ASSUME NEW s \in Name
      PROVE  /\ runtime'[s] \in ScenarioRuntime /\ runtime'[s].stage = runtime[s].stage
             /\ runtime'[s].manual = runtime[s].manual
  BY <1>1, <1>4 DEF ScenarioRuntime
<1>6. runtime' \in [Name -> ScenarioRuntime]
  <2>1. runtime' = [s \in Name |-> runtime'[s]]
    BY <1>1
  <2> QED BY <1>5, <2>1
<1>7. ASSUME NEW z \in Name
      PROVE  /\ def[z] \in Definitions[z]
             /\ runtime'[z].stage # NotRunning => runtime'[z].stage \in DOMAIN def[z]
             /\ runtime'[z].manual => runtime'[z].stage # NotRunning
  BY <1>5 DEF ScenariosInv, ScenariosTypeOK, Running
<1>8. ScenariosTypeOK'
  BY <1>1, <1>3, <1>6, <1>7 DEF ScenariosInv, ScenariosTypeOK, Running
<1> QED BY <1>1, <1>6, <1>7, <1>8 DEF ScenariosInv, OverridesDoNotCompound, Running

(* The scenarios keep it. *)
LEMMA ScenariosInvariant == ScenariosSpec => []ScenariosInv
<1>1. ScenariosInit => ScenariosInv
  <2> SUFFICES ASSUME ScenariosInit PROVE ScenariosInv
    OBVIOUS
  <2>1. PICK c \in Cover : live = [l \in Location |-> c]
    BY DEF ScenariosInit
  <2>2. /\ hour \in Hour /\ runtime = [s \in Name |-> Stopped]
        /\ def \in [Name -> UNION {Definitions[s] : s \in Name}]
        /\ \A s \in Name : def[s] \in Definitions[s]
        /\ baseline = live /\ configured = live /\ picked = Idle /\ applied = {}
    BY DEF ScenariosInit
  <2>3. /\ Stopped \in ScenarioRuntime /\ Stopped.stage = NotRunning
        /\ Stopped.manual = FALSE
    BY ScenariosAssumption DEF Stopped, ScenarioRuntime
  <2>4. runtime \in [Name -> ScenarioRuntime] /\ def \in [Name -> Seq(Stage)]
    BY <2>2, <2>3, ScenariosAssumption
  <2>5. live \in [Location -> Cover]
    BY <2>1
  <2>6. ScenariosTypeOK
    BY <2>2, <2>3, <2>4, <2>5 DEF ScenariosTypeOK, Running
  <2> QED BY <2>2, <2>3, <2>4, <2>6 DEF ScenariosInv, OverridesDoNotCompound
<1>2. ScenariosInv /\ [ScenariosNext]_scenariosVars => ScenariosInv'
  <2> SUFFICES ASSUME ScenariosInv, [ScenariosNext]_scenariosVars PROVE ScenariosInv'
    OBVIOUS
  <2>1. CASE UNCHANGED scenariosVars
    BY <2>1 DEF scenariosVars, ScenariosInv, ScenariosTypeOK, OverridesDoNotCompound, Running
  <2> QED
    BY <2>1, OperatorStep, ConfigurationStep, PickStep, ApplyStep, HourStep
       DEF ScenariosNext
<1> QED BY <1>1, <1>2, PTL DEF ScenariosSpec

(* However operator, configuration, clock and tick take turns: a running   *)
(* scenario has its stage, and overrides never pile up (src/scenarios.rs). *)
THEOREM ScenariosStayConsistent == ScenariosSpec => []ScenariosConsistent
<1>1. ScenariosInv => ScenariosConsistent
  BY DEF ScenariosInv, ScenariosConsistent
<1> QED BY <1>1, ScenariosInvariant, PTL

(* The tick leaves a stage alone that the operator holds. *)
LEMMA ManualStays ==
  ASSUME ScenariosInv, PickActiveStage, NEW s \in Name, runtime[s].manual
  PROVE  runtime'[s] = runtime[s]
<1>1. runtime \in [Name -> ScenarioRuntime]
  BY DEF ScenariosInv
<1>2. CASE FirstRunning = 0
  BY <1>2 DEF PickActiveStage
<1>3. CASE FirstRunning # 0
  <2> DEFINE z == Scenario[FirstRunning]
             r == Advanced(z)
  <2>1. z \in Name /\ Running(z)
    BY <1>3, FirstRunningRuns DEF Name, ToSet
  <2>2. runtime' = [runtime EXCEPT ![z] = r]
    BY <1>3 DEF PickActiveStage
  <2>3. runtime[z].manual => r = runtime[z]
    BY <2>1, AdvancedRuns
  <2> HIDE DEF z, r
  <2> QED BY <1>1, <2>1, <2>2, <2>3
<1> QED BY <1>2, <1>3

(* What it hands on follows the clock, or the operator. *)
LEMMA PickFollows ==
  ASSUME ScenariosInv, PickActiveStage, NEW s \in Name, Running(s),
         \A z \in Name \ {s} : ~Running(z), NEW p \in picked'
  PROVE  \/ runtime[s].manual
         \/ p.stage.from <= hour /\ hour < p.stage.to
         \/ \A i \in DOMAIN def[s] : hour \notin def[s][i].from .. def[s][i].to - 1
<1>1. FirstRunning # 0 /\ Scenario[FirstRunning] \in Name /\ Running(Scenario[FirstRunning])
  BY FirstRunningRuns DEF Name, ToSet
<1>2. Scenario[FirstRunning] = s
  BY <1>1
<1>3. p.stage = def[s][Advanced(s).stage]
  <2> DEFINE st == def[s][Advanced(s).stage]
             b == StageBiasNow(st, Advanced(s), hour)
  <2>1. picked' = {[stage |-> st, bias |-> b]}
    BY <1>1, <1>2 DEF PickActiveStage
  <2> HIDE DEF st, b
  <2>2. p = [stage |-> st, bias |-> b]
    BY <2>1
  <2> QED BY <2>2 DEF st
<1> DEFINE i == WallclockStage(def[s], hour)
<1>4. SUFFICES ASSUME ~runtime[s].manual
               PROVE  \/ p.stage.from <= hour /\ hour < p.stage.to
                      \/ \A j \in DOMAIN def[s] :
                           hour \notin def[s][j].from .. def[s][j].to - 1
  OBVIOUS
<1>5. /\ def[s] \in Seq(Stage) /\ hour \in Hour /\ runtime[s] \in ScenarioRuntime
  BY DEF ScenariosInv, ScenariosTypeOK
<1>6. \/ i = 0 /\ \A j \in DOMAIN def[s] : hour \notin def[s][j].from .. def[s][j].to - 1
      \/ i \in DOMAIN def[s] /\ def[s][i].from <= hour /\ hour < def[s][i].to
  BY <1>5, WallclockStageHolds
<1>7. i # 0 => Advanced(s).stage = i
  BY <1>4, <1>5 DEF Advanced, ScenarioRuntime
<1>8. CASE i = 0
  <2>1. i \notin DOMAIN def[s]
    BY <1>5, <1>8
  <2> HIDE DEF i
  <2> QED BY <1>6, <2>1
<1>9. CASE i # 0
  <2> HIDE DEF i
  <2> QED BY <1>3, <1>6, <1>7, <1>9
<1> QED BY <1>8, <1>9

(* The further the time, the nearer an interpolation is to its end. *)
LEMMA LerpNears ==
  ASSUME NEW a \in Int, NEW b \in Int, NEW d \in Nat \ {0}, NEW n \in 0 .. d,
         NEW m \in 0 .. d, n <= m
  PROVE  Abs(b - Lerp(a, b, m, d)) <= Abs(b - Lerp(a, b, n, d))
<1> DEFINE g == b - a
           x == g * n
           y == g * m
           q == x \div d
           r == y \div d
<1>1. g \in Int /\ n \in Nat /\ m \in Nat /\ n <= d /\ m <= d
  OBVIOUS
<1>2. x \in Int /\ y \in Int /\ Lerp(a, b, n, d) = a + q /\ Lerp(a, b, m, d) = a + r
  BY <1>1 DEF Lerp
<1>3. /\ Lerp(a, b, n, d) \in Int /\ Lower(a, b) <= Lerp(a, b, n, d)
      /\ Lerp(a, b, n, d) <= Higher(a, b)
      /\ Lerp(a, b, m, d) \in Int /\ Lower(a, b) <= Lerp(a, b, m, d)
      /\ Lerp(a, b, m, d) <= Higher(a, b)
  BY LerpIsBetween
<1>4. q \in Int /\ r \in Int
  <2> HIDE DEF x, y
  <2> QED BY <1>2, Quotient DEF IsQuotient
<1>5. CASE g >= 0
  <2>1. x <= y
    <3> HIDE DEF g
    <3> QED BY <1>1, <1>5, SMTT(30)
  <2>2. q <= r
    <3> HIDE DEF x, y
    <3> QED BY <1>2, <2>1, QuotientGrows
  <2> HIDE DEF q, r
  <2> QED BY <1>2, <1>3, <1>4, <1>5, <2>2 DEF Lower, Higher, Abs
<1>6. CASE g < 0
  <2>1. y <= x
    <3> HIDE DEF g
    <3> QED BY <1>1, <1>6, SMTT(30)
  <2>2. r <= q
    <3> HIDE DEF x, y
    <3> QED BY <1>2, <2>1, QuotientGrows
  <2> HIDE DEF q, r
  <2> QED BY <1>2, <1>3, <1>4, <1>6, <2>2 DEF Lower, Higher, Abs
<1> QED BY <1>1, <1>5, <1>6

(* A time held inside its stage only grows with the next hour. *)
LEMMA ClampGrows ==
  ASSUME NEW n \in Nat, NEW d \in Nat \ {0}, NEW m, m = Lower(n + 1, d)
  PROVE  /\ Clamp(n, 0, d) \in 0 .. d /\ Clamp(m, 0, d) \in 0 .. d
         /\ Clamp(n, 0, d) <= Clamp(m, 0, d)
<1>1. d \in Int /\ n \in Int /\ 0 <= n /\ 0 < d
  OBVIOUS
<1>2. (n + 1 <= d => m = n + 1) /\ (n + 1 > d => m = d)
  BY <1>1 DEF Lower
<1>3. m \in Int /\ 0 <= m /\ m <= d
  BY <1>1, <1>2
<1>4. Clamp(m, 0, d) = m
  BY <1>1, <1>3 DEF Clamp
<1>5. Clamp(n, 0, d) = IF n > d THEN d ELSE n
  BY <1>1 DEF Clamp
<1> QED BY <1>1, <1>2, <1>3, <1>4, <1>5

(* A stage that is held goes on towards its second bias. *)
LEMMA HeldGoesOn ==
  ASSUME ScenariosInv, HourPasses, NEW s \in Name, runtime[s].manual
  PROVE  Abs(def[s][runtime[s].stage].bias_to - Now(s)')
           <= Abs(def[s][runtime[s].stage].bias_to - Now(s))
<1> DEFINE r == runtime[s]
           st == def[s][r.stage]
           d == Length(st)
           f == st.bias_from
           t == st.bias_to
           n == r.age
           m == Lower(n + 1, d)
<1>1. r \in ScenarioRuntime /\ st \in Stage
  BY DEF ScenariosInv, ScenariosTypeOK
<1>2. runtime'[s] = [r EXCEPT !.age = m] /\ def' = def
  BY DEF HourPasses
<1>3. /\ f \in Int /\ t \in Int /\ n \in Nat /\ d \in Nat \ {0}
      /\ d = Higher(1, st.to - st.from)
  <2> HIDE DEF r, st
  <2>1. Hours \in Nat /\ Bias \subseteq Int
    BY ScenariosAssumption
  <2>2. st.from \in 0 .. Hours - 1 /\ st.to \in 1 .. Hours /\ n \in 0 .. Hours
    BY <1>1 DEF Stage, Hour, ScenarioRuntime
  <2>3. f \in Int /\ t \in Int
    BY <1>1, <2>1 DEF Stage
  <2>4. n \in Nat /\ st.to - st.from \in Int
    BY <2>1, <2>2
  <2> QED BY <2>3, <2>4 DEF Length, Higher
<1>4. /\ runtime'[s].manual /\ runtime'[s].age = m /\ runtime'[s].stage = r.stage
  <2> HIDE DEF m, r
  <2> QED BY <1>1, <1>2 DEF ScenarioRuntime, r
<1>5. Now(s) = Lerp(f, t, Clamp(n, 0, d), d)
  BY <1>3 DEF Now, StageBiasNow, StageBias
<1>6. Now(s)' = Lerp(f, t, Clamp(m, 0, d), d)
  <2>1. Now(s)' = StageBiasNow(st, runtime'[s], hour')
    BY <1>2, <1>4 DEF Now
  <2>2. StageBiasNow(st, runtime'[s], hour') = StageBias(f, t, m, st.to - st.from)
    BY <1>4 DEF StageBiasNow
  <2> QED BY <1>3, <2>1, <2>2 DEF StageBias
<1>7. /\ Clamp(n, 0, d) \in 0 .. d /\ Clamp(m, 0, d) \in 0 .. d
      /\ Clamp(n, 0, d) <= Clamp(m, 0, d)
  <2> HIDE DEF n, d
  <2>1. m = Lower(n + 1, d)
    OBVIOUS
  <2> HIDE DEF m
  <2> QED BY <1>3, <2>1, ClampGrows
<1> DEFINE v == Clamp(n, 0, d)
           w == Clamp(m, 0, d)
<1>8. /\ Now(s) = Lerp(f, t, v, d) /\ Now(s)' = Lerp(f, t, w, d)
      /\ v \in 0 .. d /\ w \in 0 .. d /\ v <= w
  BY <1>5, <1>6, <1>7
<1> HIDE DEF f, t, d, v, w
<1>9. Abs(t - Lerp(f, t, w, d)) <= Abs(t - Lerp(f, t, v, d))
  BY <1>3, <1>8, LerpNears
<1> QED BY <1>8, <1>9 DEF t

(* The tick neither overrules the operator nor lags behind the clock, and  *)
(* what the operator holds plays once (pick_active_stage and               *)
(* stage_bias_now, src/scenarios.rs). *)
THEOREM ScenariosPickIsRight == ScenariosSpec => PickIsRight
<1>1. ScenariosInv /\ [ScenariosNext]_scenariosVars
        => [PickActiveStage =>
              \A s \in Name : runtime[s].manual => runtime'[s] = runtime[s]]_scenariosVars
  BY ManualStays
<1>2. ScenariosInv /\ [ScenariosNext]_scenariosVars
        => [PickActiveStage =>
              \A s \in Name :
                (Running(s) /\ \A z \in Name \ {s} : ~Running(z)) =>
                   \A p \in picked' :
                     \/ runtime[s].manual
                     \/ p.stage.from <= hour /\ hour < p.stage.to
                     \/ \A i \in DOMAIN def[s] :
                          hour \notin def[s][i].from .. def[s][i].to - 1]_scenariosVars
  BY PickFollows
<1>3. ScenariosInv /\ [ScenariosNext]_scenariosVars
        => [HourPasses =>
              \A s \in Name : runtime[s].manual =>
                Abs(def[s][runtime[s].stage].bias_to - Now(s)')
                  <= Abs(def[s][runtime[s].stage].bias_to - Now(s))]_scenariosVars
  BY HeldGoesOn
<1>4. ScenariosSpec => ManualStageStays
  BY <1>1, ScenariosInvariant, PTL DEF ScenariosSpec, ManualStageStays
<1>5. ScenariosSpec => PickFollowsTheClock
  BY <1>2, ScenariosInvariant, PTL DEF ScenariosSpec, PickFollowsTheClock
<1>6. ScenariosSpec => HeldStagePlaysOnce
  BY <1>3, ScenariosInvariant, PTL DEF ScenariosSpec, HeldStagePlaysOnce
<1> QED BY <1>4, <1>5, <1>6 DEF PickIsRight
=============================================================================
