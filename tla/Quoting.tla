------------------------------ MODULE Quoting ------------------------------
(***************************************************************************)
(* How one contract is priced: the bias tick writes the fundamentals and   *)
(* the tilt, the market maker walks its reference and re-posts its pair,   *)
(* an aggressor takes what lies within its slippage                        *)
(* (src/sim/counterparty.rs, src/scenarios.rs, src/sim/fleet.rs).          *)
(*                                                                         *)
(* Prices are integers, Tick of them to the market's price tick.  Of the   *)
(* exchange this module keeps what the pricing sees: the maker's pair, one *)
(* resting order of somebody else, the last print, and the lock that a     *)
(* refresh holds from its first to its last line.  Every order is one lot. *)
(* A fraction of a gap is cut to an integer; the code keeps 28 digits.     *)
(***************************************************************************)
EXTENDS Tables

CONSTANTS
  Tick,                  \* integers per price tick
  Fundamentals,          \* what curve and weather may give
  Tilts,                 \* (bias - 0.5) * bias_scale
  Recipes,               \* what MmFleetParams may hold
  Window,                \* quarters of delivery the fleet quotes
  UserPrices,            \* limits of the other participants' orders
  Walk,                  \* steps of the random walk
  MeanRevert,            \* the reference closes 1/MeanRevert of the gap to the
                         \* baseline, fewer than the whole: 1/50 in the code
  FollowOf,              \* and follow/FollowOf of that to the last print, which
                         \* a recipe sets between nothing and the whole of it
  MaxSlippage,
  Nothing                \* no order, no print, no step under way

ASSUME QuotingAssumption ==
  /\ Tick \in Nat \ {0} /\ MeanRevert \in Nat \ {0, 1} /\ FollowOf \in Nat \ {0}
  /\ MaxSlippage \in Nat /\ Window \in Nat \ {0}
  /\ Fundamentals \subseteq Int /\ Tilts \subseteq Int
  /\ UserPrices \subseteq Int /\ Walk \subseteq Int /\ Nothing \notin Int
  /\ \A r \in Recipes :
       r \in [spreads: Seq(Nat) \ {<<>>}, onGrid: BOOLEAN, follow: 0 .. FollowOf]

Side == {"buy", "sell"}

VARIABLES
  recipe,     \* the fleet's shared_params, rewritten by a reload
  quarters,   \* how many quarters ahead the contract's delivery is
  config,     \* the maker's SharedConfig
  fair,       \* the aggressor's reference_price
  biasing,    \* the bias tick between its two writes, or Nothing
  step,       \* the maker: "stamp", "read", "write", "post"
  known,      \* the config step_reference copied
  suspended,
  bid, ask,   \* the maker's pair
  stray,      \* one resting order of somebody else, or Nothing
  last,       \* price of the last print
  told        \* what the tick last gave the maker (history)

book == <<bid, ask, stray, last>>
maker == <<step, known>>
vars == <<recipe, quarters, config, fair, biasing, maker, suspended, book, told>>

Snap(x) == SnapToTick(x, Tick)

(* A fraction n/d of a gap. *)
Part(gap, n, d) == Sign(gap) * ((n * Abs(gap)) \div d)

Init ==
  /\ recipe \in Recipes /\ quarters = Window - 1 /\ \E f \in Fundamentals :
       /\ config = [baseline |-> f, reference |-> f, tilt |-> 0,
                    spread |-> BandFor(recipe.spreads, quarters, Window),
                    onGrid |-> recipe.onGrid, follow |-> recipe.follow]
       /\ fair = f /\ told = [baseline |-> f, tilt |-> 0]
  /\ biasing = Nothing /\ step = "stamp" /\ known = Nothing
  /\ suspended = FALSE
  /\ bid = Nothing /\ ask = Nothing /\ stray = Nothing /\ last = Nothing

-----------------------------------------------------------------------------
(* The exchange, one side at a time.                                       *)
Crosses(side, limit, price) ==
  price # Nothing /\ IF side = "buy" THEN price <= limit ELSE price >= limit

StrayCrosses(side, limit) ==
  stray # Nothing /\ stray.side # side /\ Crosses(side, limit, stray.price)

Admitted(onGrid) == ~suspended /\ onGrid

Printed(price) == last' = price

-----------------------------------------------------------------------------
(* The bias tick: aggressors first, then makers, each under its own lock.  *)
BiasAggressor(f, t) ==
  /\ biasing = Nothing
  /\ fair' = f /\ biasing' = [baseline |-> f, tilt |-> t]
  /\ UNCHANGED <<recipe, quarters, config, maker, suspended, book, told>>

BiasMaker ==
  /\ biasing # Nothing
  /\ config' = [config EXCEPT !.baseline = biasing.baseline, !.tilt = biasing.tilt]
  /\ told' = biasing /\ biasing' = Nothing
  /\ UNCHANGED <<recipe, quarters, fair, maker, suspended, book>>

Reload(r) ==
  /\ recipe' = r
  /\ UNCHANGED <<quarters, config, fair, biasing, maker, suspended, book, told>>

QuarterPasses ==
  /\ quarters > 0 /\ quarters' = quarters - 1
  /\ UNCHANGED <<recipe, config, fair, biasing, maker, suspended, book, told>>

SetSuspended(s) ==
  /\ s # suspended /\ suspended' = s
  /\ UNCHANGED <<recipe, quarters, config, fair, biasing, maker, book, told>>

-----------------------------------------------------------------------------
(* The maker's loop: stamp the recipe, then refresh under the exchange's   *)
(* lock.  The config has a lock of its own, taken and left three times.    *)
Stamp ==
  /\ step = "stamp"
  /\ config' = [config EXCEPT !.spread = BandFor(recipe.spreads, quarters, Window),
                              !.onGrid = recipe.onGrid, !.follow = recipe.follow]
  /\ step' = "read"
  /\ UNCHANGED <<recipe, quarters, fair, biasing, known, suspended, book, told>>

ReadConfig ==
  /\ step = "read" /\ step' = "write"
  /\ known' = config
  /\ UNCHANGED <<recipe, quarters, config, fair, biasing, suspended, book, told>>

(* The three parts of step_reference.                                      *)
Stepped(w) ==
  known.reference + Part(known.baseline - known.reference, 1, MeanRevert)
  + (IF last = Nothing THEN 0 ELSE Part(last - known.reference, known.follow, FollowOf)) + w

WrongStepReference(w) ==
  /\ step = "write" /\ step' = "post"
  /\ config' = [known EXCEPT !.reference = Stepped(w)]
  /\ UNCHANGED <<recipe, quarters, fair, biasing, known, suspended, book, told>>
StepReference(w) ==
  /\ step = "write" /\ step' = "post"
  /\ config' = [config EXCEPT !.reference = Stepped(w)]
  /\ UNCHANGED <<recipe, quarters, fair, biasing, known, suspended, book, told>>

(* The pair: both prices from one copy of the config.                      *)
BidPrice == Snap(config.reference - config.spread + config.tilt)
AskPrice == Snap(config.reference + config.spread + config.tilt)

(* A collapsed pair leaves the old one resting.  Otherwise the old one is  *)
(* cancelled and both sides are submitted; a side that is refused is       *)
(* simply not there.                                                       *)
Post ==
  /\ step = "post" /\ step' = "stamp"
  /\ known' = Nothing
  /\ IF BidPrice >= AskPrice THEN UNCHANGED book
     ELSE IF ~Admitted(config.onGrid)
     THEN bid' = Nothing /\ ask' = Nothing /\ UNCHANGED <<stray, last>>
     ELSE IF StrayCrosses("buy", BidPrice)
     THEN bid' = Nothing /\ ask' = AskPrice /\ stray' = Nothing /\ Printed(stray.price)
     ELSE IF StrayCrosses("sell", AskPrice)
     THEN bid' = BidPrice /\ ask' = Nothing /\ stray' = Nothing /\ Printed(stray.price)
     ELSE bid' = BidPrice /\ ask' = AskPrice /\ UNCHANGED <<stray, last>>
  /\ UNCHANGED <<recipe, quarters, config, fair, biasing, suspended, told>>

-----------------------------------------------------------------------------
(* The other participants, between two refreshes.                          *)
LockFree == step \in {"stamp", "read"}

(* The best price an order on one side meets.                              *)
Best(side) ==
  LET quote == IF side = "buy" THEN ask ELSE bid
      other == IF stray # Nothing /\ stray.side # side THEN stray.price ELSE Nothing IN
  IF quote = Nothing THEN other
  ELSE IF other = Nothing THEN quote
  ELSE IF side = "buy" THEN Lower(quote, other) ELSE Higher(quote, other)

Take(side) ==
  /\ Printed(Best(side))
  /\ IF stray # Nothing /\ stray.side # side /\ stray.price = Best(side)
     THEN stray' = Nothing /\ UNCHANGED <<bid, ask>>
     ELSE /\ UNCHANGED stray
          /\ IF side = "buy" THEN ask' = Nothing /\ UNCHANGED bid
             ELSE bid' = Nothing /\ UNCHANGED ask

UserOrder(side, limit) ==
  /\ LockFree /\ ~suspended
  /\ IF Crosses(side, limit, Best(side)) THEN Take(side)
     ELSE /\ stray = Nothing /\ stray' = [side |-> side, price |-> limit]
          /\ UNCHANGED <<bid, ask, last>>
  /\ UNCHANGED <<recipe, quarters, config, fair, biasing, maker, suspended, told>>

UserCancels ==
  /\ LockFree /\ stray # Nothing /\ stray' = Nothing
  /\ UNCHANGED <<recipe, quarters, config, fair, biasing, maker, suspended, bid, ask, last,
                 told>>

(* The aggressor's limit, never below one tick.                            *)
WrongLimit(side) ==
  Higher(Tick, IF side = "buy" THEN Snap(fair) + 2 * MaxSlippage + Tick ELSE Tick)
Limit(side) ==
  Higher(Tick, Snap(IF side = "buy" THEN fair + MaxSlippage ELSE fair - MaxSlippage))

Fire(side) ==
  /\ LockFree /\ ~suspended
  /\ Crosses(side, Limit(side), Best(side))
  /\ Take(side)
  /\ UNCHANGED <<recipe, quarters, config, fair, biasing, maker, suspended, told>>

Next ==
  \/ \E f \in Fundamentals, t \in Tilts : BiasAggressor(f, t)
  \/ BiasMaker \/ (\E r \in Recipes : Reload(r)) \/ QuarterPasses
  \/ (\E s \in BOOLEAN : SetSuspended(s))
  \/ Stamp \/ ReadConfig \/ (\E w \in Walk : StepReference(w)) \/ Post
  \/ (\E side \in Side, p \in UserPrices : UserOrder(side, p)) \/ UserCancels
  \/ \E side \in Side : Fire(side)

Spec == Init /\ [][Next]_vars

-----------------------------------------------------------------------------
Price == Int \cup {Nothing}
ConfigType ==
  [baseline: Int, reference: Int, tilt: Int, spread: Nat, onGrid: BOOLEAN, follow: 0 .. FollowOf]
(* Every variable stays in its type, and what the maker quotes is on the   *)
(* price grid.                                                             *)
TypeOK ==
  /\ recipe \in Recipes /\ quarters \in 0 .. Window - 1 /\ config \in ConfigType /\ known \in ConfigType \cup {Nothing}
  /\ fair \in Fundamentals /\ suspended \in BOOLEAN
  /\ step \in {"stamp", "read", "write", "post"}
  /\ \A p \in {bid, ask} \ {Nothing} : p \in Int /\ p % Tick = 0
  /\ last \in Price /\ (stray = Nothing \/ stray \in [side: Side, price: UserPrices])

(* The tick's fundamentals and tilt survive a refresh that was under way   *)
(* when they were written: the maker writes back its reference and nothing *)
(* else (step_reference, src/sim/counterparty.rs:290-327).                 *)
BiasIsKept ==
  config.baseline = told.baseline /\ config.tilt = told.tilt

(* A bias tick in the middle of a refresh is not undone.                   *)
QuotingConsistent == TypeOK /\ BiasIsKept

(* Without noise one refresh moves the reference no further than the       *)
(* farthest of itself, fundamentals and last print, all as of one moment.  *)
(* Two pulls that close more than the whole gap between them, as a recipe  *)
(* that snaps to the last print has it, overshoot by the pull towards the  *)
(* fundamentals at most (step_reference, src/sim/counterparty.rs:290-327,  *)
(* for every follow_last_trade of lines 69-72).                            *)
WholeGapAtMost == FollowOf + MeanRevert * known.follow <= MeanRevert * FollowOf
Overshoot ==
  IF last = Nothing \/ WholeGapAtMost THEN 0
  ELSE Abs(Part(known.baseline - known.reference, 1, MeanRevert))
Guides == {known.reference, known.baseline} \cup ({last} \ {Nothing})
ReferenceInMarket ==
  [][step = "write" /\ step' = "post" /\ Walk = {0} =>
       \E low, high \in Guides :
         /\ low - Overshoot <= config'.reference
         /\ config'.reference <= high + Overshoot]_vars

(* What the aggressor gives away against its reference.                    *)
Slip(side) == IF side = "buy" THEN Best(side) - fair ELSE fair - Best(side)

(* While its limit is a positive price, what an aggressor pays is within   *)
(* its slippage of what it last thought the contract worth, a stray order  *)
(* included (Aggressor::fire, src/sim/counterparty.rs:502-540).            *)
FairTakes ==
  [][\A side \in Side : Fire(side) /\ fair + MaxSlippage >= Tick =>
       Slip(side) <= MaxSlippage + Tick]_vars

(* Neither strategy follows its own prices away: what a maker quotes       *)
(* around and what an aggressor gives stay near the market.                *)
PricesInMarket == ReferenceInMarket /\ FairTakes

(* src/sim/counterparty.rs:384 of max_slippage: "Maximum slippage (EUR)    *)
(* from reference the aggressor accepts".                                  *)
SlippageBounded ==
  [][\A side \in Side : Fire(side) => Slip(side) <= MaxSlippage + Tick]_vars

(* src/sim/counterparty.rs:224 of refresh: "only once the new pair is      *)
(* known to be valid" are the old quotes cancelled.                        *)
QuotesSurviveRefresh ==
  [][step = "post" /\ step' = "stamp" /\ bid # Nothing /\ ask # Nothing
       => bid' # Nothing \/ ask' # Nothing]_vars
=============================================================================
