------------------------------- MODULE Tables -------------------------------
(***************************************************************************)
(* The pure functions that sizes, spreads, rates and prices are read from  *)
(* (src/sim/counterparty.rs, curve.rs, demand.rs, decimal.rs, market.rs).  *)
(*                                                                         *)
(* Numbers are integers: a price counts parts of a tick, a rate counts     *)
(* milliseconds, a time seconds, a time of day minutes, a bias hundredths. *)
(* Where the code divides decimals or floats, the quotient is cut to an    *)
(* integer.  Tables start at 1 here; offsets and profiles keep the code's  *)
(* count from 0.                                                           *)
(***************************************************************************)
EXTENDS Integers, Sequences

Lower(x, y) == IF x < y THEN x ELSE y
Higher(x, y) == IF x > y THEN x ELSE y
Abs(x) == IF x < 0 THEN -x ELSE x
Sign(x) == IF x < 0 THEN -1 ELSE 1
Clamp(x, lo, hi) == IF x < lo THEN lo ELSE IF x > hi THEN hi ELSE x

-----------------------------------------------------------------------------
(* The grids.                                                              *)

(* snap_to_tick: the nearest tick, half a tick away from zero.             *)
SnapToTick(x, tick) ==
  Sign(x) * ((2 * Abs(x) + tick) \div (2 * tick)) * tick

IsMultipleOf(x, step) == x % step = 0

(* A period starts on a full minute that its length, in minutes, divides.  *)
IsAligned(start, minutes) == start % 60 = 0 /\ (start \div 60) % minutes = 0

NextQuarterBoundary(t) == (t \div 900 + 1) * 900

(* How many quarters after the next boundary a period starts.              *)
QuartersAhead(start, t) == Higher(0, (start - NextQuarterBoundary(t)) \div 900)

-----------------------------------------------------------------------------
(* The recipes of a fleet.                                                 *)

(* A maker's band: the window is cut into as many pieces as there are      *)
(* bands, and what lies past the window has the last one.                  *)
BandIndex(offset, bands, window) ==
  Clamp((Higher(0, offset) * bands) \div Higher(1, window), 0, bands - 1)
BandFor(table, offset, window) == table[BandIndex(offset, Len(table), window) + 1]

(* An aggressor's size, and its rate for a contract that many quarters out.*)
ProfileEntry(table, profile) == table[Lower(profile, Len(table) - 1) + 1]
RateMsFor(bases, profile, offset) ==
  Higher(50, ProfileEntry(bases, profile) * (Higher(0, offset) + 1))

(* gate_close_scale, in 7200ths: once the base two hours before the gate,  *)
(* three times that at the gate.                                           *)
GateCloseScale(gate, t) == 7200 + 2 * Clamp(7200 - Higher(0, gate - t), 0, 7200)

(* How long an aggressor waits for its next shot.                          *)
Wait(rate_ms, gate, t) == Higher(50, (rate_ms * 7200) \div GateCloseScale(gate, t))

-----------------------------------------------------------------------------
(* The curves.                                                             *)

(* n / d of the way from a to b.                                           *)
Lerp(a, b, n, d) == a + ((b - a) * n) \div d

(* The forward curve: 25 anchors, the last one the first one again.        *)
Anchors == [0 .. 24 -> Int]
PointAt(anchors, minute) ==
  LET h == minute % 1440
      lo == h \div 60 IN
  Lerp(anchors[lo], anchors[lo + 1], h % 60, 60)

SetBasePriceAt(anchors, h, price) ==
  [i \in 0 .. 24 |-> IF i = h \/ {i, h} = {0, 24} THEN price ELSE anchors[i]]

(* The bias of the day without a scenario.                                 *)
NaturalDuckBias(minute) ==
  LET h == minute % 1440 IN
  CASE h < 300  -> 50
    [] h >= 300 /\ h < 540   -> Lerp(50, 62, h - 300, 240)
    [] h >= 540 /\ h < 600   -> 55
    [] h >= 600 /\ h < 900   -> 35
    [] h >= 900 /\ h < 1020  -> 50
    [] h >= 1020 /\ h < 1260 -> 72
    [] h >= 1260 /\ h < 1380 -> 60
    [] OTHER -> 50

(* The bias of a stage that has been on for `elapsed' of its `length'.     *)
StageBias(from, to, elapsed, length) ==
  LET d == Higher(1, length) IN Lerp(from, to, Clamp(elapsed, 0, d), d)

(* What a counterparty is told: the scenario's bias, as far as the weight  *)
(* n / d of the contract's distance lets it through.                       *)
EffectiveBias(natural, stage, n, d) == Clamp(Lerp(natural, stage, n, d), 0, 100)
=============================================================================
