------------------------------- MODULE Fleet -------------------------------
(***************************************************************************)
(* The synthetic counterparties (src/sim/fleet.rs, src/sim/counterparty.rs)*)
(* A fleet keeps one market-maker task and a few aggressor tasks on every  *)
(* contract of a rolling window.  A lifecycle task wakes at each quarter   *)
(* boundary, signals the tasks of gated contracts to retire and spawns the *)
(* contracts that entered the window.  The exchange itself is World: here  *)
(* its books are reduced to the quotes the market makers have resting.     *)
(*                                                                         *)
(* Time is counted in quarters: contract p is the one delivered from p on, *)
(* and it is gated once p <= now.                                          *)
(***************************************************************************)
EXTENDS Integers, FiniteSets

CONSTANTS
  Area,            \* the areas the market makers quote in
  Specs,           \* the fleets a configuration may ask for
  MaxWindow,       \* most contracts a fleet covers
  MaxProfiles,     \* most aggressor profiles a recipe lists
  MaxTime          \* last quarter explored

(* What make-mm-fleet and make-aggressor-fleet are given: is there a fleet *)
(* of makers, how many aggressor profiles, and window_quarters.            *)
FleetSpec ==
  [makers: BOOLEAN, profiles: 0 .. MaxProfiles, window: 1 .. MaxWindow]

ASSUME FleetAssumption ==
  /\ IsFiniteSet(Area)
  /\ MaxWindow \in Nat /\ MaxProfiles \in Nat /\ MaxTime \in Nat
  /\ Specs \subseteq FleetSpec

Contract == 1 .. (MaxTime + MaxWindow)
MarketMaker == 0                     \* profile number of the maker task
Task == Contract \X (0 .. MaxProfiles)
Makers == Contract \X {MarketMaker}
Aggressors == Task \ Makers

(* serial tells two orders of one slot apart; the order ids of the code    *)
(* are never reused, here a number is free again once it is off the book.  *)
Quote == [period: Contract, area: Area, side: {"Buy", "Sell"}, serial: {0, 1}]

VARIABLES
  spec,        \* the fleet that was configured
  now,         \* the wall clock
  suspended,   \* the market-wide suspension flag
  wake,        \* boundary the lifecycle task sleeps to; 0 before it sleeps
  profiles,    \* profile_sizes.len() of the shared aggressor recipe
  active,      \* keys of the FleetManager's handle maps
  retired,     \* tasks whose retire channel has been sent on
  pc,          \* where each task is in its loop
  stamp,       \* the `now` a maker read at the top of its loop
  seed,        \* what each task was seeded with
  ids,         \* bid_ids and ask_ids of each maker
  book         \* the makers' quotes that rest on the exchange

vars == <<spec, now, suspended, wake, profiles, active, retired, pc, stamp, seed, ids, book>>
tasks == <<pc, stamp, ids>>

NextBoundary(t) == t + 1
WindowFrom(base) == base .. (base + spec.window - 1)

(* The keys one pass over the recipe asks for.                             *)
Covered(base) ==
  WindowFrom(base) \X ((IF spec.makers THEN {MarketMaker} ELSE {}) \cup 1 .. profiles)

(* Keys a roll-forward retires, and the ones it has to spawn.              *)
GatedKeys(base) == {t \in active : t[1] < base}
WrongMissingKeys(base) == {t \in Covered(base) \ active : t[1] = base + spec.window - 1}
MissingKeys(base) == Covered(base) \ active

(* spawn_mm_contract and spawn_aggressor_contract: what tells one new task *)
(* from another is what its random draws are seeded with, counted from the *)
(* fleet's seed_base.                                                      *)
MakerSeed(t, base) == t[1] - base
AggressorSeed(t, base) == (t[1] - base) * 100 + t[2] - 1
SeedFor(t, base) == IF t \in Makers THEN MakerSeed(t, base) ELSE AggressorSeed(t, base)

Init ==
  /\ now = 0 /\ suspended = FALSE /\ wake = 0
  /\ spec \in Specs /\ profiles = spec.profiles
  /\ active = Covered(NextBoundary(now))
  /\ retired = {}
  /\ pc = [t \in Task |-> IF t \in active THEN "top" ELSE "none"]
  /\ stamp = [t \in Makers |-> 0]
  /\ seed = [t \in Task |-> IF t \in active THEN SeedFor(t, NextBoundary(now)) ELSE 0]
  /\ ids = [t \in Makers |-> {}]
  /\ book = {}

-----------------------------------------------------------------------------
(* The lifecycle task: sleep to the next boundary, then roll.  Reading the *)
(* clock and rolling are apart, so a boundary can be slept through.        *)
Arm ==
  /\ wake = 0
  /\ wake' = NextBoundary(now)
  /\ UNCHANGED <<spec, now, suspended, profiles, active, retired, seed, book, tasks>>

RollForward ==
  LET base == NextBoundary(now)
      gone == GatedKeys(base)
      new == MissingKeys(base) IN
  /\ wake # 0 /\ now >= wake
  /\ wake' = 0
  /\ retired' = retired \cup gone
  /\ active' = (active \ gone) \cup new
  /\ pc' = [t \in Task |-> IF t \in new THEN "top" ELSE pc[t]]
  /\ seed' = [t \in Task |-> IF t \in new THEN SeedFor(t, base) ELSE seed[t]]
  /\ ids' = [t \in Makers |-> IF t \in new THEN {} ELSE ids[t]]
  /\ UNCHANGED <<spec, now, suspended, profiles, stamp, book>>

-----------------------------------------------------------------------------
(* The market-maker task.                                                  *)

(* What the book keeps when a maker cancels every id it remembers.         *)
Withdrawn(t) == book \ ids[t]

(* A fresh bid and ask in every area: the exchange admits them while the   *)
(* market is open and the contract's gate lies after the maker's stamp.    *)
Admitted(t) == ~suspended /\ stamp[t] < t[1]
FreshQuotes(t, kept) ==
  { [period |-> t[1], area |-> a, side |-> s,
     serial |-> CHOOSE n \in {0, 1} :
        [period |-> t[1], area |-> a, side |-> s, serial |-> n] \notin kept \/ n = 1] :
    a \in Area, s \in {"Buy", "Sell"} }

(* `let now = Utc::now()` at the top of the loop, before the world lock.   *)
ReadClock(t) ==
  /\ pc[t] = "top"
  /\ pc' = [pc EXCEPT ![t] = "stamped"]
  /\ stamp' = [stamp EXCEPT ![t] = now]
  /\ UNCHANGED <<spec, now, suspended, wake, profiles, active, retired, seed, ids, book>>

(* A collapsed spread leaves the old pair in place.  Quotes filled as they *)
(* arrive are this step followed by TakeQuotes.                            *)
Refresh(t) ==
  /\ pc[t] = "stamped"
  /\ pc' = [pc EXCEPT ![t] = "waiting"]
  /\ \/ UNCHANGED <<ids, book>>
     \/ LET posted == IF Admitted(t) THEN FreshQuotes(t, Withdrawn(t)) ELSE {} IN
        /\ ids' = [ids EXCEPT ![t] = posted]
        /\ book' = Withdrawn(t) \cup posted
  /\ stamp' = [stamp EXCEPT ![t] = 0]        \* the local is out of scope
  /\ UNCHANGED <<spec, now, suspended, wake, profiles, active, retired, seed>>

Sleep(t) ==
  /\ pc[t] = "waiting"
  /\ pc' = [pc EXCEPT ![t] = "top"]
  /\ UNCHANGED <<spec, now, suspended, wake, profiles, active, retired, seed, stamp, ids, book>>

WrongCancelRestingAtGate(t) ==           \* ends by itself at the gate
  /\ pc[t] = "waiting" /\ t[1] <= now
  /\ pc' = [pc EXCEPT ![t] = "leaving"]
  /\ book' = Withdrawn(t)
  /\ ids' = [ids EXCEPT ![t] = {}]
  /\ UNCHANGED <<spec, now, suspended, wake, profiles, active, retired, seed, stamp>>
WrongCancelRestingOfAll(t) ==            \* waits until every id is on the book
  /\ pc[t] = "waiting" /\ t \in retired /\ ids[t] \subseteq book
  /\ pc' = [pc EXCEPT ![t] = "leaving"]
  /\ book' = Withdrawn(t)
  /\ ids' = [ids EXCEPT ![t] = {}]
  /\ UNCHANGED <<spec, now, suspended, wake, profiles, active, retired, seed, stamp>>

(* The retire arm of the select: cancel_resting under the world lock, then *)
(* the task takes its view off the registry and ends.                      *)
CancelResting(t) ==
  /\ pc[t] = "waiting" /\ t \in retired
  /\ pc' = [pc EXCEPT ![t] = "leaving"]
  /\ book' = Withdrawn(t)
  /\ ids' = [ids EXCEPT ![t] = {}]
  /\ UNCHANGED <<spec, now, suspended, wake, profiles, active, retired, seed, stamp>>

Leave(t) ==
  /\ pc[t] = "leaving"
  /\ pc' = [pc EXCEPT ![t] = "gone"]
  /\ UNCHANGED <<spec, now, suspended, wake, profiles, active, retired, seed, stamp, ids, book>>

-----------------------------------------------------------------------------
(* The aggressor task waits, then takes an opposite quote or none: an IOC  *)
(* order, so nothing of it rests.  Its clock is read under the world lock. *)
AggressorWaits(t) ==
  /\ pc[t] = "top"
  /\ pc' = [pc EXCEPT ![t] = "waiting"]
  /\ UNCHANGED <<spec, now, suspended, wake, profiles, active, retired, seed, stamp, ids, book>>

Fire(t) ==
  /\ pc[t] = "waiting"
  /\ pc' = [pc EXCEPT ![t] = "top"]
  /\ \/ UNCHANGED book
     \/ /\ ~suspended /\ now < t[1]
        /\ \E q \in book : q.period = t[1] /\ book' = book \ {q}
  /\ UNCHANGED <<spec, now, suspended, wake, profiles, active, retired, seed, stamp, ids>>

AggressorRetires(t) ==
  /\ pc[t] = "waiting" /\ t \in retired
  /\ pc' = [pc EXCEPT ![t] = "gone"]
  /\ UNCHANGED <<spec, now, suspended, wake, profiles, active, retired, seed, stamp, ids, book>>

-----------------------------------------------------------------------------
(* Everybody else: gridpool orders that take quotes, the expiry sweep, the *)
(* suspension switch, a hot reload of the recipe, and time.                *)
TakeQuotes ==
  /\ ~suspended
  /\ \E q \in book : now < q.period /\ book' = book \ {q}
  /\ UNCHANGED <<spec, now, suspended, wake, profiles, active, retired, seed, tasks>>

ExpireLapsed ==
  /\ book' = {q \in book : now < q.period}
  /\ book' # book
  /\ UNCHANGED <<spec, now, suspended, wake, profiles, active, retired, seed, tasks>>

SetSuspended ==
  /\ suspended' = ~suspended
  /\ UNCHANGED <<spec, now, wake, profiles, active, retired, seed, book, tasks>>

ReloadRecipe ==
  /\ spec.profiles > 0 /\ profiles' \in (1 .. MaxProfiles) \ {profiles}
  /\ UNCHANGED <<spec, now, suspended, wake, active, retired, seed, book, tasks>>

Tick ==
  /\ now < MaxTime
  /\ now' = now + 1
  /\ UNCHANGED <<spec, suspended, wake, profiles, active, retired, seed, book, tasks>>

MakerStep(t) == ReadClock(t) \/ Refresh(t) \/ Sleep(t) \/ CancelResting(t) \/ Leave(t)
AggressorStep(t) == AggressorWaits(t) \/ Fire(t) \/ AggressorRetires(t)

Next ==
  \/ Arm \/ RollForward
  \/ \E t \in Makers : MakerStep(t)
  \/ \E t \in Aggressors : AggressorStep(t)
  \/ TakeQuotes \/ ExpireLapsed \/ SetSuspended \/ ReloadRecipe \/ Tick

Spec == Init /\ [][Next]_vars

(* Tasks keep running and timers fire.  A maker may wake from its sleep in *)
(* the same poll in which the retire signal is ready, so retiring is only  *)
(* sure if it is ready again and again: tokio's select picks at random.    *)
(* Every task retires once, so it is enough that some retired one does.    *)
Fairness ==
  /\ WF_vars(Arm) /\ WF_vars(RollForward)
  /\ \A t \in Makers : WF_vars(ReadClock(t) \/ Refresh(t) \/ Sleep(t) \/ Leave(t))
  /\ \A t \in Aggressors : WF_vars(AggressorWaits(t) \/ Fire(t))
  /\ SF_vars(\E t \in retired : IF t \in Makers THEN CancelResting(t)
                                                 ELSE AggressorRetires(t))

FairSpec == Spec /\ Fairness

-----------------------------------------------------------------------------
Running == {t \in Task : pc[t] \notin {"none", "gone"}}

(* Every variable stays in its type.                                       *)
TypeOK ==
  /\ now \in 0 .. MaxTime /\ suspended \in BOOLEAN
  /\ wake \in 0 .. MaxTime + 1
  /\ spec \in Specs /\ profiles \in 0 .. MaxProfiles
  /\ active \subseteq Task /\ retired \subseteq Task
  /\ pc \in [Task -> {"none", "top", "stamped", "waiting", "leaving", "gone"}]
  /\ stamp \in [Makers -> 0 .. MaxTime]
  /\ \A t \in Task : seed[t] \in {0} \cup {SeedFor(t, base) : base \in t[1] - spec.window + 1 .. t[1]}
  /\ ids \in [Makers -> SUBSET Quote]
  /\ book \subseteq Quote

(* Every resting counterparty quote is remembered by a running maker of    *)
(* its own contract, so that somebody will cancel it: no maker forgets an  *)
(* order it placed, and none ends before its quotes are off the book.      *)
NoGhostQuotes ==
  \A q \in book : \E t \in Makers \cap Running : t[1] = q.period /\ q \in ids[t]

(* A maker never doubles its depth: one bid and one ask per area at most.  *)
OneQuotePerSide ==
  \A q, r \in book :
    (q.period = r.period /\ q.area = r.area /\ q.side = r.side) => q = r

(* The handle map and the tasks agree: exactly the tasks that run without  *)
(* a retire signal have a handle, so each of them can still be retired.    *)
HandlesMatchTasks == active = Running \ retired

(* The four of them, checked together.                                     *)
FleetConsistent ==
  TypeOK /\ NoGhostQuotes /\ OneQuotePerSide /\ HandlesMatchTasks

(* Each roll-forward moves the whole window, whatever boundaries were      *)
(* slept through and however the recipe's profile list has grown: every    *)
(* covered contract has its tasks, and no gated one keeps a handle.        *)
RollMovesWindow ==
  [][RollForward =>
       /\ Covered(NextBoundary(now)) \subseteq Running' \ retired'
       /\ \A t \in active' : now < t[1]]_vars

(* A task that is told to retire ends, having cancelled its quotes.        *)
RetiredTasksLeave ==
  <>[](\A t \in retired : pc[t] = "gone")

(* src/lisp/mod.rs says of the seed range that "each MM's RNG stream stays *)
(* disjoint": two makers that run together were seeded differently.        *)
DisjointSeeds ==
  \A t, u \in Makers \cap active : seed[t] = seed[u] => t = u

(* src/sim/world.rs says "Trading on a contract ends exactly at its        *)
(* delivery start time": no quote is placed on a contract that has gated.  *)
NoQuoteAfterGate ==
  [][\A q \in book' \ book : now < q.period]_vars

=============================================================================
