----------------------------- MODULE FleetProofs -----------------------------
(***************************************************************************)
(* The invariants of Fleet for any number of areas, contracts and          *)
(* profiles, any fleet and any clock; and below them those of Control,     *)
(* which makes the fleets, for any files, timers, saves and recalls.       *)
(*                                                                         *)
(* That handles and tasks agree, and that no quote outlives its maker, are *)
(* not inductive alone.  A roll-forward may spawn a task only because what *)
(* it has retired is of contracts that have gated; a maker may end only    *)
(* because it was retired and has withdrawn what it had; and a refresh     *)
(* withdraws the whole pair only because a maker remembers quotes of its   *)
(* own contract and no one else's.                                         *)
(***************************************************************************)
EXTENDS Fleet, Control, FiniteSetTheorems, TLAPS

(* What is retired has gated, and what leaves was retired. *)
RetiredHaveGated   == \A t \in retired : t[1] <= now
LeaversAreRetired  == \A t \in Task : pc[t] \in {"leaving", "gone"} => t \in retired

(* A maker remembers quotes of its own contract, and none once it leaves. *)
MakersKeepTheirOwn ==
  \A t \in Makers :
    /\ \A q \in ids[t] : q.period = t[1]
    /\ pc[t] = "leaving" => ids[t] = {}

HandlesInv == HandlesMatchTasks /\ RetiredHaveGated /\ LeaversAreRetired
QuotesInv  == NoGhostQuotes /\ OneQuotePerSide /\ MakersKeepTheirOwn

FleetInv == TypeOK /\ HandlesInv /\ QuotesInv

(* What a pass over the recipe asks for are tasks, of contracts ahead.     *)
LEMMA CoveredAreTasks ==
  ASSUME TypeOK
  PROVE  LET base == NextBoundary(now)
         IN /\ Covered(base) \subseteq Task
            /\ \A t \in Covered(base) :
                 now < t[1] /\ base \in t[1] - spec.window + 1 .. t[1]
<1>1. /\ now \in 0 .. MaxTime /\ profiles \in 0 .. MaxProfiles
      /\ spec.window \in 1 .. MaxWindow
      /\ MaxTime \in Nat /\ MaxWindow \in Nat /\ MaxProfiles \in Nat
  BY FleetAssumption DEF TypeOK, FleetSpec
<1>2. ASSUME NEW t \in Covered(NextBoundary(now))
      PROVE  /\ t \in Task /\ now < t[1]
             /\ NextBoundary(now) \in t[1] - spec.window + 1 .. t[1]
  <2>1. PICK p \in NextBoundary(now) .. (NextBoundary(now) + spec.window - 1),
             k \in {MarketMaker} \cup 1 .. profiles : t = <<p, k>>
    BY <1>2 DEF Covered, WindowFrom
  <2>2. p \in Contract /\ k \in 0 .. MaxProfiles
    BY <1>1, <2>1 DEF NextBoundary, Contract, MarketMaker
  <2>3. QED
    BY <1>1, <2>1, <2>2 DEF NextBoundary, Task
<1>3. QED
  BY <1>2

(* The tasks of a maker and of an aggressor are different ones. *)
LEMMA MakersAreTasks ==
  /\ Makers \subseteq Task /\ Aggressors \subseteq Task
  /\ \A t, u \in Makers : t[1] = u[1] => t = u
  /\ \A t \in Task : t[1] \in Contract
BY FleetAssumption DEF Makers, Aggressors, Task, MarketMaker

-----------------------------------------------------------------------------
(* Nothing is quoted before the first task runs. *)
LEMMA FleetStarts == Init => FleetInv
<1>. SUFFICES ASSUME Init PROVE FleetInv
  OBVIOUS
<1>1. /\ spec \in FleetSpec /\ now = 0
      /\ MaxTime \in Nat /\ MaxWindow \in Nat /\ MaxProfiles \in Nat
  BY FleetAssumption DEF Init
<1>2. /\ profiles \in 0 .. MaxProfiles /\ spec.window \in 1 .. MaxWindow
  BY <1>1 DEF Init, FleetSpec
<1>3. Covered(NextBoundary(now)) \subseteq Task
  BY <1>1, <1>2 DEF Covered, WindowFrom, NextBoundary, Task, Contract, MarketMaker
<1>4. TypeOK
  <2>1. ASSUME NEW t \in Task
        PROVE  seed[t] \in {0} \cup {SeedFor(t, base) :
                             base \in t[1] - spec.window + 1 .. t[1]}
    <3>1. CASE t \in active
      <4>1. NextBoundary(now) \in t[1] - spec.window + 1 .. t[1]
        BY <1>1, <1>2, <3>1 DEF Init, Covered, WindowFrom, NextBoundary
      <4>2. seed[t] = SeedFor(t, NextBoundary(now))
        BY <3>1 DEF Init
      <4>3. QED
        BY <4>1, <4>2
    <3>2. QED
      BY <3>1 DEF Init
  <2>2. /\ now \in 0 .. MaxTime /\ suspended \in BOOLEAN /\ wake \in 0 .. MaxTime + 1
        /\ spec \in Specs /\ profiles \in 0 .. MaxProfiles
    <3>1. now \in 0 .. MaxTime /\ 0 \in 0 .. MaxTime + 1
      BY <1>1
    <3>2. spec \in Specs /\ wake = 0 /\ suspended = FALSE
      BY DEF Init
    <3>3. QED
      BY <1>2, <3>1, <3>2
  <2>3. /\ active \subseteq Task /\ retired \subseteq Task
        /\ pc \in [Task -> {"none", "top", "stamped", "waiting", "leaving", "gone"}]
    BY <1>3 DEF Init
  <2>4. stamp \in [Makers -> 0 .. MaxTime]
    BY <1>1 DEF Init
  <2>5. ids \in [Makers -> SUBSET Quote] /\ book \subseteq Quote
    BY DEF Init
  <2>6. QED
    BY <2>1, <2>2, <2>3, <2>4, <2>5 DEF TypeOK
<1>5. HandlesInv
  BY <1>3 DEF Init, HandlesInv, HandlesMatchTasks, RetiredHaveGated,
              LeaversAreRetired, Running
<1>6. QuotesInv
  BY MakersAreTasks DEF Init, QuotesInv, NoGhostQuotes, OneQuotePerSide,
                        MakersKeepTheirOwn
<1>7. QED
  BY <1>4, <1>5, <1>6 DEF FleetInv

(* A roll-forward starts and retires tasks, and touches no quote. *)
LEMMA RollKeepsFleet ==
  ASSUME FleetInv, RollForward
  PROVE  /\ FleetInv'
         /\ Covered(NextBoundary(now)) \subseteq Running' \ retired'
         /\ \A t \in active' : now < t[1]
<1>. DEFINE base == NextBoundary(now)
            gone == GatedKeys(base)
            new  == MissingKeys(base)
<1>1. /\ now \in Nat /\ base = now + 1
      /\ \A t \in Task : t[1] \in Int
  BY FleetAssumption DEF FleetInv, TypeOK, NextBoundary, Task, Contract
<1>2. /\ Covered(base) \subseteq Task
      /\ \A t \in Covered(base) :
           now < t[1] /\ base \in t[1] - spec.window + 1 .. t[1]
  BY CoveredAreTasks DEF FleetInv
<1>3. /\ gone \subseteq active /\ \A t \in active : t \in gone <=> t[1] < base
      /\ new = Covered(base) \ active
  BY DEF GatedKeys, MissingKeys
<1>4. /\ retired' = retired \cup gone
      /\ active' = (active \ gone) \cup new
      /\ pc' = [t \in Task |-> IF t \in new THEN "top" ELSE pc[t]]
      /\ seed' = [t \in Task |-> IF t \in new THEN SeedFor(t, base) ELSE seed[t]]
      /\ ids' = [t \in Makers |-> IF t \in new THEN {} ELSE ids[t]]
      /\ wake' = 0
      /\ UNCHANGED <<spec, now, suspended, profiles, stamp, book>>
  BY DEF RollForward
<1>. HIDE DEF base, gone, new
<1>5. active \subseteq Task /\ retired \subseteq Task
  BY DEF FleetInv, TypeOK
<1>6. \A t \in new : t \notin retired' /\ t \notin Running
  BY <1>1, <1>2, <1>3, <1>4, <1>5
  DEF FleetInv, HandlesInv, HandlesMatchTasks, RetiredHaveGated
<1>7. TypeOK'
  <2>1. ASSUME NEW t \in Task
        PROVE  seed'[t] \in {0} \cup {SeedFor(t, b) :
                              b \in t[1] - spec'.window + 1 .. t[1]}
    BY <1>2, <1>3, <1>4 DEF FleetInv, TypeOK
  <2>2. new \subseteq Task /\ gone \subseteq Task
    BY <1>2, <1>3, <1>5
  <2>3. pc' \in [Task -> {"none", "top", "stamped", "waiting", "leaving", "gone"}]
    BY <1>4 DEF FleetInv, TypeOK
  <2>4. ids' \in [Makers -> SUBSET Quote]
    BY <1>4 DEF FleetInv, TypeOK
  <2>5. wake' \in 0 .. MaxTime + 1
    BY <1>4, FleetAssumption
  <2>6. QED
    BY <1>4, <1>5, <2>1, <2>2, <2>3, <2>4, <2>5 DEF FleetInv, TypeOK
<1>8. Running' = Running \cup new
  BY <1>2, <1>3, <1>4 DEF Running
<1>9. HandlesInv'
  <2>1. HandlesMatchTasks'
    BY <1>3, <1>4, <1>6, <1>8 DEF FleetInv, HandlesInv, HandlesMatchTasks
  <2>2. RetiredHaveGated'
    BY <1>1, <1>3, <1>4, <1>5 DEF FleetInv, HandlesInv, RetiredHaveGated
  <2>3. LeaversAreRetired'
    BY <1>4 DEF FleetInv, HandlesInv, LeaversAreRetired
  <2>4. QED
    BY <2>1, <2>2, <2>3 DEF HandlesInv
<1>10. QuotesInv'
  <2>1. NoGhostQuotes'
    BY <1>4, <1>6, <1>8 DEF FleetInv, QuotesInv, NoGhostQuotes
  <2>2. OneQuotePerSide'
    BY <1>4 DEF FleetInv, QuotesInv, OneQuotePerSide
  <2>3. MakersKeepTheirOwn'
    BY <1>4, MakersAreTasks DEF FleetInv, QuotesInv, MakersKeepTheirOwn
  <2>4. QED
    BY <2>1, <2>2, <2>3 DEF QuotesInv
<1>11. Covered(base) \subseteq active'
  BY <1>1, <1>2, <1>3, <1>4, <1>5
<1>12. \A t \in active' : now < t[1]
  BY <1>1, <1>2, <1>3, <1>4, <1>5
<1>13. QED
  BY <1>7, <1>9, <1>10, <1>11, <1>12 DEF FleetInv, HandlesInv, HandlesMatchTasks, base

(* A refresh leaves the maker's old pair, or puts a new one in its place. *)
LEMMA RefreshKeepsFleet ==
  ASSUME FleetInv, NEW t \in Makers, Refresh(t)
  PROVE  FleetInv'
<1>1. t \in Task /\ t[1] \in Contract
  BY MakersAreTasks
<1>2. /\ pc[t] = "stamped" /\ pc' = [pc EXCEPT ![t] = "waiting"]
      /\ stamp' = [stamp EXCEPT ![t] = 0]
      /\ UNCHANGED <<spec, now, suspended, wake, profiles, active, retired, seed>>
  BY DEF Refresh
<1>3. Running' = Running /\ t \in Running
  BY <1>1, <1>2 DEF Running, FleetInv, TypeOK
<1>4. HandlesInv'
  BY <1>1, <1>2, <1>3 DEF FleetInv, TypeOK, HandlesInv, HandlesMatchTasks,
                          RetiredHaveGated, LeaversAreRetired
<1>5. /\ pc' \in [Task -> {"none", "top", "stamped", "waiting", "leaving", "gone"}]
      /\ stamp' \in [Makers -> 0 .. MaxTime]
  <2>1. pc' \in [Task -> {"none", "top", "stamped", "waiting", "leaving", "gone"}]
    BY <1>2 DEF FleetInv, TypeOK
  <2>2. 0 \in 0 .. MaxTime
    BY FleetAssumption
  <2>3. stamp' \in [Makers -> 0 .. MaxTime]
    BY <1>2, <2>2 DEF FleetInv, TypeOK
  <2>4. QED
    BY <2>1, <2>3
<1>6. CASE UNCHANGED <<ids, book>>
  <2>1. TypeOK'
    BY <1>2, <1>5, <1>6 DEF FleetInv, TypeOK
  <2>2. QuotesInv'
    BY <1>1, <1>2, <1>3, <1>6, MakersAreTasks
    DEF FleetInv, TypeOK, QuotesInv, NoGhostQuotes, OneQuotePerSide, MakersKeepTheirOwn
  <2>3. QED
    BY <1>4, <2>1, <2>2 DEF FleetInv
<1>7. CASE ~UNCHANGED <<ids, book>>
  <2>. DEFINE kept == Withdrawn(t)
              serial(a, s) == CHOOSE n \in {0, 1} :
                [period |-> t[1], area |-> a, side |-> s, serial |-> n] \notin kept
                  \/ n = 1
              posted == IF Admitted(t) THEN FreshQuotes(t, kept) ELSE {}
  <2>1. ids' = [ids EXCEPT ![t] = posted] /\ book' = kept \cup posted
    BY <1>7 DEF Refresh
  <2>2. \A a, s : serial(a, s) \in {0, 1}
    <3>1. \A a, s : \E n \in {0, 1} :
            [period |-> t[1], area |-> a, side |-> s, serial |-> n] \notin kept \/ n = 1
      OBVIOUS
    <3>2. QED
      BY <3>1
  <2>3. FreshQuotes(t, kept) =
          { [period |-> t[1], area |-> a, side |-> s, serial |-> serial(a, s)] :
              a \in Area, s \in {"Buy", "Sell"} }
    BY DEF FreshQuotes
  <2>. HIDE DEF serial
  <2>4. /\ posted \subseteq Quote
        /\ \A q \in posted : q.period = t[1]
        /\ \A q, r \in posted : q.area = r.area /\ q.side = r.side => q = r
    BY <1>1, <2>2, <2>3 DEF Quote
  <2>5. kept = book \ ids[t]
    BY DEF Withdrawn
  <2>. HIDE DEF kept, posted
  <2>6. \A q \in kept : q.period # t[1]
    BY <2>5, MakersAreTasks DEF FleetInv, QuotesInv, NoGhostQuotes
  <2>7. TypeOK'
    <3>1. ids' \in [Makers -> SUBSET Quote] /\ book' \subseteq Quote
      BY <2>1, <2>4, <2>5 DEF FleetInv, TypeOK
    <3>2. QED
      BY <1>2, <1>5, <3>1 DEF FleetInv, TypeOK
  <2>8. NoGhostQuotes'
    <3>1. ASSUME NEW q \in kept
          PROVE  \E u \in Makers \cap Running' : u[1] = q.period /\ q \in ids'[u]
      <4>1. PICK u \in Makers \cap Running : u[1] = q.period /\ q \in ids[u]
        BY <2>5 DEF FleetInv, QuotesInv, NoGhostQuotes
      <4>2. u # t
        BY <2>6, <4>1
      <4>3. ids'[u] = ids[u]
        BY <2>1, <4>1, <4>2 DEF FleetInv, TypeOK
      <4>4. QED
        BY <1>3, <4>1, <4>3
    <3>2. ids'[t] = posted
      BY <2>1 DEF FleetInv, TypeOK
    <3>3. QED
      BY <1>3, <2>1, <2>4, <3>1, <3>2 DEF NoGhostQuotes
  <2>9. OneQuotePerSide'
    BY <2>1, <2>4, <2>5, <2>6 DEF FleetInv, QuotesInv, OneQuotePerSide
  <2>10. MakersKeepTheirOwn'
    BY <1>1, <1>2, <2>1, <2>4, MakersAreTasks
    DEF FleetInv, TypeOK, QuotesInv, MakersKeepTheirOwn
  <2>11. QED
    BY <1>4, <2>7, <2>8, <2>9, <2>10 DEF FleetInv, QuotesInv
<1>8. QED
  BY <1>6, <1>7

(* A maker that is retired withdraws its quotes before it ends. *)
LEMMA CancelRestingKeepsFleet ==
  ASSUME FleetInv, NEW t \in Makers, CancelResting(t)
  PROVE  FleetInv'
<1>1. t \in Task
  BY MakersAreTasks
<1>2. /\ pc[t] = "waiting" /\ pc' = [pc EXCEPT ![t] = "leaving"] /\ t \in retired
      /\ book' = book \ ids[t] /\ ids' = [ids EXCEPT ![t] = {}]
      /\ UNCHANGED <<spec, now, suspended, wake, profiles, active, retired, seed, stamp>>
  BY DEF CancelResting, Withdrawn
<1>3. Running' = Running
  BY <1>1, <1>2 DEF Running, FleetInv, TypeOK
<1>4. TypeOK'
  BY <1>2 DEF FleetInv, TypeOK
<1>5. HandlesInv'
  BY <1>1, <1>2, <1>3 DEF FleetInv, TypeOK, HandlesInv, HandlesMatchTasks,
                          RetiredHaveGated, LeaversAreRetired
<1>6. QuotesInv'
  <2>1. NoGhostQuotes'
    BY <1>2, <1>3 DEF FleetInv, TypeOK, QuotesInv, NoGhostQuotes
  <2>2. OneQuotePerSide'
    BY <1>2 DEF FleetInv, QuotesInv, OneQuotePerSide
  <2>3. MakersKeepTheirOwn'
    BY <1>2, MakersAreTasks DEF FleetInv, TypeOK, QuotesInv, MakersKeepTheirOwn
  <2>4. QED
    BY <2>1, <2>2, <2>3 DEF QuotesInv
<1>7. QED
  BY <1>4, <1>5, <1>6 DEF FleetInv

(* The steps of a task's loop that move nothing but the task. *)
LEMMA LoopKeepsFleet ==
  ASSUME FleetInv, NEW t \in Task, NEW to,
         pc' = [pc EXCEPT ![t] = to],
         \/ pc[t] = "top" /\ to = "stamped"
         \/ pc[t] = "top" /\ to = "waiting"
         \/ pc[t] = "waiting" /\ to = "top"
         \/ pc[t] = "leaving" /\ to = "gone"
         \/ pc[t] = "waiting" /\ to = "gone" /\ t \in retired /\ t \notin Makers,
         stamp' \in [Makers -> 0 .. MaxTime], book' \subseteq book,
         UNCHANGED <<spec, now, suspended, wake, profiles, active, retired, seed, ids>>
  PROVE  FleetInv'
<1>1. /\ pc \in [Task -> {"none", "top", "stamped", "waiting", "leaving", "gone"}]
      /\ pc'[t] = to /\ \A u \in Task : u # t => pc'[u] = pc[u]
  BY DEF FleetInv, TypeOK
<1>2. Running' = IF to = "gone" THEN Running \ {t} ELSE Running
  BY <1>1 DEF Running
<1>3. to = "gone" => t \in retired
  BY <1>1 DEF FleetInv, HandlesInv, LeaversAreRetired
<1>4. TypeOK'
  <2>1. pc' \in [Task -> {"none", "top", "stamped", "waiting", "leaving", "gone"}]
    BY <1>1
  <2>2. QED
    BY <2>1 DEF FleetInv, TypeOK
<1>5. HandlesInv'
  <2>1. HandlesMatchTasks'
    BY <1>2, <1>3 DEF FleetInv, HandlesInv, HandlesMatchTasks
  <2>2. RetiredHaveGated' /\ LeaversAreRetired'
    BY <1>1, <1>3 DEF FleetInv, HandlesInv, RetiredHaveGated, LeaversAreRetired
  <2>3. QED
    BY <2>1, <2>2 DEF HandlesInv
<1>6. QuotesInv'
  <2>1. to = "gone" /\ t \in Makers => ids[t] = {}
    BY <1>1 DEF FleetInv, QuotesInv, MakersKeepTheirOwn
  <2>2. NoGhostQuotes'
    BY <1>2, <2>1 DEF FleetInv, QuotesInv, NoGhostQuotes
  <2>3. OneQuotePerSide'
    BY DEF FleetInv, QuotesInv, OneQuotePerSide
  <2>4. MakersKeepTheirOwn'
    BY <1>1, MakersAreTasks DEF FleetInv, QuotesInv, MakersKeepTheirOwn
  <2>5. QED
    BY <2>2, <2>3, <2>4 DEF QuotesInv
<1>7. QED
  BY <1>4, <1>5, <1>6 DEF FleetInv

(* Steps that leave the tasks alone: quotes may go, the clock may move on. *)
LEMMA OthersKeepFleet ==
  ASSUME FleetInv, TypeOK', now' >= now, book' \subseteq book,
         UNCHANGED <<active, retired, pc, ids>>
  PROVE  FleetInv'
<1>1. /\ now \in Int /\ now' \in Int /\ \A t \in Task : t[1] \in Int
  BY FleetAssumption DEF FleetInv, TypeOK, Task, Contract
<1>2. Running' = Running
  BY DEF Running
<1>3. HandlesInv'
  <2>1. RetiredHaveGated'
    BY <1>1 DEF FleetInv, TypeOK, HandlesInv, RetiredHaveGated
  <2>2. QED
    BY <1>2, <2>1 DEF FleetInv, HandlesInv, HandlesMatchTasks, LeaversAreRetired
<1>4. QuotesInv'
  BY <1>2 DEF FleetInv, QuotesInv, NoGhostQuotes, OneQuotePerSide, MakersKeepTheirOwn
<1>5. QED
  BY <1>3, <1>4 DEF FleetInv

(* Every step keeps the fleet's invariant. *)
LEMMA FleetStays == FleetInv /\ [Next]_vars => FleetInv'
<1>. SUFFICES ASSUME FleetInv, [Next]_vars PROVE FleetInv'
  OBVIOUS
<1>. TypeOK
  BY DEF FleetInv
<1>1. /\ now \in 0 .. MaxTime /\ MaxTime \in Nat /\ stamp \in [Makers -> 0 .. MaxTime]
  BY FleetAssumption DEF TypeOK
<1>2. ASSUME NEW t \in Makers, MakerStep(t)
      PROVE  FleetInv'
  <2>1. t \in Task
    BY MakersAreTasks
  <2>2. CASE ReadClock(t)
    <3>1. stamp' \in [Makers -> 0 .. MaxTime]
      BY <1>1, <2>2 DEF ReadClock
    <3>2. QED
      BY <2>1, <2>2, <3>1, LoopKeepsFleet DEF ReadClock
  <2>3. CASE Sleep(t)
    BY <1>1, <2>1, <2>3, LoopKeepsFleet DEF Sleep
  <2>4. CASE Leave(t)
    BY <1>1, <2>1, <2>4, LoopKeepsFleet DEF Leave
  <2>5. QED
    BY <1>2, <2>2, <2>3, <2>4, RefreshKeepsFleet, CancelRestingKeepsFleet DEF MakerStep
<1>3. ASSUME NEW t \in Aggressors, AggressorStep(t)
      PROVE  FleetInv'
  <2>1. t \in Task /\ t \notin Makers
    BY DEF Aggressors
  <2>2. CASE AggressorWaits(t)
    BY <1>1, <2>1, <2>2, LoopKeepsFleet DEF AggressorWaits
  <2>3. CASE Fire(t)
    BY <1>1, <2>1, <2>3, LoopKeepsFleet DEF Fire
  <2>4. CASE AggressorRetires(t)
    BY <1>1, <2>1, <2>4, LoopKeepsFleet DEF AggressorRetires
  <2>5. QED
    BY <1>3, <2>2, <2>3, <2>4 DEF AggressorStep
<1>4. CASE Arm
  <2>1. TypeOK' /\ now' >= now
    BY <1>1, <1>4 DEF Arm, NextBoundary, TypeOK, tasks
  <2>2. QED
    BY <1>4, <2>1, OthersKeepFleet DEF Arm, tasks
<1>5. CASE TakeQuotes \/ ExpireLapsed \/ SetSuspended
  <2>1. /\ book' \subseteq book /\ suspended' \in BOOLEAN
        /\ UNCHANGED <<spec, now, wake, profiles, active, retired, seed, tasks>>
    <3>1. CASE TakeQuotes
      BY <3>1 DEF TakeQuotes, TypeOK
    <3>2. CASE ExpireLapsed
      BY <3>2 DEF ExpireLapsed, TypeOK
    <3>3. CASE SetSuspended
      BY <3>3 DEF SetSuspended, TypeOK
    <3>4. QED
      BY <1>5, <3>1, <3>2, <3>3
  <2>2. TypeOK' /\ now' >= now
    BY <1>1, <2>1 DEF TypeOK, tasks
  <2>3. QED
    BY <2>1, <2>2, OthersKeepFleet DEF tasks
<1>6. CASE ReloadRecipe
  <2>1. TypeOK' /\ now' >= now
    BY <1>1, <1>6, FleetAssumption DEF ReloadRecipe, TypeOK, tasks
  <2>2. QED
    BY <1>6, <2>1, OthersKeepFleet DEF ReloadRecipe, tasks
<1>7. CASE Tick
  <2>1. TypeOK' /\ now' >= now
    BY <1>1, <1>7 DEF Tick, TypeOK, tasks
  <2>2. QED
    BY <1>7, <2>1, OthersKeepFleet DEF Tick, tasks
<1>8. CASE UNCHANGED vars
  <2>1. TypeOK' /\ now' >= now
    BY <1>1, <1>8 DEF vars, TypeOK
  <2>2. QED
    BY <1>8, <2>1, OthersKeepFleet DEF vars
<1>9. QED
  BY <1>2, <1>3, <1>4, <1>5, <1>6, <1>7, <1>8, RollKeepsFleet DEF Next

(* The inductive invariant of the fleet. *)
THEOREM FleetInvariant == Spec => []FleetInv
BY FleetStarts, FleetStays, PTL DEF Spec

(* Handles and tasks agree, no quote rests that no running maker will      *)
(* cancel, and no maker doubles its depth: whatever boundaries are slept   *)
(* through, recipes reloaded and quotes taken (fleet.rs, counterparty.rs). *)
THEOREM FleetStaysConsistent == Spec => []FleetConsistent
<1>1. FleetInv => FleetConsistent
  BY DEF FleetInv, HandlesInv, QuotesInv, FleetConsistent
<1>2. QED
  BY <1>1, FleetInvariant, PTL

(* Every roll-forward starts what the window lacks and retires what has    *)
(* gated, however late it comes (roll_forward, src/sim/fleet.rs).          *)
THEOREM FleetRollMovesWindow == Spec => RollMovesWindow
<1>1. FleetInv /\ [Next]_vars =>
        [RollForward => /\ Covered(NextBoundary(now)) \subseteq Running' \ retired'
                        /\ \A t \in active' : now < t[1]]_vars
  BY RollKeepsFleet
<1>2. QED
  BY <1>1, FleetInvariant, PTL DEF Spec, RollMovesWindow

-----------------------------------------------------------------------------
(* Control.  A load has come so far: as many forms of the file are done as *)
(* are not left, and none of them failed.                                  *)
Loading == phase \in {"boot", "reload"}
At == Len(evaluated) - Len(rest)
Past == IF Loading THEN 1 .. At ELSE Done

LoadsInv ==
  /\ disk \in Contents \cup {<< >>} /\ evaluated \in Contents \cup {<< >>}
  /\ IF Loading
     THEN /\ At \in Nat
          /\ \A i \in DOMAIN rest : rest[i] = evaluated[At + i]
          /\ \A i \in 1 .. At : evaluated[i].fn # "error"
     ELSE rest = << >>

(* A save that is not loaded is on its way to the watcher, or the watcher  *)
(* is waiting for quiet, or it is dead.                                    *)
SavesInv ==
  /\ phase = "boot" => evaluated = disk /\ dirty = {}
  /\ \/ phase \in {"debounce", "dead"} \/ "modify" \in ToSet(raised) \cup ToSet(channel)
     \/ evaluated = disk /\ dirty \cap watched = {}

(* Fleets share no cell, what runs reads the fleet's own, and what the     *)
(* forms that are done said last is there.                                 *)
CellsInv ==
  /\ \A n, m \in DOMAIN fleet : fleet[n] = fleet[m] => n = m
  /\ \A n \in DOMAIN running : running[n] = fleet[n]
  /\ \A n \in Fleets : Recipes(Past, n) # {} =>
       n \in DOMAIN fleet /\ cell[fleet[n]] = evaluated[Max(Recipes(Past, n))].params
  /\ \A k \in Knob :
       Settings(Past, k) # {} => knob[k] = evaluated[Max(Settings(Past, k))].value

(* The timers noted are those that fire again and again, all of one load;  *)
(* once a form is done they are this load's, one for each (every ...) done.*)
Repeats(done) == {i \in done : evaluated[i].fn = "every"}
TimersInv ==
  /\ {t.id : t \in Recurring} = active_timers
  /\ \A s, t \in Recurring : s.load = t.load
  /\ Past # {} =>
       /\ \A t \in Recurring : t.load = loads
       /\ active_timers = {<<loads, Len(evaluated) - i + 1>> : i \in Repeats(Past)}

ControlInv == ControlTypeOK /\ LoadsInv /\ SavesInv /\ CellsInv

-----------------------------------------------------------------------------
(* A form has the arguments its function takes.                            *)
LEMMA FormFields ==
  ASSUME NEW f \in Form
  PROVE  /\ f.fn \in {"mm-fleet", "aggressor-fleet"} => f.name \in Fleets /\ f.params \in Params
         /\ f.fn = "set" => f.knob \in Knob /\ f.value \in Setting
         /\ f.fn \in Declaration => f.item \in Item
         /\ f.fn \in {"every", "run-with-timer"} => f.recalls \in Order \cup {None}
         /\ f.fn = "watch-file" => f.path \in SupportFile
BY DEF Form, Declaration

(* A file holds forms.                                                     *)
LEMMA FilesHoldForms == Contents \cup {<< >>} \subseteq Seq(Form)
<1>1. << >> \in Seq(Form)
  OBVIOUS
<1> QED BY <1>1, ContentsAssumption

(* The form that is evaluated is the next one of the file, and is done     *)
(* afterwards.                                                             *)
LEMMA OneFormOn ==
  ASSUME ControlTypeOK, LoadsInv, NEW fn, fn # "error", Evaluating(fn)
  PROVE  /\ Head(rest) \in Form /\ Head(rest) = evaluated[At + 1] /\ Head(rest).fn = fn
         /\ At \in Nat /\ Past = 1 .. At /\ Past' = 1 .. At + 1
         /\ Len(rest) = Len(evaluated) - (At + 1) + 1
         /\ At + 1 \in DOMAIN evaluated /\ LoadsInv' /\ evaluated' = evaluated
<1>1. /\ Loading /\ rest # << >> /\ Head(rest).fn = fn /\ rest' = Tail(rest)
      /\ phase' = phase /\ evaluated' = evaluated /\ disk' = disk
  BY DEF Evaluating, Loading, notify
<1>2. rest \in Seq(Form) /\ evaluated \in Seq(Form)
  BY DEF ControlTypeOK
<1>3. Loading' /\ Len(rest') = Len(rest) - 1 /\ Len(rest) \in Nat \ {0} /\ Len(evaluated) \in Nat
  BY <1>1, <1>2 DEF Loading
<1>4. At \in Nat /\ (\A i \in DOMAIN rest : rest[i] = evaluated[At + i])
      /\ \A i \in 1 .. At : evaluated[i].fn # "error"
  BY <1>1 DEF LoadsInv
<1>5. At' = At + 1
  BY <1>1, <1>3 DEF At
<1>6. At = Len(evaluated) - Len(rest)
  BY DEF At
<1>7. Head(rest) = rest[1] /\ rest[1] \in Form /\ 1 \in DOMAIN rest
  BY <1>1, <1>2
<1>8. Head(rest) = evaluated[At + 1] /\ evaluated[At + 1].fn # "error"
  BY <1>1, <1>4, <1>7
<1>9. \A i \in DOMAIN rest' : rest'[i] = evaluated[At + 1 + i]
  <2> SUFFICES ASSUME NEW i \in DOMAIN rest' PROVE rest'[i] = evaluated[At + 1 + i]
    OBVIOUS
  <2>1. i \in Nat /\ i + 1 \in DOMAIN rest /\ rest'[i] = rest[i + 1]
    BY <1>1, <1>2, <1>3
  <2>2. At + (i + 1) = At + 1 + i
    BY <2>1, <1>4
  <2> QED BY <2>1, <2>2, <1>4
<1>10. At + 1 \in DOMAIN evaluated
  <2> HIDE DEF At
  <2> QED BY <1>2, <1>3, <1>4, <1>6
<1>11. LoadsInv'
  <2>1. \A i \in 1 .. At + 1 : evaluated[i].fn # "error"
    <3> HIDE DEF At
    <3>1. \A i \in 1 .. At + 1 : i \in 1 .. At \/ i = At + 1
      BY <1>4
    <3> QED BY <3>1, <1>4, <1>8
  <2>2. At' \in Nat /\ \A i \in 1 .. At' : evaluated'[i].fn # "error"
    <3> HIDE DEF At
    <3> QED BY <2>1, <1>1, <1>4, <1>5
  <2>3. \A i \in DOMAIN rest' : rest'[i] = evaluated'[At' + i]
    <3> HIDE DEF At
    <3> QED BY <1>1, <1>5, <1>9
  <2> QED BY <1>1, <1>3, <2>2, <2>3 DEF LoadsInv
<1>12. Past = 1 .. At /\ Past' = 1 .. At + 1
  BY <1>1, <1>3, <1>5 DEF Past
<1>13. Len(rest) = Len(evaluated) - (At + 1) + 1
  <2> HIDE DEF At
  <2> QED BY <1>3, <1>4, <1>6
<1> QED BY <1>1, <1>4, <1>7, <1>8, <1>10, <1>11, <1>12, <1>13

(* What was done is all that could be, when nothing is left or the next    *)
(* form fails.                                                             *)
LEMMA PastIsDone ==
  ASSUME ControlTypeOK, LoadsInv, Loading, rest = << >> \/ Head(rest).fn = "error"
  PROVE  Past = Done
<1>1. /\ rest \in Seq(Form) /\ evaluated \in Seq(Form) /\ At \in Nat
      /\ \A i \in DOMAIN rest : rest[i] = evaluated[At + i]
      /\ \A i \in 1 .. At : evaluated[i].fn # "error"
      /\ At = Len(evaluated) - Len(rest) /\ Past = 1 .. At
  BY DEF ControlTypeOK, LoadsInv, Past, At
<1> HIDE DEF At
<1>2. Len(rest) \in Nat /\ Len(evaluated) \in Nat /\ DOMAIN evaluated = 1 .. Len(evaluated)
  BY <1>1
<1>3. 1 .. At \subseteq Done
  <2>1. 1 .. At \subseteq DOMAIN evaluated
    BY <1>1, <1>2
  <2>2. \A i \in 1 .. At : \A j \in 1 .. i : j \in 1 .. At
    BY <1>1
  <2> QED BY <1>1, <2>1, <2>2 DEF Done
<1>4. CASE rest = << >>
  BY <1>1, <1>2, <1>3, <1>4 DEF Done
<1>5. CASE rest # << >> /\ Head(rest).fn = "error"
  <2>1. rest[1] = Head(rest) /\ 1 \in DOMAIN rest
    BY <1>1, <1>5
  <2>2. evaluated[At + 1].fn = "error"
    BY <1>1, <1>5, <2>1
  <2>3. \A i \in Done : i \in 1 .. At
    <3> SUFFICES ASSUME NEW i \in Done, i \notin 1 .. At PROVE FALSE
      OBVIOUS
    <3>1. i \in Nat /\ At + 1 \in 1 .. i
      BY <1>1, <1>2 DEF Done
    <3> QED BY <2>2, <3>1 DEF Done
  <2> QED BY <1>1, <1>3, <2>3
<1> QED BY <1>4, <1>5

-----------------------------------------------------------------------------
(* A step that evaluates nothing leaves what is done as it is.             *)
LEMMA PastStays ==
  ASSUME ControlTypeOK, LoadsInv, evaluated' = evaluated, rest' = rest,
         disk' \in Contents \cup {<< >>},
         (Loading <=> Loading') \/ (Loading /\ rest = << >> /\ ~Loading')
  PROVE  Past' = Past /\ LoadsInv'
<1>1. At' = At /\ Done' = Done
  BY DEF At, Done
<1>2. CASE Loading <=> Loading'
  BY <1>1, <1>2 DEF Past, LoadsInv
<1>3. CASE Loading /\ rest = << >> /\ ~Loading'
  BY <1>1, <1>3, PastIsDone DEF Past, LoadsInv
<1> QED BY <1>2, <1>3

(* So does an error, which ends the load.                                  *)
LEMMA ErrorEnds ==
  ASSUME ControlTypeOK, LoadsInv, EvalError
  PROVE  Past' = Past /\ LoadsInv' /\ evaluated' = evaluated
<1>1. Loading /\ ~Loading' /\ Head(rest).fn = "error" /\ rest' = << >>
      /\ evaluated' = evaluated /\ disk' = disk
  BY DEF EvalError, Loading, notify
<1>2. Past = Done /\ Done' = Done
  BY <1>1, PastIsDone DEF Done
<1> QED BY <1>1, <1>2 DEF Past, LoadsInv

(* A new load has done nothing yet.                                        *)
LEMMA LoadBegins ==
  ASSUME ControlTypeOK, LoadsInv, Reload
  PROVE  Past' = {} /\ LoadsInv'
<1>1. /\ Loading' /\ rest' = disk /\ evaluated' = disk /\ disk' = disk
  BY DEF Reload, Loading
<1>2. disk \in Seq(Form) /\ Len(disk) \in Nat
  BY DEF ControlTypeOK
<1>3. At' = 0
  BY <1>1, <1>2 DEF At
<1>4. Past' = {}
  BY <1>1, <1>3 DEF Past
<1>5. LoadsInv'
  <2>1. \A i \in DOMAIN rest' : rest'[i] = evaluated'[At' + i]
    <3> SUFFICES ASSUME NEW i \in DOMAIN rest' PROVE rest'[i] = evaluated'[At' + i]
      OBVIOUS
    <3>1. i \in Nat
      BY <1>1, <1>2
    <3>2. 0 + i = i
      BY <3>1
    <3> QED BY <1>1, <1>3, <3>2
  <2>2. \A i \in 1 .. At' : evaluated'[i].fn # "error"
    BY <1>3
  <2> QED BY <1>1, <1>3, <2>1, <2>2 DEF LoadsInv
<1> QED BY <1>4, <1>5

(* The last of some numbers and a greater one.                             *)
LEMMA LastOfMore ==
  ASSUME NEW S \in SUBSET Nat, NEW p \in Nat, \A i \in S : i < p
  PROVE  Max(S \cup {p}) = p
<1>1. \A y \in S \cup {p} : p >= y
  OBVIOUS
<1>2. \A x \in S \cup {p} : (\A y \in S \cup {p} : x >= y) => x = p
  OBVIOUS
<1> QED BY <1>1, <1>2 DEF Max

(* Of the forms of a fleet, the last once one more form is done.           *)
LEMMA RecipesOfMore ==
  ASSUME NEW k \in Nat, NEW n
  PROVE  IF evaluated[k + 1].fn \in {"mm-fleet", "aggressor-fleet"} /\ evaluated[k + 1].name = n
         THEN Max(Recipes(1 .. k + 1, n)) = k + 1
         ELSE Recipes(1 .. k + 1, n) = Recipes(1 .. k, n)
<1>1. \A i \in 1 .. k + 1 : i \in 1 .. k \/ i = k + 1
  OBVIOUS
<1>2. 1 .. k \subseteq 1 .. k + 1 /\ k + 1 \in 1 .. k + 1
  OBVIOUS
<1>3. CASE evaluated[k + 1].fn \in {"mm-fleet", "aggressor-fleet"} /\ evaluated[k + 1].name = n
  <2>1. Recipes(1 .. k + 1, n) = Recipes(1 .. k, n) \cup {k + 1}
    BY <1>1, <1>2, <1>3 DEF Recipes
  <2>2. Recipes(1 .. k, n) \in SUBSET Nat /\ \A i \in Recipes(1 .. k, n) : i < k + 1
    BY DEF Recipes
  <2>3. Max(Recipes(1 .. k, n) \cup {k + 1}) = k + 1
    <3>1. k + 1 \in Nat
      OBVIOUS
    <3> QED BY <2>2, <3>1, LastOfMore
  <2> QED BY <1>3, <2>1, <2>3
<1>4. CASE ~(evaluated[k + 1].fn \in {"mm-fleet", "aggressor-fleet"} /\ evaluated[k + 1].name = n)
  BY <1>1, <1>2, <1>4 DEF Recipes
<1> QED BY <1>3, <1>4

(* The same of the forms that set a knob.                                  *)
LEMMA SettingsOfMore ==
  ASSUME NEW k \in Nat, NEW n
  PROVE  IF evaluated[k + 1].fn = "set" /\ evaluated[k + 1].knob = n
         THEN Max(Settings(1 .. k + 1, n)) = k + 1
         ELSE Settings(1 .. k + 1, n) = Settings(1 .. k, n)
<1>1. \A i \in 1 .. k + 1 : i \in 1 .. k \/ i = k + 1
  OBVIOUS
<1>2. 1 .. k \subseteq 1 .. k + 1 /\ k + 1 \in 1 .. k + 1
  OBVIOUS
<1>3. CASE evaluated[k + 1].fn = "set" /\ evaluated[k + 1].knob = n
  <2>1. Settings(1 .. k + 1, n) = Settings(1 .. k, n) \cup {k + 1}
    BY <1>1, <1>2, <1>3 DEF Settings
  <2>2. Settings(1 .. k, n) \in SUBSET Nat /\ \A i \in Settings(1 .. k, n) : i < k + 1
    BY DEF Settings
  <2>3. Max(Settings(1 .. k, n) \cup {k + 1}) = k + 1
    <3>1. k + 1 \in Nat
      OBVIOUS
    <3> QED BY <2>2, <3>1, LastOfMore
  <2> QED BY <1>3, <2>1, <2>3
<1>4. CASE ~(evaluated[k + 1].fn = "set" /\ evaluated[k + 1].knob = n)
  BY <1>1, <1>2, <1>4 DEF Settings
<1> QED BY <1>3, <1>4

(* Cells and knobs, when nothing is evaluated that concerns them.          *)
LEMMA CellsStay ==
  ASSUME CellsInv, Past' = Past, evaluated' = evaluated, fleet' = fleet, cell' = cell,
         knob' = knob, running' = running \/ running' = fleet
  PROVE  CellsInv'
<1>1. /\ \A n : Recipes(Past, n)' = Recipes(Past, n)
      /\ \A k : Settings(Past, k)' = Settings(Past, k)
  BY DEF Recipes, Settings
<1> QED BY <1>1 DEF CellsInv

(* A form that is evaluated leaves cells and knobs as the last forms done  *)
(* said of them.                                                           *)
LEMMA CellsAfterForm ==
  ASSUME ControlTypeOK, LoadsInv, CellsInv, NEW fn, fn # "error", Evaluating(fn),
         \/ /\ fn \notin {"mm-fleet", "aggressor-fleet", "set"}
            /\ UNCHANGED <<fleet, cell, knob>>
         \/ fn = "set" /\ SetKnob
         \/ fn \in {"mm-fleet", "aggressor-fleet"} /\ MakeFleet(fn)
  PROVE  CellsInv'
<1> DEFINE f == Head(rest)  k == At
<1>1. /\ f \in Form /\ f = evaluated[k + 1] /\ f.fn = fn /\ k \in Nat
      /\ Past = 1 .. k /\ Past' = 1 .. k + 1 /\ evaluated' = evaluated
  BY OneFormOn
<1>2. running' = running
  BY DEF Evaluating
<1>3. /\ fn \in {"mm-fleet", "aggressor-fleet"} => f.name \in Fleets /\ f.params \in Params
      /\ fn = "set" => f.knob \in Knob /\ f.value \in Setting
  BY <1>1, FormFields
<1>4. /\ cell \in Seq(Params) /\ knob \in [Knob -> Setting]
      /\ DOMAIN running \subseteq DOMAIN fleet /\ DOMAIN fleet \subseteq Fleets
      /\ \A n \in DOMAIN fleet : fleet[n] \in DOMAIN cell
  BY DEF ControlTypeOK
<1>5. /\ \A n, m \in DOMAIN fleet : fleet[n] = fleet[m] => n = m
      /\ \A n \in DOMAIN running : running[n] = fleet[n]
      /\ \A n \in Fleets : Recipes(1 .. k, n) # {} =>
           n \in DOMAIN fleet /\ cell[fleet[n]] = evaluated[Max(Recipes(1 .. k, n))].params
      /\ \A n \in Knob :
           Settings(1 .. k, n) # {} => knob[n] = evaluated[Max(Settings(1 .. k, n))].value
  BY <1>1 DEF CellsInv
<1>6. /\ \A n : Recipes(Past, n)' = Recipes(1 .. k + 1, n)
      /\ \A n : Settings(Past, n)' = Settings(1 .. k + 1, n)
  BY <1>1 DEF Recipes, Settings
<1>7. /\ \A n : IF fn \in {"mm-fleet", "aggressor-fleet"} /\ f.name = n
                THEN Max(Recipes(1 .. k + 1, n)) = k + 1
                ELSE Recipes(1 .. k + 1, n) = Recipes(1 .. k, n)
      /\ \A n : IF fn = "set" /\ f.knob = n
                THEN Max(Settings(1 .. k + 1, n)) = k + 1
                ELSE Settings(1 .. k + 1, n) = Settings(1 .. k, n)
  BY <1>1, RecipesOfMore, SettingsOfMore
<1> HIDE DEF f, k
<1>8. CASE fn \notin {"mm-fleet", "aggressor-fleet", "set"} /\ UNCHANGED <<fleet, cell, knob>>
  BY <1>1, <1>2, <1>5, <1>6, <1>7, <1>8 DEF CellsInv
<1>9. CASE fn = "set" /\ SetKnob
  <2>1. knob' = [knob EXCEPT ![f.knob] = f.value] /\ fleet' = fleet /\ cell' = cell
    BY <1>9 DEF SetKnob, f
  <2>2. \A n \in Knob : Settings(1 .. k + 1, n) # {} =>
          knob'[n] = evaluated[Max(Settings(1 .. k + 1, n))].value
    BY <2>1, <1>1, <1>3, <1>4, <1>5, <1>7, <1>9
  <2>3. \A n : Recipes(1 .. k + 1, n) = Recipes(1 .. k, n)
    BY <1>7, <1>9
  <2> QED BY <2>1, <2>2, <2>3, <1>1, <1>2, <1>5, <1>6 DEF CellsInv
<1>10. CASE fn \in {"mm-fleet", "aggressor-fleet"} /\ MakeFleet(fn)
  <2>1. knob' = knob
    BY <1>10 DEF MakeFleet
  <2>2. \A n : Settings(1 .. k + 1, n) = Settings(1 .. k, n)
    BY <1>7, <1>10
  <2>3. CASE f.name \in DOMAIN fleet
    <3>1. cell' = [cell EXCEPT ![fleet[f.name]] = f.params] /\ fleet' = fleet
      BY <1>10, <2>3 DEF MakeFleet, f
    <3>2. /\ cell'[fleet[f.name]] = f.params
          /\ \A n \in DOMAIN fleet : n # f.name => cell'[fleet[n]] = cell[fleet[n]]
      BY <3>1, <2>3, <1>4, <1>5
    <3>3. \A n \in Fleets : Recipes(1 .. k + 1, n) # {} =>
            n \in DOMAIN fleet /\ cell'[fleet[n]] = evaluated[Max(Recipes(1 .. k + 1, n))].params
      BY <3>2, <2>3, <1>1, <1>5, <1>7, <1>10
    <3> QED BY <3>1, <3>3, <2>1, <2>2, <1>1, <1>2, <1>5, <1>6 DEF CellsInv
  <2>4. CASE f.name \notin DOMAIN fleet
    <3>1. /\ cell' = Append(cell, f.params)
          /\ fleet' = [n \in DOMAIN fleet \cup {f.name} |->
                         IF n = f.name THEN Len(cell) + 1 ELSE fleet[n]]
      BY <1>10, <2>4 DEF MakeFleet, f
    <3>2. /\ Len(cell) \in Nat /\ Len(cell) + 1 \notin DOMAIN cell
          /\ cell'[Len(cell) + 1] = f.params
          /\ \A i \in DOMAIN cell : cell'[i] = cell[i]
      BY <3>1, <1>3, <1>4, <1>10
    <3>3. \A n, m \in DOMAIN fleet' : fleet'[n] = fleet'[m] => n = m
      BY <3>1, <3>2, <1>4, <1>5
    <3>4. \A n \in DOMAIN running' : running'[n] = fleet'[n]
      BY <3>1, <2>4, <1>2, <1>4, <1>5
    <3>5. \A n \in Fleets : Recipes(1 .. k + 1, n) # {} =>
            n \in DOMAIN fleet' /\ cell'[fleet'[n]] = evaluated[Max(Recipes(1 .. k + 1, n))].params
      BY <3>1, <3>2, <2>4, <1>1, <1>4, <1>5, <1>7, <1>10
    <3> QED BY <3>3, <3>4, <3>5, <2>1, <2>2, <1>1, <1>5, <1>6 DEF CellsInv
  <2> QED BY <2>3, <2>4
<1> QED BY <1>8, <1>9, <1>10

-----------------------------------------------------------------------------
(* The timers, when nothing is evaluated.                                  *)
LEMMA TimersStay ==
  ASSUME TimersInv, timers' = timers, active_timers' = active_timers,
         \/ Past' = Past /\ evaluated' = evaluated /\ loads' = loads
         \/ Past' = {}
  PROVE  TimersInv'
<1>1. Recurring' = Recurring
  BY DEF Recurring
<1>2. CASE Past' = Past /\ evaluated' = evaluated /\ loads' = loads
  BY <1>1, <1>2 DEF TimersInv, Repeats
<1>3. CASE Past' = {}
  BY <1>1, <1>3 DEF TimersInv
<1> QED BY <1>2, <1>3

(* A form that is evaluated leaves one set of timers, if the file begins   *)
(* with (reset-state) and has no other.                                    *)
LEMMA TimersAfterForm ==
  ASSUME ResetsFirst, ControlTypeOK, LoadsInv, TimersInv,
         NEW fn, fn # "error", Evaluating(fn),
         \/ /\ fn \notin {"reset-state", "every", "run-with-timer"}
            /\ UNCHANGED <<timers, active_timers>>
         \/ fn = "reset-state" /\ ResetState
         \/ fn = "every" /\ Every
         \/ fn = "run-with-timer" /\ RunWithTimer
  PROVE  TimersInv'
<1> DEFINE k == At  l == Len(evaluated)
<1>1. /\ Head(rest) = evaluated[k + 1] /\ Head(rest).fn = fn /\ k \in Nat
      /\ Past = 1 .. k /\ Past' = 1 .. k + 1 /\ evaluated' = evaluated
      /\ Len(rest) = l - (k + 1) + 1 /\ k + 1 \in DOMAIN evaluated
  BY OneFormOn
<1>2. loads' = loads
  BY DEF Evaluating
<1>3. fn = "reset-state" <=> k = 0
  <2>1. evaluated \in Contents /\ evaluated # << >>
    BY <1>1 DEF LoadsInv
  <2>2. evaluated # Unparsable
    <3> SUFFICES ASSUME evaluated = Unparsable PROVE FALSE
      OBVIOUS
    <3>1. k + 1 = 1 /\ evaluated[1].fn = "error"
      BY <1>1 DEF Unparsable
    <3> QED BY <1>1, <3>1
  <2>3. evaluated[k + 1].fn = "reset-state" <=> k + 1 = 1
    BY <2>1, <2>2, <1>1 DEF ResetsFirst
  <2> QED BY <2>3, <1>1
<1>4. Repeats(1 .. k + 1) = IF fn = "every" THEN Repeats(1 .. k) \cup {k + 1} ELSE Repeats(1 .. k)
  <2>1. \A i \in 1 .. k + 1 : i \in 1 .. k \/ i = k + 1
    BY <1>1
  <2>2. 1 .. k \subseteq 1 .. k + 1 /\ k + 1 \in 1 .. k + 1
    BY <1>1
  <2> QED BY <2>1, <2>2, <1>1 DEF Repeats
<1>5. Repeats(Past)' = Repeats(1 .. k + 1)
  BY <1>1 DEF Repeats
<1>6. {t.id : t \in Recurring} = active_timers
  BY DEF TimersInv
<1>7. k # 0 => /\ \A t \in Recurring : t.load = loads
               /\ active_timers = {<<loads, l - i + 1>> : i \in Repeats(1 .. k)}
  <2>1. k # 0 => 1 \in 1 .. k
    <3> HIDE DEF k
    <3> QED BY <1>1
  <2> QED BY <1>1, <2>1 DEF TimersInv
<1>8. SUFFICES /\ {t.id : t \in Recurring'} = active_timers'
               /\ \A t \in Recurring' : t.load = loads
               /\ active_timers' = {<<loads, l - i + 1>> : i \in Repeats(1 .. k + 1)}
  <2>1. Len(evaluated') = l
    BY <1>1
  <2> HIDE DEF k, l
  <2> QED BY <1>1, <1>2, <1>5, <2>1 DEF TimersInv
<1> HIDE DEF k, l
<1>9. CASE /\ fn \notin {"reset-state", "every", "run-with-timer"}
           /\ UNCHANGED <<timers, active_timers>>
  <2>1. Recurring' = Recurring
    BY <1>9 DEF Recurring
  <2> QED BY <2>1, <1>3, <1>4, <1>6, <1>7, <1>9
<1>10. CASE fn = "reset-state" /\ ResetState
  <2>1. timers' = {t \in timers : t.id \notin active_timers} /\ active_timers' = {}
    BY <1>10 DEF ResetState
  <2>2. Recurring' = {}
    BY <2>1, <1>6 DEF Recurring
  <2>3. Repeats(1 .. k + 1) = {}
    BY <1>3, <1>4, <1>10 DEF Repeats
  <2> QED BY <2>1, <2>2, <2>3
<1>11. CASE fn = "every" /\ Every
  <2>1. timers' = timers \cup {NewTimer} /\ active_timers' = active_timers \cup {NewTimer.id}
    BY <1>11 DEF Every
  <2>2. NewTimer.id = <<loads, l - (k + 1) + 1>> /\ NewTimer.fn = "every" /\ NewTimer.load = loads
    BY <1>1, <1>11 DEF NewTimer
  <2>3. Recurring' = Recurring \cup {NewTimer}
    BY <2>1, <2>2 DEF Recurring
  <2>4. Repeats(1 .. k + 1) = Repeats(1 .. k) \cup {k + 1}
    BY <1>4, <1>11
  <2>5. active_timers' = {<<loads, l - i + 1>> : i \in Repeats(1 .. k + 1)}
    BY <2>1, <2>2, <2>4, <1>3, <1>7, <1>11
  <2> QED BY <2>1, <2>2, <2>3, <2>5, <1>3, <1>6, <1>7, <1>11
<1>12. CASE fn = "run-with-timer" /\ RunWithTimer
  <2>1. timers' = timers \cup {NewTimer} /\ active_timers' = active_timers
    BY <1>12 DEF RunWithTimer
  <2>2. NewTimer.fn = "run-with-timer"
    BY <1>1, <1>12 DEF NewTimer
  <2>3. Recurring' = Recurring
    BY <2>1, <2>2 DEF Recurring
  <2> QED BY <2>1, <2>3, <1>3, <1>4, <1>6, <1>7, <1>12
<1> QED BY <1>9, <1>10, <1>11, <1>12

-----------------------------------------------------------------------------
(* What is on its way, after one more notification and after one less.     *)
LEMMA OnTheWay ==
  ASSUME NEW T, NEW s \in Seq(T), NEW e \in T
  PROVE  /\ ToSet(Append(s, e)) = ToSet(s) \cup {e}
         /\ s # << >> => ToSet(s) = {Head(s)} \cup ToSet(Tail(s))
<1>1. /\ Len(s) \in Nat /\ DOMAIN s = 1 .. Len(s)
      /\ DOMAIN Append(s, e) = 1 .. Len(s) + 1 /\ Append(s, e)[Len(s) + 1] = e
      /\ \A i \in 1 .. Len(s) : Append(s, e)[i] = s[i]
  OBVIOUS
<1>2. ToSet(Append(s, e)) = ToSet(s) \cup {e}
  <2>1. \A i \in 1 .. Len(s) + 1 : i \in 1 .. Len(s) \/ i = Len(s) + 1
    BY <1>1
  <2>2. 1 .. Len(s) \subseteq 1 .. Len(s) + 1 /\ Len(s) + 1 \in 1 .. Len(s) + 1
    BY <1>1
  <2> QED BY <1>1, <2>1, <2>2 DEF ToSet
<1>3. ASSUME s # << >> PROVE ToSet(s) = {Head(s)} \cup ToSet(Tail(s))
  <2>1. /\ Head(s) = s[1] /\ 1 \in DOMAIN s /\ DOMAIN Tail(s) = 1 .. Len(s) - 1
        /\ \A i \in 1 .. Len(s) - 1 : Tail(s)[i] = s[i + 1]
    BY <1>3
  <2>2. \A i \in 1 .. Len(s) : i = 1 \/ (i - 1 \in 1 .. Len(s) - 1 /\ (i - 1) + 1 = i)
    BY <1>1
  <2>3. \A i \in 1 .. Len(s) - 1 : i + 1 \in 1 .. Len(s)
    BY <1>1
  <2>4. ToSet(s) \subseteq {Head(s)} \cup ToSet(Tail(s))
    <3> SUFFICES ASSUME NEW i \in 1 .. Len(s)
                 PROVE  s[i] = Head(s) \/ \E j \in 1 .. Len(s) - 1 : s[i] = Tail(s)[j]
      <4>1. ToSet(s) = {s[i] : i \in 1 .. Len(s)}
        BY <1>1 DEF ToSet
      <4>2. ToSet(Tail(s)) = {Tail(s)[j] : j \in 1 .. Len(s) - 1}
        BY <2>1 DEF ToSet
      <4> QED BY <4>1, <4>2
    <3> QED BY <2>1, <2>2
  <2>5. {Head(s)} \cup ToSet(Tail(s)) \subseteq ToSet(s)
    BY <1>1, <2>1, <2>3 DEF ToSet
  <2> QED BY <2>4, <2>5
<1> QED BY <1>2, <1>3

(* A writer that closes a file raises two notifications.                   *)
LEMMA TwoMore ==
  ASSUME NEW T, NEW s \in Seq(T), NEW d \in T, NEW e \in T
  PROVE  /\ s \o <<d, e>> \in Seq(T) /\ d \in ToSet(s \o <<d, e>>)
<1>1. Len(s) + 1 \in DOMAIN (s \o <<d, e>>) /\ (s \o <<d, e>>)[Len(s) + 1] = d
  OBVIOUS
<1> QED BY <1>1 DEF ToSet

(* The functions whose forms are evaluated.                                *)
Forms == {"reset-state", "every", "run-with-timer", "watch-file", "mm-fleet",
          "aggressor-fleet", "set"} \cup Declaration

(* What each of these forms leaves alone.                                  *)
LEMMA EvaluatesOneForm ==
  ASSUME Evaluate
  PROVE  EvalError \/ \E fn \in Forms : 
           /\ Evaluating(fn)
           /\ \/ fn \notin {"mm-fleet", "aggressor-fleet", "set"} /\ UNCHANGED <<fleet, cell, knob>>
              \/ fn = "set" /\ SetKnob
              \/ fn \in {"mm-fleet", "aggressor-fleet"} /\ MakeFleet(fn)
           /\ \/ /\ fn \notin {"reset-state", "every", "run-with-timer"}
                 /\ UNCHANGED <<timers, active_timers>>
              \/ fn = "reset-state" /\ ResetState
              \/ fn = "every" /\ Every
              \/ fn = "run-with-timer" /\ RunWithTimer
<1>1. CASE ResetState
  BY <1>1 DEF ResetState, Forms
<1>2. CASE Every
  BY <1>2 DEF Every, Forms
<1>3. CASE RunWithTimer
  BY <1>3 DEF RunWithTimer, Forms
<1>4. CASE WatchFile
  BY <1>4 DEF WatchFile, Forms
<1>5. CASE MakeMmFleet
  BY <1>5 DEF MakeMmFleet, MakeFleet, Forms
<1>6. CASE MakeAggressorFleet
  BY <1>6 DEF MakeAggressorFleet, MakeFleet, Forms
<1>7. CASE SetKnob
  BY <1>7 DEF SetKnob, Forms
<1>8. CASE MakeMarket \/ MakeGridpool \/ MakeCoupling
  BY <1>8 DEF MakeMarket, MakeGridpool, MakeCoupling, Declare, Forms, Declaration
<1> QED BY <1>1, <1>2, <1>3, <1>4, <1>5, <1>6, <1>7, <1>8 DEF Evaluate

(* The types, after a form that is evaluated.                              *)
LEMMA TypesAfterForm ==
  ASSUME ControlTypeOK, LoadsInv, Evaluate
  PROVE  EvalError \/ ControlTypeOK'
<1> DEFINE f == Head(rest)
<1>1. ASSUME NEW fn, Evaluating(fn)
      PROVE  f \in Form /\ f.fn = fn /\ rest' \in Seq(Form) /\ Len(rest) \in Nat
  BY <1>1 DEF ControlTypeOK, Evaluating
<1>2. CASE ResetState
  <2>1. active_timers' \subseteq {t.id : t \in timers'} /\ timers' \subseteq timers
    BY <1>2 DEF ResetState
  <2>2. Evaluating("reset-state")
    BY <1>2 DEF ResetState
  <2> QED BY <1>1, <1>2, <2>1, <2>2 DEF ResetState, Evaluating, ControlTypeOK, notify, recalls
<1>3. CASE Every
  <2>1. Evaluating("every")
    BY <1>3 DEF Every
  <2>2. NewTimer.load = loads /\ NewTimer.recalls \in Order \cup {None}
    BY <1>1, <2>1, FormFields DEF NewTimer
  <2>3. loads \in 1 .. loads
    BY DEF ControlTypeOK
  <2> QED BY <1>1, <1>3, <2>1, <2>2, <2>3 DEF Every, Evaluating, ControlTypeOK, notify, recalls
<1>4. CASE RunWithTimer
  <2>1. Evaluating("run-with-timer")
    BY <1>4 DEF RunWithTimer
  <2>2. NewTimer.load = loads /\ NewTimer.recalls \in Order \cup {None}
    BY <1>1, <2>1, FormFields DEF NewTimer
  <2>3. loads \in 1 .. loads
    BY DEF ControlTypeOK
  <2> QED BY <1>1, <1>4, <2>1, <2>2, <2>3
          DEF RunWithTimer, Evaluating, ControlTypeOK, notify, recalls
<1>5. CASE WatchFile
  <2>1. Evaluating("watch-file")
    BY <1>5 DEF WatchFile
  <2>2. f.path \in SupportFile
    BY <1>1, <2>1, FormFields
  <2> QED BY <1>1, <1>5, <2>1, <2>2 DEF WatchFile, Evaluating, ControlTypeOK, notify, recalls
<1>6. ASSUME NEW fn \in {"mm-fleet", "aggressor-fleet"}, MakeFleet(fn)
      PROVE  ControlTypeOK'
  <2>1. Evaluating(fn)
    BY <1>6 DEF MakeFleet
  <2>2. f.name \in Fleets /\ f.params \in Params
    BY <1>1, <2>1, FormFields
  <2>3. cell \in Seq(Params) /\ Len(cell) \in Nat
    BY DEF ControlTypeOK
  <2>4. /\ cell' \in Seq(Params) /\ DOMAIN fleet \subseteq DOMAIN fleet'
        /\ DOMAIN fleet' \subseteq Fleets /\ DOMAIN cell \subseteq DOMAIN cell'
        /\ \A n \in DOMAIN fleet' : fleet'[n] \in DOMAIN cell'
    <3>1. CASE f.name \in DOMAIN fleet
      <4>1. cell' = [cell EXCEPT ![fleet[f.name]] = f.params] /\ fleet' = fleet
        BY <1>6, <3>1 DEF MakeFleet
      <4>2. DOMAIN fleet \subseteq Fleets /\ \A n \in DOMAIN fleet : fleet[n] \in DOMAIN cell
        BY DEF ControlTypeOK
      <4>3. cell' \in Seq(Params) /\ DOMAIN cell' = DOMAIN cell
        BY <2>2, <2>3, <3>1, <4>1, <4>2
      <4> QED BY <4>1, <4>2, <4>3
    <3>2. CASE f.name \notin DOMAIN fleet
      <4>1. /\ cell' = Append(cell, f.params)
            /\ fleet' = [n \in DOMAIN fleet \cup {f.name} |->
                           IF n = f.name THEN Len(cell) + 1 ELSE fleet[n]]
        BY <1>6, <3>2 DEF MakeFleet
      <4>2. cell' \in Seq(Params) /\ DOMAIN cell' = 1 .. Len(cell) + 1 /\ DOMAIN cell = 1 .. Len(cell)
        BY <2>2, <2>3, <4>1
      <4>3. DOMAIN cell \subseteq DOMAIN cell' /\ Len(cell) + 1 \in DOMAIN cell'
        BY <2>3, <4>2
      <4>4. DOMAIN fleet \subseteq Fleets /\ \A n \in DOMAIN fleet : fleet[n] \in DOMAIN cell
        BY DEF ControlTypeOK
      <4> QED BY <2>2, <4>1, <4>2, <4>3, <4>4
    <3> QED BY <3>1, <3>2
  <2>5. UNCHANGED <<knob, declared, extra_watches, timers, active_timers>>
    BY <1>6 DEF MakeFleet
  <2> QED BY <1>1, <2>1, <2>4, <2>5 DEF Evaluating, ControlTypeOK, notify, recalls
<1>7. CASE SetKnob
  <2>1. Evaluating("set")
    BY <1>7 DEF SetKnob
  <2>2. f.knob \in Knob /\ f.value \in Setting
    BY <1>1, <2>1, FormFields
  <2>3. knob' \in [Knob -> Setting]
    BY <1>7, <2>2 DEF SetKnob, ControlTypeOK
  <2> QED BY <1>1, <1>7, <2>1, <2>3 DEF SetKnob, Evaluating, ControlTypeOK, notify, recalls
<1>8. ASSUME NEW fn \in Declaration, Declare(fn)
      PROVE  ControlTypeOK'
  <2>1. Evaluating(fn)
    BY <1>8 DEF Declare
  <2>2. f.item \in Item
    BY <1>1, <2>1, FormFields
  <2>3. declared[fn] \in Seq(Item) /\ declared \in [Declaration -> Seq(Item)]
    BY DEF ControlTypeOK
  <2>4. Append(declared[fn], f.item) \in Seq(Item)
    BY <2>2, <2>3
  <2>5. declared' = [declared EXCEPT ![fn] = Append(declared[fn], f.item)]
    BY <1>8 DEF Declare
  <2>6. declared' \in [Declaration -> Seq(Item)]
    BY <2>3, <2>4, <2>5
  <2> QED BY <1>1, <1>8, <2>1, <2>6 DEF Declare, Evaluating, ControlTypeOK, notify, recalls
<1> QED BY <1>2, <1>3, <1>4, <1>5, <1>6, <1>7, <1>8
        DEF Evaluate, MakeMmFleet, MakeAggressorFleet, MakeMarket, MakeGridpool,
            MakeCoupling, Declaration

(* The steps of file, watcher, timers and recalls that evaluate nothing.   *)
Outside ==
  \/ Truncate \/ Write \/ (\E p \in SupportFile : SaveSupport(p)) \/ Breakdown
  \/ Send \/ Watch \/ Debounce
  \/ (\E t \in timers : FireTimer(t)) \/ DrainRecalls \/ RecallOrders

(* They leave the load, its fleets and its timers as they are.             *)
LEMMA OutsideLoads ==
  ASSUME ControlTypeOK, LoadsInv, Outside
  PROVE  /\ Past' = Past /\ LoadsInv'
         /\ UNCHANGED <<rest, evaluated, loads, failed, registry, timers, active_timers>>
<1>1. UNCHANGED <<rest, evaluated, loads, failed, registry, timers, active_timers>>
  BY DEF Outside, Truncate, Write, SaveSupport, Breakdown, Send, Watch, Debounce, FireTimer,
         DrainRecalls, RecallOrders, watcher, timing, registry
<1>2. Loading <=> Loading'
  BY DEF Outside, Truncate, Write, SaveSupport, Breakdown, Send, Watch, Debounce, FireTimer,
         DrainRecalls, RecallOrders, watcher, Loading
<1>3. disk' \in Contents \cup {<< >>}
  BY DEF Outside, Truncate, Write, SaveSupport, Breakdown, Send, Watch, Debounce, FireTimer,
         DrainRecalls, RecallOrders, notify, LoadsInv
<1> QED BY <1>1, <1>2, <1>3, PastStays

Notices == {"modify", "other", "error"}

(* They keep the types.                                                    *)
LEMMA TypesOutside ==
  ASSUME ControlTypeOK, LoadsInv, Outside
  PROVE  ControlTypeOK'
<1> DEFINE Rest ==
      /\ rest \in Seq(Form) /\ evaluated \in Seq(Form)
      /\ failed \in BOOLEAN /\ loads \in Nat \ {0}
      /\ extra_watches \subseteq SupportFile
      /\ cell \in Seq(Params) /\ knob \in [Knob -> Setting]
      /\ declared \in [Declaration -> Seq(Item)] /\ installed \in [Declaration -> Seq(Item)]
      /\ DOMAIN running \subseteq DOMAIN fleet /\ DOMAIN fleet \subseteq Fleets
      /\ \A n \in DOMAIN fleet : fleet[n] \in DOMAIN cell
      /\ \A n \in DOMAIN running : running[n] \in DOMAIN cell
      /\ \A t \in timers : t.load \in 1 .. loads /\ t.recalls \in Order \cup {None}
      /\ active_timers \subseteq {t.id : t \in timers}
<1>1. UNCHANGED <<rest, evaluated, loads, failed, registry, timers, active_timers>>
  BY OutsideLoads
<1>2. Rest'
  BY <1>1 DEF ControlTypeOK, registry, lists
<1>3. /\ disk \in Seq(Form) /\ torn \in BOOLEAN /\ saves \in 0 .. MaxSaves
      /\ raised \in Seq(Notices) /\ channel \in Seq(Notices) /\ Len(channel) <= ChannelCap
      /\ watched \subseteq SupportFile /\ dirty \subseteq extra_watches
      /\ phase \in {"boot", "idle", "debounce", "reload", "dead"}
      /\ ticks \in 0 .. MaxTicks
      /\ recall_queue \in Seq(Order) /\ drained \in Seq(Order)
      /\ recalled \subseteq Order
  BY DEF ControlTypeOK, Notices
<1>4. MaxSaves \in Nat /\ MaxTicks \in Nat /\ ChannelCap \in Nat
  BY ControlAssumption
<1>5. extra_watches' = extra_watches
  BY <1>1 DEF registry
<1>6. disk' \in Seq(Form)
  <2>1. LoadsInv'
    BY OutsideLoads
  <2> QED BY <2>1, FilesHoldForms DEF LoadsInv
<1>7. SUFFICES /\ torn' \in BOOLEAN /\ saves' \in 0 .. MaxSaves
               /\ raised' \in Seq(Notices) /\ channel' \in Seq(Notices)
               /\ Len(channel') <= ChannelCap
               /\ watched' \subseteq SupportFile /\ dirty' \subseteq extra_watches
               /\ phase' \in {"boot", "idle", "debounce", "reload", "dead"}
               /\ ticks' \in 0 .. MaxTicks
               /\ recall_queue' \in Seq(Order) /\ drained' \in Seq(Order)
               /\ recalled' \subseteq Order
  BY <1>2, <1>5, <1>6 DEF ControlTypeOK, Notices
<1> HIDE DEF Rest
<1>8. "modify" \in Notices /\ "other" \in Notices /\ "error" \in Notices
  BY DEF Notices
<1>9. CASE Truncate
  <2>1. Append(raised, "modify") \in Seq(Notices)
    BY <1>3, <1>8
  <2> QED BY <1>3, <1>4, <1>9, <2>1 DEF Truncate, watcher, timing, recalls
<1>10. CASE Write
  <2>1. raised \o <<"modify", "other">> \in Seq(Notices)
    BY <1>3, <1>8, TwoMore
  <2> QED BY <1>3, <1>4, <1>10, <2>1 DEF Write, watcher, timing, recalls
<1>11. ASSUME NEW p \in SupportFile, SaveSupport(p)
       PROVE  /\ torn' \in BOOLEAN /\ saves' \in 0 .. MaxSaves /\ raised' \in Seq(Notices)
              /\ dirty' \subseteq extra_watches
              /\ UNCHANGED <<channel, watched, watcher, timing, recalls>>
  <2>1. Append(raised, "modify") \in Seq(Notices)
    BY <1>3, <1>8
  <2> QED BY <1>3, <1>4, <1>11, <2>1 DEF SaveSupport
<1>12. CASE \E p \in SupportFile : SaveSupport(p)
  BY <1>3, <1>11, <1>12 DEF watcher, timing, recalls
<1>13. CASE Breakdown
  <2>1. Append(raised, "error") \in Seq(Notices)
    BY <1>3, <1>8
  <2> QED BY <1>3, <1>13, <2>1 DEF Breakdown, watcher, timing, recalls
<1>14. CASE Send
  <2>1. /\ raised # << >> /\ Len(channel) < ChannelCap
        /\ raised' = Tail(raised) /\ channel' = Append(channel, Head(raised))
    BY <1>14 DEF Send
  <2>2. Tail(raised) \in Seq(Notices) /\ Head(raised) \in Notices
    BY <1>3, <2>1
  <2>3. channel' \in Seq(Notices) /\ Len(channel') <= ChannelCap
    BY <1>3, <1>4, <2>1, <2>2
  <2> QED BY <1>3, <1>14, <2>1, <2>2, <2>3 DEF Send, watcher, timing, recalls
<1>15. CASE Watch \/ Debounce
  <2>1. channel # << >> /\ channel' = Tail(channel)
    BY <1>15 DEF Watch, Debounce, Received
  <2>2. channel' \in Seq(Notices) /\ Len(channel') <= ChannelCap
    BY <1>3, <1>4, <2>1
  <2> QED BY <1>3, <1>15, <2>2 DEF Watch, Debounce, timing, recalls
<1>16. CASE \E t \in timers : FireTimer(t)
  <2> PICK t \in timers : FireTimer(t)
    BY <1>16
  <2>1. t.recalls \in Order
    BY DEF FireTimer, ControlTypeOK
  <2>2. Append(recall_queue, t.recalls) \in Seq(Order)
    BY <1>3, <2>1
  <2> QED BY <1>3, <1>4, <2>2 DEF FireTimer, notify, watcher
<1>17. CASE DrainRecalls \/ RecallOrders
  <2>1. << >> \in Seq(Order) /\ ToSet(drained) \subseteq Order
    BY <1>3 DEF ToSet
  <2> QED BY <1>3, <1>17, <2>1 DEF DrainRecalls, RecallOrders, notify, watcher, timing
<1> QED BY <1>9, <1>10, <1>12, <1>13, <1>14, <1>15, <1>16, <1>17 DEF Outside

Pending == "modify" \in ToSet(raised) \cup ToSet(channel)

(* Whatever happens outside of a load, a save stays on its way until it is *)
(* loaded.                                                                 *)
LEMMA SavesOutside ==
  ASSUME ControlTypeOK, LoadsInv, SavesInv, Outside
  PROVE  SavesInv'
<1>1. /\ raised \in Seq(Notices) /\ channel \in Seq(Notices)
      /\ "modify" \in Notices /\ "other" \in Notices /\ "error" \in Notices
  BY DEF ControlTypeOK, Notices
<1>2. /\ phase = "boot" => evaluated = disk /\ dirty = {}
      /\ phase \in {"debounce", "dead"} \/ Pending \/ (evaluated = disk /\ dirty \cap watched = {})
  BY DEF SavesInv, Pending
<1>3. evaluated' = evaluated /\ extra_watches' = extra_watches
  BY OutsideLoads DEF registry
<1>4. /\ \A e \in Notices : ToSet(Append(raised, e)) = ToSet(raised) \cup {e}
      /\ \A e \in Notices : ToSet(Append(channel, e)) = ToSet(channel) \cup {e}
  BY <1>1, OnTheWay
<1>5. /\ raised # << >> => Head(raised) \in Notices /\ ToSet(raised) = {Head(raised)} \cup ToSet(Tail(raised))
      /\ channel # << >> => Head(channel) \in Notices /\ ToSet(channel) = {Head(channel)} \cup ToSet(Tail(channel))
  BY <1>1, OnTheWay
<1>6. CASE Truncate
  <2>1. Pending' /\ phase' = phase /\ phase # "boot"
    BY <1>1, <1>4, <1>6 DEF Truncate, Pending, watcher, Started
  <2> QED BY <2>1 DEF SavesInv, Pending
<1>7. CASE Write
  <2>1. "modify" \in ToSet(raised')
    BY <1>1, <1>7, TwoMore DEF Write
  <2> QED BY <1>7, <2>1 DEF SavesInv, Write, watcher, Started
<1>8. ASSUME NEW p \in SupportFile, SaveSupport(p) PROVE SavesInv'
  <2>1. /\ phase' = phase /\ phase # "boot" /\ disk' = disk /\ watched' = watched
        /\ channel' = channel
        /\ dirty' = dirty \cup ({p} \cap extra_watches)
        /\ raised' = IF p \in watched THEN Append(raised, "modify") ELSE raised
    BY <1>8 DEF SaveSupport, watcher, Started
  <2>2. CASE p \in watched
    <3>1. "modify" \in ToSet(raised')
      BY <1>1, <1>4, <2>1, <2>2
    <3> QED BY <2>1, <3>1 DEF SavesInv
  <2>3. CASE p \notin watched
    <3>1. dirty' \cap watched' = dirty \cap watched /\ raised' = raised
      BY <2>1, <2>3
    <3> QED BY <1>2, <1>3, <2>1, <3>1 DEF SavesInv, Pending
  <2> QED BY <2>2, <2>3
<1>9. CASE Breakdown
  <2>1. /\ raised' = Append(raised, "error")
        /\ UNCHANGED <<disk, channel, watched, dirty, phase>>
    BY <1>9 DEF Breakdown, watcher
  <2>2. ToSet(raised) \subseteq ToSet(raised')
    BY <1>1, <1>4, <2>1
  <2> QED BY <1>2, <1>3, <2>1, <2>2 DEF SavesInv, Pending
<1>10. CASE Send
  <2>1. /\ raised # << >> /\ raised' = Tail(raised) /\ channel' = Append(channel, Head(raised))
        /\ UNCHANGED <<disk, watched, dirty, phase>>
    BY <1>10 DEF Send, watcher
  <2>2. ToSet(raised) \cup ToSet(channel) = ToSet(raised') \cup ToSet(channel')
    BY <1>4, <1>5, <2>1
  <2> QED BY <1>2, <1>3, <2>1, <2>2 DEF SavesInv, Pending
<1>11. CASE Watch
  <2>1. /\ phase = "idle" /\ channel # << >> /\ channel' = Tail(channel)
        /\ phase' = IF Head(channel) = "error" THEN "dead"
                    ELSE IF Head(channel) = "modify" THEN "debounce" ELSE "idle"
        /\ UNCHANGED <<disk, watched, dirty, raised>>
    BY <1>11 DEF Watch, Received
  <2>2. CASE phase' = "idle"
    <3>1. "modify" \in ToSet(channel) => "modify" \in ToSet(channel')
      BY <1>5, <2>1, <2>2
    <3> QED BY <1>2, <1>3, <2>1, <2>2, <3>1 DEF SavesInv, Pending
  <2> QED BY <2>1, <2>2 DEF SavesInv
<1>12. CASE Debounce
  BY <1>12 DEF Debounce, SavesInv
<1>13. CASE (\E t \in timers : FireTimer(t)) \/ DrainRecalls \/ RecallOrders
  <2>1. UNCHANGED <<notify, phase>>
    BY <1>13 DEF FireTimer, DrainRecalls, RecallOrders, watcher
  <2> QED BY <1>2, <1>3, <2>1 DEF SavesInv, Pending, notify
<1> QED BY <1>6, <1>7, <1>8, <1>9, <1>10, <1>11, <1>12, <1>13 DEF Outside

-----------------------------------------------------------------------------
(* Before the first form everything is empty.                              *)
LEMMA ControlStarts == ControlInit => ControlInv /\ TimersInv
<1> SUFFICES ASSUME ControlInit PROVE ControlInv /\ TimersInv
  OBVIOUS
<1>1. /\ disk \in Contents /\ torn = FALSE /\ saves = 0
      /\ raised = << >> /\ channel = << >> /\ watched = {} /\ dirty = {}
      /\ phase = "boot" /\ rest = disk /\ evaluated = disk
      /\ failed = FALSE /\ loads = 1
      /\ fleet = [n \in {} |-> 0] /\ cell = << >> /\ running = fleet
      /\ extra_watches = {} /\ knob = [k \in Knob |-> Initial]
      /\ declared = [fn \in Declaration |-> << >>] /\ installed = declared
      /\ timers = {} /\ active_timers = {} /\ ticks = 0
      /\ recall_queue = << >> /\ drained = << >> /\ recalled = {}
  BY DEF ControlInit
<1>2. disk \in Seq(Form) /\ Len(disk) \in Nat
  BY <1>1, ContentsAssumption
<1>3. ControlTypeOK
  <2>1. << >> \in Seq(Item) /\ << >> \in Seq(Params) /\ << >> \in Seq(Order)
        /\ << >> \in Seq({"modify", "other", "error"}) /\ Len(<< >>) = 0
    OBVIOUS
  <2>2. MaxSaves \in Nat /\ MaxTicks \in Nat /\ ChannelCap \in Nat /\ Initial \in Setting
    BY ControlAssumption
  <2>3. DOMAIN fleet = {}
    BY <1>1
  <2>4. /\ declared \in [Declaration -> Seq(Item)] /\ installed \in [Declaration -> Seq(Item)]
        /\ knob \in [Knob -> Setting] /\ recalled \subseteq Order
    BY <1>1, <2>1, <2>2
  <2>5. /\ DOMAIN running \subseteq DOMAIN fleet /\ DOMAIN fleet \subseteq Fleets
        /\ \A n \in DOMAIN fleet : fleet[n] \in DOMAIN cell
        /\ \A n \in DOMAIN running : running[n] \in DOMAIN cell
    BY <1>1, <2>3
  <2>6. /\ \A t \in timers : t.load \in 1 .. loads /\ t.recalls \in Order \cup {None}
        /\ active_timers \subseteq {t.id : t \in timers} /\ ticks \in 0 .. MaxTicks
        /\ saves \in 0 .. MaxSaves /\ loads \in Nat \ {0}
    BY <1>1, <2>2
  <2>7. /\ raised \in Seq({"modify", "other", "error"})
        /\ channel \in Seq({"modify", "other", "error"}) /\ Len(channel) <= ChannelCap
        /\ cell \in Seq(Params) /\ recall_queue \in Seq(Order) /\ drained \in Seq(Order)
    BY <1>1, <2>1, <2>2
  <2> QED BY <1>1, <1>2, <2>4, <2>5, <2>6, <2>7 DEF ControlTypeOK
<1>4. At = 0 /\ Past = {}
  <2>1. At = 0
    BY <1>1, <1>2 DEF At
  <2> QED BY <1>1, <2>1 DEF Past, Loading
<1>5. LoadsInv
  <2>1. \A i \in DOMAIN rest : rest[i] = evaluated[At + i]
    BY <1>1, <1>2, <1>4
  <2>2. \A i \in 1 .. At : evaluated[i].fn # "error"
    BY <1>4
  <2> QED BY <1>1, <1>4, <2>1, <2>2 DEF LoadsInv, Loading
<1>6. SavesInv
  BY <1>1 DEF SavesInv
<1>7. CellsInv
  <2>1. (\A n : Recipes(Past, n) = {}) /\ (\A k : Settings(Past, k) = {})
    BY <1>4 DEF Recipes, Settings
  <2> QED BY <1>1, <2>1 DEF CellsInv
<1>8. TimersInv
  BY <1>1, <1>4 DEF TimersInv, Recurring
<1> QED BY <1>3, <1>5, <1>6, <1>7, <1>8 DEF ControlInv

(* Every step keeps the invariant, and that of the timers if files reset   *)
(* first.                                                                  *)
LEMMA ControlGoesOn ==
  ASSUME ControlInv, [ControlNext]_controlVars
  PROVE  ControlInv' /\ (ResetsFirst /\ TimersInv => TimersInv')
<1>1. ControlTypeOK /\ LoadsInv /\ SavesInv /\ CellsInv
  BY DEF ControlInv
<1>2. CASE EvalError
  <2>1. Past' = Past /\ LoadsInv' /\ evaluated' = evaluated
    BY <1>1, <1>2, ErrorEnds
  <2>2. /\ UNCHANGED <<notify, registry, timing, recalls, loads>>
        /\ rest' = << >> /\ failed' = TRUE /\ phase \in {"boot", "reload"}
        /\ phase' = IF phase = "boot" THEN "dead" ELSE "idle"
    BY <1>2 DEF EvalError
  <2>3. ControlTypeOK'
    BY <1>1, <2>1, <2>2 DEF ControlTypeOK, notify, registry, lists, timing, recalls
  <2>4. SavesInv'
    BY <1>1, <2>1, <2>2 DEF SavesInv, notify
  <2>5. CellsInv'
    BY <1>1, <2>1, <2>2, CellsStay DEF registry
  <2>6. TimersInv => TimersInv'
    BY <2>1, <2>2, TimersStay DEF timing
  <2> QED BY <2>1, <2>3, <2>4, <2>5, <2>6 DEF ControlInv
<1>3. CASE Evaluate /\ ~EvalError
  <2>1. PICK fn \in Forms :
           /\ Evaluating(fn)
           /\ \/ fn \notin {"mm-fleet", "aggressor-fleet", "set"} /\ UNCHANGED <<fleet, cell, knob>>
              \/ fn = "set" /\ SetKnob
              \/ fn \in {"mm-fleet", "aggressor-fleet"} /\ MakeFleet(fn)
           /\ \/ /\ fn \notin {"reset-state", "every", "run-with-timer"}
                 /\ UNCHANGED <<timers, active_timers>>
              \/ fn = "reset-state" /\ ResetState
              \/ fn = "every" /\ Every
              \/ fn = "run-with-timer" /\ RunWithTimer
    BY <1>3, EvaluatesOneForm
  <2>2. fn # "error"
    BY DEF Forms, Declaration
  <2>3. ControlTypeOK'
    BY <1>1, <1>3, TypesAfterForm
  <2>4. LoadsInv' /\ evaluated' = evaluated
    BY <1>1, <2>1, <2>2, OneFormOn
  <2>5. SavesInv'
    BY <1>1, <2>1, <2>4 DEF SavesInv, Evaluating, notify
  <2>6. CellsInv'
    BY <1>1, <2>1, <2>2, CellsAfterForm
  <2>7. ResetsFirst /\ TimersInv => TimersInv'
    BY <1>1, <2>1, <2>2, TimersAfterForm
  <2> QED BY <2>3, <2>4, <2>5, <2>6, <2>7 DEF ControlInv
<1>4. CASE Boot \/ Reloaded
  <2>1. /\ Loading /\ rest = << >> /\ phase' = "idle"
        /\ UNCHANGED <<disk, torn, saves, raised, channel, dirty, rest, evaluated, failed,
                       loads, fleet, cell, extra_watches, knob, declared, timing, recalls>>
        /\ \/ phase = "boot" /\ installed' = declared /\ running' = fleet /\ watched' = extra_watches
           \/ UNCHANGED <<installed, running, watched>>
    BY <1>4 DEF Boot, Reloaded, Loading, notify, registry, lists
  <2>2. Past' = Past /\ LoadsInv'
    <3>1. ~Loading' /\ disk' \in Contents \cup {<< >>}
      BY <1>1, <2>1 DEF Loading, LoadsInv
    <3> QED BY <1>1, <2>1, <3>1, PastStays
  <2>3. ControlTypeOK'
    BY <1>1, <2>1 DEF ControlTypeOK, timing, recalls
  <2>4. SavesInv'
    BY <1>1, <1>4, <2>1 DEF SavesInv, Loading, Boot, Reloaded, notify
  <2>5. CellsInv'
    BY <1>1, <2>1, <2>2, CellsStay
  <2>6. TimersInv => TimersInv'
    BY <2>1, <2>2, TimersStay DEF timing
  <2> QED BY <2>2, <2>3, <2>4, <2>5, <2>6 DEF ControlInv
<1>5. CASE Reload
  <2>1. Past' = {} /\ LoadsInv'
    BY <1>1, <1>5, LoadBegins
  <2>2. /\ phase' = "reload" /\ rest' = disk /\ evaluated' = disk /\ failed' = FALSE
        /\ loads' = loads + 1 /\ dirty' = {}
        /\ UNCHANGED <<disk, torn, saves, raised, channel, watched, registry, timing, recalls>>
    BY <1>5 DEF Reload
  <2>3. ControlTypeOK'
    <3>1. loads \in Nat \ {0} /\ \A t \in timers : t.load \in 1 .. loads
      BY <1>1 DEF ControlTypeOK
    <3>2. loads' \in Nat \ {0} /\ \A t \in timers' : t.load \in 1 .. loads'
      BY <2>2, <3>1 DEF timing
    <3> QED BY <1>1, <2>2, <3>2 DEF ControlTypeOK, registry, lists, timing, recalls
  <2>4. SavesInv'
    BY <2>2 DEF SavesInv
  <2>5. CellsInv'
    <3>1. (\A n : Recipes(Past, n)' = {}) /\ (\A k : Settings(Past, k)' = {})
      BY <2>1 DEF Recipes, Settings
    <3> QED BY <1>1, <2>2, <3>1 DEF CellsInv, registry
  <2>6. TimersInv => TimersInv'
    BY <2>1, <2>2, TimersStay DEF timing
  <2> QED BY <2>1, <2>3, <2>4, <2>5, <2>6 DEF ControlInv
<1>6. CASE Outside
  <2>1. /\ Past' = Past /\ LoadsInv'
        /\ UNCHANGED <<rest, evaluated, loads, failed, registry, timers, active_timers>>
    BY <1>1, <1>6, OutsideLoads
  <2>2. ControlTypeOK' /\ SavesInv'
    BY <1>1, <1>6, TypesOutside, SavesOutside
  <2>3. CellsInv'
    BY <1>1, <2>1, CellsStay DEF registry
  <2>4. TimersInv => TimersInv'
    BY <2>1, TimersStay
  <2> QED BY <2>1, <2>2, <2>3, <2>4 DEF ControlInv
<1>7. CASE UNCHANGED controlVars
  <2>1. UNCHANGED <<notify, watcher, registry, timing, recalls>>
    BY <1>7 DEF controlVars
  <2>2. Loading' = Loading /\ disk' \in Contents \cup {<< >>}
    BY <1>1, <2>1 DEF Loading, watcher, notify, LoadsInv
  <2>3. Past' = Past /\ LoadsInv'
    BY <1>1, <2>1, <2>2, PastStays DEF watcher
  <2>4. ControlTypeOK'
    BY <1>1, <2>1 DEF ControlTypeOK, notify, watcher, registry, lists, timing, recalls
  <2>5. SavesInv'
    BY <1>1, <2>1 DEF SavesInv, notify, watcher
  <2>6. CellsInv'
    BY <1>1, <2>1, <2>3, CellsStay DEF registry, watcher
  <2>7. TimersInv => TimersInv'
    BY <2>1, <2>3, TimersStay DEF timing, watcher
  <2> QED BY <2>3, <2>4, <2>5, <2>6, <2>7 DEF ControlInv
<1> QED BY <1>2, <1>3, <1>4, <1>5, <1>6, <1>7 DEF ControlNext, Outside

(* The inductive invariant of the control plane.                           *)
THEOREM ControlInvariant == ControlSpec => []ControlInv
<1>1. ControlInit => ControlInv
  BY ControlStarts
<1>2. ControlInv /\ [ControlNext]_controlVars => ControlInv'
  BY ControlGoesOn
<1> QED BY <1>1, <1>2, PTL DEF ControlSpec

(* No save is lost, whatever the notifications and reloads it falls among  *)
(* (src/lisp/mod.rs:344-369).                                              *)
THEOREM ControlSavesAreLoaded == ControlSpec => []SavesAreLoaded
<1>1. ASSUME ControlInv PROVE SavesAreLoaded
  <2> SUFFICES ASSUME AtRest PROVE evaluated = disk /\ dirty \cap watched = {}
    BY DEF SavesAreLoaded
  <2>1. phase = "idle" /\ ToSet(raised) \cup ToSet(channel) = {}
    BY DEF AtRest, ToSet
  <2> QED BY <1>1, <2>1 DEF ControlInv, SavesInv
<1> QED BY <1>1, ControlInvariant, PTL

(* Timers of one load and no other fire, as many as the file asks for, if  *)
(* files begin with (reset-state) (sim/common.lisp:19-28).                 *)
THEOREM ControlStaysConsistent ==
  ASSUME ResetsFirst
  PROVE  ControlSpec => []ControlConsistent
<1>1. ControlInit => ControlInv /\ TimersInv
  BY ControlStarts
<1>2. (ControlInv /\ TimersInv) /\ [ControlNext]_controlVars => (ControlInv /\ TimersInv)'
  BY ControlGoesOn
<1>3. ASSUME ControlInv, TimersInv PROVE OneSetOfTimers
  <2>1. ControlTypeOK /\ LoadsInv /\ TimersInv
    BY <1>3 DEF ControlInv
  <2>2. ASSUME phase = "idle", Done # {}
        PROVE  Cardinality(active_timers) = Cardinality(Repeats(Done))
    <3>0. evaluated # << >>
      BY <2>2 DEF Done
    <3>1. Past = Done /\ evaluated \in Contents /\ evaluated \in Seq(Form)
      BY <2>1, <2>2, <3>0 DEF Past, Loading, LoadsInv, ControlTypeOK
    <3>2. Len(evaluated) \in Nat /\ DOMAIN evaluated = 1 .. Len(evaluated) /\ 1 \in DOMAIN evaluated
      BY <3>0, <3>1
    <3>3. 1 \in Done
      <4>1. PICK i \in DOMAIN evaluated : \A j \in 1 .. i : evaluated[j].fn # "error"
        BY <2>2 DEF Done
      <4>2. 1 .. 1 \subseteq 1 .. i
        BY <3>2, <4>1
      <4> QED BY <3>2, <4>1, <4>2 DEF Done
    <3>4. active_timers = {<<loads, Len(evaluated) - i + 1>> : i \in Repeats(Done)}
      BY <2>1, <3>1, <3>3 DEF TimersInv
    <3>5. Repeats(Done) \subseteq 1 .. Len(evaluated)
      BY <3>2 DEF Repeats, Done
    <3>6. IsFiniteSet(Repeats(Done))
      <4>1. IsFiniteSet(1 .. Len(evaluated))
        BY <3>2, FS_Interval
      <4> QED BY <3>5, <4>1, FS_Subset
    <3> DEFINE T == Repeats(Done)
               g == [i \in T |-> <<loads, Len(evaluated) - i + 1>>]
    <3>7. \A i, j \in T : g[i] = g[j] => i = j
      <4> SUFFICES ASSUME NEW i \in T, NEW j \in T, g[i] = g[j] PROVE i = j
        OBVIOUS
      <4>1. i \in Int /\ j \in Int
        BY <3>5
      <4>2. Len(evaluated) - i + 1 = Len(evaluated) - j + 1
        OBVIOUS
      <4> QED BY <3>2, <4>1, <4>2
    <3>8. \A e \in active_timers : \E i \in T : g[i] = e
      BY <3>4
    <3>9. g \in [T -> active_timers]
      BY <3>4
    <3> HIDE DEF T, g
    <3>10. g \in Bijection(T, active_timers)
      BY <3>7, <3>8, <3>9 DEF Bijection, Injection, Surjection, IsInjective
    <3>11. ExistsBijection(T, active_timers)
      BY <3>10 DEF ExistsBijection
    <3> QED BY <3>6, <3>11, FS_Bijection DEF T
  <2> QED BY <2>1, <2>2 DEF OneSetOfTimers, TimersInv, Repeats
<1>4. ControlSpec => []OneSetOfTimers
  <2>1. ControlInv /\ TimersInv => OneSetOfTimers
    BY <1>3
  <2> QED BY <1>1, <1>2, <2>1, PTL DEF ControlSpec
<1>5. ControlInv => ControlTypeOK
  BY DEF ControlInv
<1>6. ControlTypeOK /\ SavesAreLoaded /\ OneSetOfTimers => ControlConsistent
  BY DEF ControlConsistent
<1> QED BY <1>4, <1>5, <1>6, ControlInvariant, ControlSavesAreLoaded, PTL

(* What runs reads what the file last said of it, up to the form that      *)
(* failed if one did (src/lisp/mod.rs:874-888, 1117-1140).                 *)
THEOREM ControlFleetsFollow == ControlSpec => []FleetsFollowTheFile
<1>1. ASSUME ControlInv PROVE FleetsFollowTheFile
  <2> SUFFICES ASSUME phase = "idle" PROVE FleetsFollowTheFile
    BY DEF FleetsFollowTheFile
  <2>1. Past = Done /\ DOMAIN running \subseteq DOMAIN fleet /\ DOMAIN fleet \subseteq Fleets
    BY <1>1 DEF Past, Loading, ControlInv, ControlTypeOK
  <2> QED BY <1>1, <2>1 DEF FleetsFollowTheFile, ControlInv, CellsInv
<1> QED BY <1>1, ControlInvariant, PTL
=============================================================================
