----------------------------- MODULE Scenarios -----------------------------
(***************************************************************************)
(* The scenario registry and the bias tick (src/scenarios.rs), the         *)
(* operator's requests (src/ui/mod.rs) and the configuration's writes      *)
(* (src/lisp/mod.rs) that race it.                                         *)
(*                                                                         *)
(* A scenario is a list of stages over the local day; a stage may override *)
(* the weather.  The tick picks the current stage under the scenarios      *)
(* lock, releases it, and writes the weather from the copy it took.  Of    *)
(* the three overridable weather values one is modelled: cloud cover.      *)
(***************************************************************************)
EXTENDS Tables, SequencesExt

CONSTANTS
  Hours,           \* hours of the model's day, counted from 0
  Scenario,        \* registry keys, in the order the map iterates them
  Definitions,     \* per scenario, the stage lists its definition may have
  Location,        \* the weather locations
  Default,         \* the first of them, which the setters address
  Cover,           \* the cloud covers
  Bias,            \* the side biases a stage may name, in hundredths
  Unset,           \* a stage that leaves the cover alone
  NotRunning, Idle

Name == ToSet(Scenario)
Hour == 0 .. Hours - 1
Stage == [from: Hour, to: 1 .. Hours, cover: Cover \cup {Unset},
          bias_from: Bias, bias_to: Bias]

ASSUME ScenariosAssumption ==
  /\ Hours \in Nat \ {0} /\ Default \in Location
  /\ Unset \notin Cover /\ Bias \subseteq 0 .. 100 /\ NotRunning \notin Nat
  /\ Scenario \in Seq(Name) /\ \A s \in Name : Definitions[s] \subseteq Seq(Stage)

(* `age' is the hours since the operator chose the stage.  Nothing reads it*)
(* of a stage that follows the clock, or once it has reached the stage's   *)
(* length, where it stops here.                                            *)
ScenarioRuntime == [stage: Nat \cup {NotRunning}, manual: BOOLEAN, age: 0 .. Hours]
Length(st) == Higher(1, st.to - st.from)
Stopped == [stage |-> NotRunning, manual |-> FALSE, age |-> 0]

VARIABLES
  hour,        \* local hour of the day
  def,         \* the definition of every scenario: a sequence of stages
  runtime,     \* ScenarioRuntime of every scenario
  live,        \* the cloud cover of every location
  baseline,    \* what the live value is reset to
  configured,  \* the last value the configuration gave the location (history)
  picked,      \* the bias tick: Idle, or the set of the stage it has picked,
               \* with the bias at that moment
  applied      \* the stage last applied, or none

scenariosVars == <<hour, def, runtime, live, baseline, configured, picked, applied>>
registry == <<def, runtime>>
weather == <<live, baseline, configured>>

(* wallclock_stage: the first stage whose hours hold h, 0 for none.        *)
WallclockStage(stages, h) ==
  LET hit == {i \in DOMAIN stages : stages[i].from <= h /\ h < stages[i].to} IN
  IF hit = {} THEN 0 ELSE CHOOSE i \in hit : \A j \in hit : i <= j

Running(s) == runtime[s].stage # NotRunning

ScenariosInit ==
  /\ hour \in Hour
  /\ def \in {d \in [Name -> UNION {Definitions[s] : s \in Name}] :
                \A s \in Name : d[s] \in Definitions[s]}
  /\ runtime = [s \in Name |-> Stopped]
  /\ \E c \in Cover : live = [l \in Location |-> c]
  /\ baseline = live /\ configured = live
  /\ picked = Idle /\ applied = {}

-----------------------------------------------------------------------------
(* The operator's requests.                                                *)
SetRuntime(s, r) ==
  /\ runtime' = [runtime EXCEPT ![s] = r]
  /\ UNCHANGED <<hour, def, weather, picked, applied>>

(* A click on the stage the clock is in hands it back to the clock.        *)
JumpTo(s, i) ==
  SetRuntime(s, [stage |-> i, manual |-> WallclockStage(def[s], hour) # i,
                 age |-> 0])

(* A scenario started outside its hours begins at its first stage.         *)
Start(s) ==
  /\ def[s] # << >>
  /\ SetRuntime(s, [stage |-> LET i == WallclockStage(def[s], hour) IN
                              IF i = 0 THEN 1 ELSE i,
                    manual |-> FALSE, age |-> 0])

Jump(s, i) == i \in DOMAIN def[s] /\ JumpTo(s, i)

JumpRelative(s, delta) ==
  /\ Running(s)
  /\ Jump(s, runtime[s].stage + delta)

Stop(s) == Running(s) /\ SetRuntime(s, Stopped)

-----------------------------------------------------------------------------
(* The configuration, at load and again at every reload.                   *)

(* define-scenario replaces definition and runtime together.               *)
DefineScenario(s, stages) ==
  /\ def' = [def EXCEPT ![s] = stages]
  /\ runtime' = [runtime EXCEPT ![s] = Stopped]
  /\ UNCHANGED <<hour, weather, picked, applied>>

WrongConfigure(l, c) ==
  /\ live' = [live EXCEPT ![l] = c]
  /\ configured' = [configured EXCEPT ![l] = c]
  /\ UNCHANGED <<hour, registry, baseline, picked, applied>>
Configure(l, c) ==
  /\ live' = [live EXCEPT ![l] = c]
  /\ baseline' = [baseline EXCEPT ![l] = c]
  /\ configured' = [configured EXCEPT ![l] = c]
  /\ UNCHANGED <<hour, registry, picked, applied>>

(* set-weather-cloud-cover addresses the default location, and             *)
(* %make-weather-location replaces a location as a whole.                  *)
SetWeatherCloudCover(c) == Configure(Default, c)
MakeWeatherLocation(l, c) == l # Default /\ Configure(l, c)

-----------------------------------------------------------------------------
(* The bias tick.                                                          *)

(* The stage a scenario is in after the tick looked at it.                 *)
WrongAdvanced(s) ==
  LET i == WallclockStage(def[s], hour) IN
  [runtime[s] EXCEPT !.stage = IF i # 0 THEN i ELSE @]
Advanced(s) ==
  LET i == WallclockStage(def[s], hour) IN
  [runtime[s] EXCEPT !.stage = IF ~runtime[s].manual /\ i # 0 THEN i ELSE @]

(* stage_bias_now: where between its two biases a stage is, by the clock   *)
(* or, once the operator holds it, by the time it was chosen.              *)
StageBiasNow(st, r, h) ==
  StageBias(st.bias_from, st.bias_to, IF r.manual THEN r.age ELSE h - st.from,
            st.to - st.from)

(* The loop returns at the first running scenario whose stage exists.      *)
FirstRunning == SelectInSeq(Scenario, Running)

PickActiveStage ==
  /\ picked = Idle
  /\ IF FirstRunning = 0
     THEN picked' = {} /\ UNCHANGED runtime
     ELSE LET s == Scenario[FirstRunning] IN
          /\ runtime' = [runtime EXCEPT ![s] = Advanced(s)]
          /\ LET st == def[s][Advanced(s).stage] IN
             picked' = {[stage |-> st, bias |-> StageBiasNow(st, Advanced(s), hour)]}
  /\ UNCHANGED <<hour, def, weather, applied>>

(* Under the weather lock: every location back to its baseline, then the   *)
(* picked stage's override on top.                                         *)
WrongOverridden(l) ==
  IF \E p \in picked : p.stage.cover # Unset
  THEN (CHOOSE p \in picked : TRUE).stage.cover ELSE live[l]
Overridden(l) ==
  IF \E p \in picked : p.stage.cover # Unset
  THEN (CHOOSE p \in picked : TRUE).stage.cover ELSE baseline[l]

ApplyWeather ==
  /\ picked # Idle
  /\ live' = [l \in Location |-> Overridden(l)]
  /\ applied' = {p.stage : p \in picked} /\ picked' = Idle
  /\ UNCHANGED <<hour, registry, baseline, configured>>

HourPasses ==
  /\ hour' = (hour + 1) % Hours
  /\ runtime' = [s \in Name |-> [runtime[s] EXCEPT
                   !.age = IF runtime[s].manual
                           THEN Lower(@ + 1, Length(def[s][runtime[s].stage])) ELSE 0]]
  /\ UNCHANGED <<def, weather, picked, applied>>

Operator(s) ==
  \/ Start(s) \/ Stop(s)
  \/ \E i \in 1 .. Hours + 1 : Jump(s, i)
  \/ \E delta \in {-1, 1} : JumpRelative(s, delta)

Configuration ==
  \/ \E s \in Name : \E stages \in Definitions[s] : DefineScenario(s, stages)
  \/ \E c \in Cover : SetWeatherCloudCover(c)
  \/ \E l \in Location, c \in Cover : MakeWeatherLocation(l, c)

ScenariosNext ==
  \/ \E s \in Name : Operator(s)
  \/ Configuration
  \/ PickActiveStage \/ ApplyWeather
  \/ HourPasses

ScenariosSpec == ScenariosInit /\ [][ScenariosNext]_scenariosVars

(* The interval keeps ticking, and a picked stage is applied.              *)
ScenariosFairSpec ==
  ScenariosSpec /\ WF_scenariosVars(PickActiveStage) /\ WF_scenariosVars(ApplyWeather)

-----------------------------------------------------------------------------
(* Every variable stays in its type, a running stage exists in the         *)
(* scenario's current definition (the tick indexes the stage list with     *)
(* it), and what the tick hands on lies between the stage's two biases.    *)
ScenariosTypeOK ==
  /\ hour \in Hour
  /\ \A s \in Name : /\ def[s] \in Definitions[s]
                     /\ runtime[s] \in ScenarioRuntime
                     /\ Running(s) => runtime[s].stage \in DOMAIN def[s]
  /\ live \in [Location -> Cover] /\ baseline \in [Location -> Cover]
  /\ configured \in [Location -> Cover]
  /\ applied \in {{}} \cup {{st} : st \in Stage}
  /\ picked # Idle =>
       /\ {p.stage : p \in picked} \in {{}} \cup {{st} : st \in Stage}
       /\ \A p \in picked : LET st == p.stage IN
            p.bias \in Lower(st.bias_from, st.bias_to) .. Higher(st.bias_from, st.bias_to)

(* Overrides never compound: the weather is what the configuration set,    *)
(* unless the stage applied last, or a setter since, says otherwise; what  *)
(* an earlier stage wrote is gone.                                         *)
OverridesDoNotCompound ==
  \A l \in Location :
    live[l] \in {configured[l]} \cup {st.cover : st \in applied}

(* The two of them, checked together.                                      *)
ScenariosConsistent == ScenariosTypeOK /\ OverridesDoNotCompound

(* A stage the operator chose away from the clock is left alone by the     *)
(* bias tick, at whatever hour.                                            *)
ManualStageStays ==
  [][PickActiveStage =>
       \A s \in Name : runtime[s].manual => runtime'[s] = runtime[s]]_scenariosVars

(* What the tick hands on is a stage that an automatic scenario is in at   *)
(* this hour, or has no stage for this hour, or the operator's choice.     *)
PickFollowsTheClock ==
  [][PickActiveStage =>
       \A s \in Name :
         (Running(s) /\ \A z \in Name \ {s} : ~Running(z)) =>
            \A p \in picked' :
              \/ runtime[s].manual
              \/ p.stage.from <= hour /\ hour < p.stage.to
              \/ \A i \in DOMAIN def[s] : hour \notin def[s][i].from .. def[s][i].to - 1]_scenariosVars

(* A stage that the operator holds plays once: its bias goes from the      *)
(* first value to the second, whatever hour it is, and does not start over *)
(* at midnight (stage_bias_now, src/scenarios.rs:101-121).                 *)
Now(s) == StageBiasNow(def[s][runtime[s].stage], runtime[s], hour)
HeldStagePlaysOnce ==
  [][HourPasses =>
       \A s \in Name : runtime[s].manual =>
         Abs(def[s][runtime[s].stage].bias_to - Now(s)')
           <= Abs(def[s][runtime[s].stage].bias_to - Now(s))]_scenariosVars

(* The tick neither overrules the operator nor lags behind the clock.      *)
PickIsRight == ManualStageStays /\ PickFollowsTheClock /\ HeldStagePlaysOnce

(* Once all scenarios are stopped, and stay so, the weather goes back to   *)
(* what the configuration last said, whatever stage was in force.          *)
WeatherReturns ==
  <>[](\A s \in Name : ~Running(s)) =>
    <>[](\A l \in Location : live[l] = configured[l])

(* src/scenarios.rs says of the pick: "Auto-advance any running scenario   *)
(* whose wallclock has moved into a different stage".                      *)
PickAdvancesEveryScenario ==
  [][PickActiveStage =>
       \A s \in Name :
         LET i == WallclockStage(def[s], hour) IN
         (Running(s) /\ ~runtime[s].manual /\ i # 0) => runtime'[s].stage = i]_scenariosVars
=============================================================================
