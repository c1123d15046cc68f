------------------------------- MODULE Shell -------------------------------
(***************************************************************************)
(* What the browser page shares between its panels (web/src/main.rs) and   *)
(* the scenario panel built on it (web/src/panels/scenarios.rs): a poll of *)
(* the scenarios, one request for the simulator's zone, and the operator's *)
(* commands, each a task of its own whose requests go out one after        *)
(* another.  Other clients command the same server (src/bin/tsctl.rs).     *)
(* An optional value is a set of at most one element.                      *)
(***************************************************************************)
EXTENDS Naturals, Sequences, FiniteSets

CONSTANTS
  Scenario,     \* names, as numbers in their order
  Stages,       \* stages of every scenario
  MaxTasks,     \* bound on the operator's commands
  MaxTroubles   \* bound on commands of other clients, moves of the clock, losses

ASSUME ShellAssumption ==
  /\ Scenario \subseteq Nat /\ IsFiniteSet(Scenario) /\ Stages \in Nat \ {0}
  /\ {MaxTasks, MaxTroubles} \subseteq Nat

Idle == 0
Stage == 1 .. Stages

VARIABLES
  stage,        \* at the server: the stage of every scenario, Idle if stopped
  shown,        \* the list the page shows, once it has one
  tasks,        \* the operator's commands: [plan, target, got, clean]
  poll,         \* the poll: "asleep", "asked" or the list it was answered
  clock,        \* the one request for the simulator's zone
  tzMode,       \* the zone the operator wants times in
  troubles      \* how often others came in or a request was lost (bound)

shellVars == <<stage, shown, tasks, poll, clock, tzMode, troubles>>
zone == <<clock, tzMode>>

Active(list) == {s \in Scenario : list[s] # Idle}
Lowest(S) == {s \in S : \A t \in S : s <= t}

-----------------------------------------------------------------------------
(* The server's answer to a command (src/ui/mod.rs): the stages a scenario *)
(* may be in after it.  Start takes the stage of the hour, or the first;   *)
(* a step out of range and a step of a stopped scenario change nothing; a  *)
(* jump does not ask whether the scenario runs.                            *)
Command(op, s, i) == [op |-> op, scenario |-> s, stage |-> i]
After(cmd, cur) ==
  CASE cmd.op = "start" -> Stage
    [] cmd.op = "stop"  -> {Idle}
    [] cmd.op = "jump"  -> {cmd.stage}
    [] cmd.op = "next"  -> {IF cur # Idle /\ cur + 1 \in Stage THEN cur + 1 ELSE cur}
    [] cmd.op = "prev"  -> {IF cur # Idle /\ cur - 1 \in Stage THEN cur - 1 ELSE cur}
Obey(cmd) ==
  \E i \in After(cmd, stage[cmd.scenario]) : stage' = [stage EXCEPT ![cmd.scenario] = i]

(* A change that another makes spoils what a switch has read (history).    *)
Spoiled(ts, but) ==
  [t \in DOMAIN ts |-> IF t = but THEN ts[t] ELSE [ts[t] EXCEPT !.clean = FALSE]]

ShellInit ==
  /\ stage \in {st \in [Scenario -> {Idle, 1}] : Cardinality(Active(st)) <= 1}
  /\ shown = {} /\ tasks = << >> /\ poll = [at |-> "asked", list |-> {}]
  /\ clock = "asked" /\ tzMode \in {"local", "utc"}
  /\ troubles = 0

Trouble == troubles < MaxTroubles /\ troubles' = troubles + 1

(* Another client commands; the tick moves a scenario to the clock's stage.*)
OtherClient(cmd) ==
  /\ Trouble /\ Obey(cmd) /\ tasks' = Spoiled(tasks, 0)
  /\ UNCHANGED <<shown, poll, zone>>
Advance(s, i) ==
  /\ Trouble /\ stage[s] # Idle /\ stage' = [stage EXCEPT ![s] = i]
  /\ UNCHANGED <<shown, tasks, poll, zone>>

-----------------------------------------------------------------------------
(* The operator's commands, on what the page shows: the active scenario    *)
(* with the lowest name, or the picker if none is.                         *)
Fetch == Command("fetch", 0, 0)
Task(plan, target) == [plan |-> plan, target |-> target, got |-> {}, clean |-> FALSE]
Begin(task) ==
  /\ Len(tasks) < MaxTasks /\ tasks' = Append(tasks, task)
  /\ UNCHANGED <<stage, shown, poll, zone, troubles>>
Act(cmd) == Begin(Task(<<cmd, Fetch>>, {}))

OnScreen == UNION {Lowest(Active(list)) : list \in shown}
Picker == \E list \in shown : Active(list) = {}
PickStart(s) == Picker /\ Act(Command("start", s, 0))
Step(s) ==
  /\ s \in OnScreen
  /\ \E list \in shown :
        \/ list[s] # 1 /\ Act(Command("prev", s, 0))
        \/ list[s] # Stages /\ Act(Command("next", s, 0))
StopIt(s) == s \in OnScreen /\ Act(Command("stop", s, 0))
JumpTo(s, i) == s \in OnScreen /\ Act(Command("jump", s, i))
SwitchTo(s) ==
  /\ OnScreen # {} /\ \E list \in shown : list[s] = Idle
  /\ Begin(Task(<<Command("list", 0, 0)>>, {s}))

(* The rest of a switch once its list is there: the first active scenario  *)
(* is stopped, the target started and the list fetched again.              *)
WrongRest(target, list) == <<Command("start", target, 0), Fetch>>
Rest(target, list) ==
  LET start == <<Command("start", target, 0), Fetch>> IN
  IF Active(list) = {} THEN start
  ELSE <<Command("stop", CHOOSE s \in Lowest(Active(list)) : TRUE, 0)>> \o start

-----------------------------------------------------------------------------
(* One request of a task at a time.  A command that is lost is not tried   *)
(* again and the task goes on; a list that is lost is taken for empty.     *)
Waits(t, ops) == tasks[t].plan # << >> /\ tasks[t].plan[1].op \in ops
Reads == {"list", "fetch"}
Writes == {"start", "stop", "jump", "next", "prev"}

Handle(t) ==
  /\ Waits(t, Writes) /\ Obey(tasks[t].plan[1])
  /\ tasks' = Spoiled([tasks EXCEPT ![t].plan = Tail(@)], t)
  /\ UNCHANGED <<shown, poll, zone, troubles>>
ServeList(t) ==
  /\ Waits(t, Reads) /\ tasks[t].got = {}
  /\ tasks' = [tasks EXCEPT ![t].got = {stage},
                            ![t].clean = IF Waits(t, {"list"})
                                           THEN Cardinality(Active(stage)) <= 1 ELSE @]
  /\ UNCHANGED <<stage, shown, poll, zone, troubles>>
TakeList(t) ==
  \E list \in tasks[t].got :
    /\ IF Waits(t, {"list"})
         THEN \E s \in tasks[t].target :
                tasks' = [tasks EXCEPT ![t].plan = Rest(s, list), ![t].got = {}]
              /\ UNCHANGED shown
         ELSE tasks' = [tasks EXCEPT ![t].plan = << >>, ![t].got = {}]
              /\ shown' = {list}
    /\ UNCHANGED <<stage, poll, zone, troubles>>
Lose(t) ==
  /\ Trouble /\ tasks[t].plan # << >>
  /\ LET rest == IF Waits(t, {"list"})
                   THEN <<Command("start", CHOOSE s \in tasks[t].target : TRUE, 0), Fetch>>
                   ELSE Tail(tasks[t].plan) IN
     tasks' = [tasks EXCEPT ![t].plan = rest, ![t].got = {}, ![t].clean = FALSE]
  /\ UNCHANGED <<stage, shown, poll, zone>>

-----------------------------------------------------------------------------
(* The poll, every two seconds.                                            *)
unpolled == <<stage, tasks, zone>>
PollAsk ==
  /\ poll.at = "asleep" /\ poll' = [at |-> "asked", list |-> {}]
  /\ UNCHANGED <<unpolled, shown, troubles>>
PollServe ==
  /\ poll.at = "asked" /\ poll' = [at |-> "answered", list |-> {stage}]
  /\ UNCHANGED <<unpolled, shown, troubles>>
Polled(list) == list
PollTake ==
  /\ poll.at = "answered" /\ poll' = [at |-> "asleep", list |-> {}]
  /\ shown' = Polled(poll.list)
  /\ UNCHANGED <<unpolled, troubles>>
PollLose ==
  /\ Trouble /\ poll.at = "asked"
  /\ poll' = [at |-> "asleep", list |-> {}]
  /\ UNCHANGED <<unpolled, shown>>

-----------------------------------------------------------------------------
(* The zone is asked for once; until it is known times are shown in UTC.   *)
commands == <<stage, shown, tasks, poll>>
ClockAnswered ==
  /\ clock = "asked" /\ clock' = "answered"
  /\ UNCHANGED <<commands, tzMode, troubles>>
ClockLost ==
  /\ Trouble /\ clock = "asked" /\ clock' = "lost"
  /\ UNCHANGED <<commands, tzMode>>
ToggleZone ==
  /\ tzMode' = IF tzMode = "local" THEN "utc" ELSE "local"
  /\ UNCHANGED <<commands, clock, troubles>>
DisplayZone ==
  IF tzMode = "local" /\ clock = "answered" THEN "sim" ELSE "utc"

-----------------------------------------------------------------------------
Handled == \E t \in DOMAIN tasks : Handle(t)
Answered == \E t \in DOMAIN tasks : ServeList(t) \/ TakeList(t)

ShellNext ==
  \/ \E s \in Scenario, op \in {"start", "stop", "next", "prev"} :
        OtherClient(Command(op, s, 0))
  \/ \E s \in Scenario, i \in Stage : OtherClient(Command("jump", s, i)) \/ Advance(s, i)
  \/ \E s \in Scenario : PickStart(s) \/ Step(s) \/ StopIt(s) \/ SwitchTo(s)
  \/ \E s \in Scenario, i \in Stage : JumpTo(s, i)
  \/ \E t \in DOMAIN tasks : Handle(t) \/ ServeList(t) \/ TakeList(t) \/ Lose(t)
  \/ PollAsk \/ PollServe \/ PollTake \/ PollLose
  \/ ClockAnswered \/ ClockLost \/ ToggleZone

ShellSpec == ShellInit /\ [][ShellNext]_shellVars

-----------------------------------------------------------------------------
(* Every variable stays in its type.                                       *)
ShellTypeOK ==
  /\ stage \in [Scenario -> Stage \union {Idle}]
  /\ Len(tasks) <= MaxTasks /\ Cardinality(shown) <= 1
  /\ poll.at \in {"asleep", "asked", "answered"}
  /\ tzMode \in {"local", "utc"} /\ troubles \in 0 .. MaxTroubles

(* A switch that nobody came between, from at most one running scenario,   *)
(* leaves its target running and nothing else.                             *)
LoneSwitchLeavesTarget ==
  \A t \in DOMAIN tasks :
    tasks[t].clean /\ (tasks[t].plan = << >> \/ Waits(t, {"fetch"}))
      => Active(stage) = tasks[t].target

(* What the shell promises in every state, checked together.               *)
ShellConsistent == ShellTypeOK /\ LoneSwitchLeavesTarget

(* Whatever order lists and commands came in, the page comes to show what  *)
(* runs.                                                                   *)
ShownHeals == <>[](shown = {stage})

(* The pulse bar shows one scenario and the panel offers a switch from it  *)
(* to another: a page alone at its server keeps at most one running.       *)
AtMostOneRuns == Cardinality(Active(stage)) <= 1

(* "Local means format in the sim's home zone", whatever became of the     *)
(* page's first request.                                                   *)
LocalIsSimZone == clock # "asked" /\ tzMode = "local" => DisplayZone = "sim"
=============================================================================
