------------------------------ MODULE Control ------------------------------
(***************************************************************************)
(* The control plane: the configuration (src/lisp/mod.rs with the helpers  *)
(* of sim/common.lisp), the watcher that evaluates it again when a file    *)
(* is saved, the timers it leaves behind, and the recall queue the binary  *)
(* drains (src/bin/tradingsim.rs).                                         *)
(*                                                                         *)
(* A configuration file is a sequence of forms, evaluated one after the    *)
(* other; a step of the evaluation is one form, since every form takes     *)
(* and leaves the lock of what it writes while the other tasks run.        *)
(***************************************************************************)
EXTENDS Integers, Sequences, FiniteSets, SequencesExt

CONSTANTS
  Fleets, Params,     \* fleet names; the recipes a fleet may be given.  A maker
                      \* fleet and an aggressor fleet never share a name: the
                      \* helpers of common.lisp put "ag-" before the latter's.
  Knob, Setting,      \* forward curve, bias scale, ...; what they are set to
  Initial,            \* the setting before any file is read
  Item,               \* what make-market, make-gridpool and make-coupling declare
  SupportFile,        \* files besides the configuration
  Order,              \* orders a timer may recall
  None,               \* a timer that recalls nothing
  Contents,           \* what the configuration file may hold, as sequences of forms
  MaxSaves, MaxTicks, \* bounds: saves of a file, firings of a timer,
  MaxInputs,          \* and both together
  ChannelCap,         \* capacity of the watcher's channel
  WatchFails          \* whether the file notifications may break down

ASSUME ControlAssumption ==
  /\ MaxSaves \in Nat /\ MaxTicks \in Nat /\ MaxInputs \in Nat
  /\ ChannelCap \in Nat \ {0}
  /\ WatchFails \in BOOLEAN /\ None \notin Order /\ Initial \in Setting

(* The forms that matter here, by the function they call.  Arguments that  *)
(* a primitive refuses, as profile lists of two lengths, are an "error".   *)
Declaration == {"make-market", "make-gridpool", "make-coupling"}
Form ==
  [fn: {"reset-state", "error"}]
  \cup [fn: {"mm-fleet", "aggressor-fleet"}, name: Fleets, params: Params]
  \cup [fn: {"set"}, knob: Knob, value: Setting]
  \cup [fn: Declaration, item: Item]
  \cup [fn: {"every", "run-with-timer"}, recalls: Order \cup {None}]
  \cup [fn: {"watch-file"}, path: SupportFile]

ASSUME ContentsAssumption == Contents \subseteq Seq(Form)

(* A file is parsed as a whole before its first form is evaluated, so one  *)
(* that does not parse does nothing but fail.                              *)
Unparsable == <<[fn |-> "error"]>>

(* "The file is expected to call (reset-state) at the top so timers from   *)
(* the previous load are cancelled before new ones are installed"          *)
(* (src/lisp/mod.rs:283-286).  It does so there only, as config.lisp does. *)
ResetsFirst ==
  \A c \in Contents \ {<< >>, Unparsable} :
    \A i \in DOMAIN c : c[i].fn = "reset-state" <=> i = 1

VARIABLES
  disk,       \* the configuration file
  torn,       \* its writer has truncated it and not written it yet
  saves,      \* saves so far (bounded)
  raised,     \* notifications the operating system has raised
  channel,    \* those in the watcher's channel
  watched,    \* support files the watcher was told to watch
  dirty,      \* support files of extra_watches saved since the last load
  phase,      \* the watcher: "boot", "idle", "debounce", "reload", "dead"
  rest,       \* the forms the current evaluation has left
  evaluated,  \* the file as the last evaluation read it
  failed,     \* it ended in an error
  loads,      \* evaluations so far
  fleet,      \* mm_fleets: the cell that holds each fleet's shared_params
  cell,       \* the cells: RwLock<MmFleetParams>, by allocation
  running,    \* the cell each fleet of the FleetManager reads
  knob,       \* the shared values the setters write
  declared,   \* the lists markets, gridpools and couplings
  installed,  \* what the exchange was built from
  extra_watches,
  timers,     \* timers that fire: [id, fn, load, recalls]
  active_timers, \* the ids (every ...) has noted
  ticks,      \* firings so far (bounded)
  recall_queue, drained,
  recalled    \* the orders the exchange was told to recall; World's CancelOrder
              \* is what it then does, and nothing to an order that is over

notify == <<disk, torn, saves, raised, channel, watched, dirty>>
watcher == <<phase, rest, evaluated, failed, loads>>
lists == <<declared, installed>>
registry == <<fleet, cell, running, extra_watches, knob, lists>>
timing == <<timers, active_timers, ticks>>
recalls == <<recall_queue, drained, recalled>>
controlVars == <<notify, watcher, registry, timing, recalls>>

(* Config::new evaluates the file before any task is spawned.              *)
ControlInit ==
  /\ disk \in Contents /\ torn = FALSE /\ saves = 0
  /\ raised = << >> /\ channel = << >> /\ watched = {} /\ dirty = {}
  /\ phase = "boot" /\ rest = disk /\ evaluated = disk
  /\ failed = FALSE /\ loads = 1
  /\ fleet = [n \in {} |-> 0] /\ cell = << >> /\ running = fleet
  /\ extra_watches = {} /\ knob = [k \in Knob |-> Initial]
  /\ declared = [fn \in Declaration |-> << >>] /\ installed = declared
  /\ timers = {} /\ active_timers = {} /\ ticks = 0
  /\ recall_queue = << >> /\ drained = << >> /\ recalled = {}

-----------------------------------------------------------------------------
(* The evaluation of one form.                                             *)
Evaluating(fn) ==
  /\ phase \in {"boot", "reload"} /\ rest # << >>
  /\ Head(rest).fn = fn
  /\ rest' = Tail(rest)
  /\ UNCHANGED <<notify, phase, evaluated, failed, loads, running, installed, ticks,
                 recalls>>

(* (reset-state) cancels the timers it has noted.                          *)
WrongResetState ==
  /\ Evaluating("reset-state")
  /\ active_timers' = {}
  /\ UNCHANGED <<timers, fleet, cell, knob, declared, extra_watches>>
ResetState ==
  /\ Evaluating("reset-state")
  /\ timers' = {t \in timers : t.id \notin active_timers}
  /\ active_timers' = {}
  /\ UNCHANGED <<fleet, cell, knob, declared, extra_watches>>

NewTimer ==
  [id |-> <<loads, Len(rest)>>, fn |-> Head(rest).fn, load |-> loads,
   recalls |-> Head(rest).recalls]

RunWithTimer ==
  /\ Evaluating("run-with-timer")
  /\ timers' = timers \cup {NewTimer}
  /\ UNCHANGED <<active_timers, fleet, cell, knob, declared, extra_watches>>

Every ==
  /\ Evaluating("every")
  /\ timers' = timers \cup {NewTimer}
  /\ active_timers' = active_timers \cup {NewTimer.id}
  /\ UNCHANGED <<fleet, cell, knob, declared, extra_watches>>

(* %make-mm-fleet and %make-aggressor-fleet: a fleet of a known name has   *)
(* its cell rewritten in place.                                            *)
WrongMakeFleet(fn) ==
  /\ Evaluating(fn)
  /\ LET f == Head(rest) IN
     /\ cell' = Append(cell, f.params)
     /\ fleet' = [n \in DOMAIN fleet \cup {f.name} |->
                    IF n = f.name THEN Len(cell) + 1 ELSE fleet[n]]
  /\ UNCHANGED <<knob, declared, extra_watches, timers, active_timers>>
MakeFleet(fn) ==
  /\ Evaluating(fn)
  /\ LET f == Head(rest) IN
     IF f.name \in DOMAIN fleet
     THEN cell' = [cell EXCEPT ![fleet[f.name]] = f.params] /\ UNCHANGED fleet
     ELSE /\ cell' = Append(cell, f.params)
          /\ fleet' = [n \in DOMAIN fleet \cup {f.name} |->
                         IF n = f.name THEN Len(cell) + 1 ELSE fleet[n]]
  /\ UNCHANGED <<knob, declared, extra_watches, timers, active_timers>>
MakeMmFleet == MakeFleet("mm-fleet")
MakeAggressorFleet == MakeFleet("aggressor-fleet")

(* set-forward-curve-base, set-mm-bias-scale: the value is shared with the *)
(* task that reads it and is in force at once.                             *)
SetKnob ==
  /\ Evaluating("set")
  /\ knob' = [knob EXCEPT ![Head(rest).knob] = Head(rest).value]
  /\ UNCHANGED <<fleet, cell, declared, extra_watches, timers, active_timers>>

(* The three lists only grow: a reload adds its declarations once more.    *)
Declare(fn) ==
  /\ Evaluating(fn)
  /\ declared' = [declared EXCEPT ![fn] = Append(@, Head(rest).item)]
  /\ UNCHANGED <<fleet, cell, knob, extra_watches, timers, active_timers>>
MakeMarket == Declare("make-market")
MakeGridpool == Declare("make-gridpool")
MakeCoupling == Declare("make-coupling")

WatchFile ==
  /\ Evaluating("watch-file")
  /\ extra_watches' = extra_watches \cup {Head(rest).path}
  /\ UNCHANGED <<fleet, cell, knob, declared, timers, active_timers>>

(* An error ends the evaluation: what came before it stays done, which is  *)
(* nothing if the file did not parse.  At boot the process exits; a reload *)
(* is logged and the watcher goes on.                                      *)
EvalError ==
  /\ phase \in {"boot", "reload"} /\ rest # << >>
  /\ Head(rest).fn = "error"
  /\ rest' = << >> /\ failed' = TRUE
  /\ phase' = IF phase = "boot" THEN "dead" ELSE "idle"
  /\ UNCHANGED <<notify, evaluated, loads, registry, timing, recalls>>

(* The binary builds the exchange from the lists of the first load and     *)
(* hands its fleets to the FleetManager, once and for all (its defaults for*)
(* lists that are empty are left out), and the watcher task reads          *)
(* extra_watches.                                                          *)
Boot ==
  /\ phase = "boot" /\ rest = << >>
  /\ installed' = declared
  /\ running' = fleet /\ watched' = extra_watches /\ phase' = "idle"
  /\ UNCHANGED <<disk, torn, saves, raised, channel, dirty, rest, evaluated,
                 failed, loads, fleet, cell, extra_watches, knob, declared, timing,
                 recalls>>

Reloaded ==
  /\ phase = "reload" /\ rest = << >>
  /\ phase' = "idle"
  /\ UNCHANGED <<notify, rest, evaluated, failed, loads, registry, timing, recalls>>

-----------------------------------------------------------------------------
(* Saving a file: the editor truncates, writes and closes it, and only     *)
(* once the server is up.  What is saved between the first load and the    *)
(* start of the watcher raises no notification.                            *)
Started == phase \in {"idle", "debounce", "reload"}

Truncate ==
  /\ Started /\ saves < MaxSaves /\ saves + ticks < MaxInputs /\ ~torn
  /\ disk' = << >> /\ torn' = TRUE /\ saves' = saves + 1
  /\ raised' = Append(raised, "modify")
  /\ UNCHANGED <<channel, watched, dirty, watcher, registry, timing, recalls>>

Write ==
  /\ Started /\ torn
  /\ disk' \in Contents /\ torn' = FALSE
  /\ raised' = raised \o <<"modify", "other">>
  /\ UNCHANGED <<saves, channel, watched, dirty, watcher, registry, timing, recalls>>

SaveSupport(path) ==
  /\ Started /\ saves < MaxSaves /\ saves + ticks < MaxInputs
  /\ saves' = saves + 1
  /\ dirty' = dirty \cup ({path} \cap extra_watches)
  /\ raised' = IF path \in watched THEN Append(raised, "modify") ELSE raised
  /\ UNCHANGED <<disk, torn, channel, watched, watcher, registry, timing, recalls>>

Breakdown ==
  /\ Started /\ WatchFails /\ "error" \notin ToSet(raised \o channel)
  /\ raised' = Append(raised, "error")
  /\ UNCHANGED <<disk, torn, saves, channel, watched, dirty, watcher,
                 registry, timing, recalls>>

(* The notification thread blocks while the channel is full.               *)
Send ==
  /\ Started /\ raised # << >> /\ Len(channel) < ChannelCap
  /\ raised' = Tail(raised) /\ channel' = Append(channel, Head(raised))
  /\ UNCHANGED <<disk, torn, saves, watched, dirty, watcher, registry, timing, recalls>>

-----------------------------------------------------------------------------
(* The watcher task.                                                       *)
Received == channel # << >> /\ channel' = Tail(channel)

(* A modification starts the wait for 150 ms of quiet, an error ends the   *)
(* task for good, any other event is skipped.                              *)
Watch ==
  /\ phase = "idle" /\ Received
  /\ phase' = IF Head(channel) = "error" THEN "dead"
              ELSE IF Head(channel) = "modify" THEN "debounce" ELSE "idle"
  /\ UNCHANGED <<disk, torn, saves, raised, watched, dirty, rest, evaluated,
                 failed, loads, registry, timing, recalls>>

WrongDebounce ==
  /\ phase = "debounce" /\ Received
  /\ phase' = IF Head(channel) = "error" THEN "dead" ELSE "idle"
  /\ UNCHANGED <<disk, torn, saves, raised, watched, dirty, rest, evaluated,
                 failed, loads, registry, timing, recalls>>
Debounce ==
  /\ phase = "debounce" /\ Received
  /\ phase' = IF Head(channel) = "error" THEN "dead" ELSE "debounce"
  /\ UNCHANGED <<disk, torn, saves, raised, watched, dirty, rest, evaluated,
                 failed, loads, registry, timing, recalls>>

(* Quiet: the reload reads the file.                                       *)
Reload ==
  /\ phase = "debounce" /\ channel = << >>
  /\ phase' = "reload"
  /\ rest' = disk /\ evaluated' = disk /\ failed' = FALSE
  /\ loads' = loads + 1 /\ dirty' = {}
  /\ UNCHANGED <<disk, torn, saves, raised, channel, watched, registry, timing, recalls>>

-----------------------------------------------------------------------------
(* The timer loop evaluates under the context's lock, which a load holds.  *)
FireTimer(t) ==
  /\ phase \notin {"boot", "reload"} /\ t.recalls # None
  /\ ticks < MaxTicks /\ saves + ticks < MaxInputs
  /\ ticks' = ticks + 1
  /\ recall_queue' = Append(recall_queue, t.recalls)
  /\ UNCHANGED <<notify, watcher, registry, timers, active_timers, drained, recalled>>

(* The recall task empties the queue, releases it, and then takes the      *)
(* exchange's lock for the whole batch.                                    *)
DrainRecalls ==
  /\ drained = << >> /\ recall_queue # << >>
  /\ drained' = recall_queue /\ recall_queue' = << >>
  /\ UNCHANGED <<notify, watcher, registry, timing, recalled>>

WrongRecallOrders ==
  /\ drained # << >> /\ drained' = << >> /\ recall_queue' = << >>
  /\ recalled' = recalled \cup ToSet(drained)
  /\ UNCHANGED <<notify, watcher, registry, timing>>
RecallOrders ==
  /\ drained # << >> /\ drained' = << >>
  /\ recalled' = recalled \cup ToSet(drained)
  /\ UNCHANGED <<notify, watcher, registry, timing, recall_queue>>

Evaluate ==
  \/ ResetState \/ Every \/ RunWithTimer \/ WatchFile \/ EvalError
  \/ MakeMmFleet \/ MakeAggressorFleet \/ SetKnob
  \/ MakeMarket \/ MakeGridpool \/ MakeCoupling

ControlNext ==
  \/ Evaluate \/ Boot \/ Reloaded
  \/ Truncate \/ Write \/ (\E p \in SupportFile : SaveSupport(p)) \/ Breakdown
  \/ Send \/ Watch \/ Debounce \/ Reload
  \/ (\E t \in timers : FireTimer(t)) \/ DrainRecalls \/ RecallOrders

(* The tasks run; an editor that truncated a file writes it.               *)
ControlFairness ==
  /\ WF_controlVars(Evaluate) /\ WF_controlVars(Boot) /\ WF_controlVars(Reloaded) /\ WF_controlVars(Write)
  /\ WF_controlVars(Send) /\ WF_controlVars(Watch) /\ WF_controlVars(Debounce) /\ WF_controlVars(Reload)
  /\ WF_controlVars(DrainRecalls) /\ WF_controlVars(RecallOrders)

ControlSpec == ControlInit /\ [][ControlNext]_controlVars /\ ControlFairness

-----------------------------------------------------------------------------
(* Every variable stays in its type, and every handle leads somewhere: a   *)
(* fleet to a cell, an id that is noted to a timer that still fires.       *)
ControlTypeOK ==
  /\ disk \in Seq(Form) /\ torn \in BOOLEAN /\ saves \in 0 .. MaxSaves
  /\ raised \in Seq({"modify", "other", "error"})
  /\ channel \in Seq({"modify", "other", "error"}) /\ Len(channel) <= ChannelCap
  /\ watched \subseteq SupportFile /\ dirty \subseteq extra_watches
  /\ extra_watches \subseteq SupportFile
  /\ phase \in {"boot", "idle", "debounce", "reload", "dead"}
  /\ rest \in Seq(Form) /\ evaluated \in Seq(Form)
  /\ failed \in BOOLEAN /\ loads \in Nat \ {0}
  /\ cell \in Seq(Params) /\ knob \in [Knob -> Setting]
  /\ declared \in [Declaration -> Seq(Item)] /\ installed \in [Declaration -> Seq(Item)]
  /\ DOMAIN running \subseteq DOMAIN fleet /\ DOMAIN fleet \subseteq Fleets
  /\ \A n \in DOMAIN fleet : fleet[n] \in DOMAIN cell
  /\ \A n \in DOMAIN running : running[n] \in DOMAIN cell
  /\ \A t \in timers : t.load \in 1 .. loads /\ t.recalls \in Order \cup {None}
  /\ active_timers \subseteq {t.id : t \in timers} /\ ticks \in 0 .. MaxTicks
  /\ recall_queue \in Seq(Order) /\ drained \in Seq(Order)
  /\ recalled \subseteq Order

(* Nothing is on its way to a watcher that waits for the next event.       *)
AtRest == phase = "idle" /\ raised = << >> /\ channel = << >>

(* No save is lost: when the watcher is at rest, the last evaluation read  *)
(* the file as it is on disk, however the truncating and the writing of a  *)
(* save fell around a reload and its quiet time, and no watched support    *)
(* file was saved since (watch, src/lisp/mod.rs:344-369).                  *)
SavesAreLoaded == AtRest => evaluated = disk /\ dirty \cap watched = {}

(* What a load did: the forms before the first one that fails.             *)
Done == {i \in DOMAIN evaluated : \A j \in 1 .. i : evaluated[j].fn # "error"}

(* At most one load's (every ...) timers fire: none is forgotten by the    *)
(* bookkeeping and none of an earlier load survives a later one, also when *)
(* a load fails half way (reset-state, sim/common.lisp:19-28).             *)
Recurring == {t \in timers : t.fn = "every"}
OneSetOfTimers ==
  /\ \A s, t \in Recurring : s.load = t.load
  /\ {t.id : t \in Recurring} = active_timers
  /\ phase = "idle" /\ Done # {} =>
       Cardinality(active_timers) = Cardinality({i \in Done : evaluated[i].fn = "every"})

(* The three of them, checked together.                                    *)
ControlConsistent == ControlTypeOK /\ SavesAreLoaded /\ OneSetOfTimers

(* A fleet's running counterparties read what the file says of the fleet   *)
(* once the file is loaded, up to the form that failed if one did: the     *)
(* reload wrote the very cell that they hold (%make-mm-fleet,              *)
(* src/lisp/mod.rs:1117-1140, and %make-aggressor-fleet, 874-888).  So do  *)
(* the readers of the knobs.                                               *)
Recipes(done, n) ==
  {i \in done : /\ evaluated[i].fn \in {"mm-fleet", "aggressor-fleet"}
                /\ evaluated[i].name = n}
Settings(done, k) == {i \in done : evaluated[i].fn = "set" /\ evaluated[i].knob = k}
FleetsFollowTheFile ==
  phase = "idle" =>
    /\ \A n \in DOMAIN running :
         Recipes(Done, n) # {} => cell[running[n]] = evaluated[Max(Recipes(Done, n))].params
    /\ \A k \in Knob :
         Settings(Done, k) # {} => knob[k] = evaluated[Max(Settings(Done, k))].value

(* No recall is lost: one that a timer queues while an earlier batch waits *)
(* for the exchange's lock is carried out after it, whatever is loaded in  *)
(* the meantime (the recall task, src/bin/tradingsim.rs:218-236).          *)
RecallsArrive == \A o \in Order : o \in ToSet(recall_queue) ~> o \in recalled

(* A file that is saved and then left alone is the one that is loaded      *)
(* (watch, src/lisp/mod.rs:344-369).                                       *)
SaveTakesEffect == <>[](phase = "dead" \/ (AtRest /\ evaluated = disk))

(* README.md:341 of (reset-state): "cancel all timers".  A timer made by   *)
(* run-with-timer itself is not noted, and stays.                          *)
AllTimersReset ==
  phase = "idle" /\ ~failed /\ evaluated # << >> /\ Head(evaluated).fn = "reset-state" =>
    \A t \in timers : t.load = loads

(* README.md:342 of (watch-file PATH): "also reload when this support file *)
(* changes".  The watcher reads the list once, when it starts.             *)
WatchedFilesReload == AtRest => dirty = {}

(* README.md:242: "Save the file and the running server picks up changes   *)
(* on the next tick".  A market, a gridpool or a coupling that a save adds *)
(* stays in its list.                                                      *)
DeclarationsTakeEffect ==
  AtRest => \A fn \in Declaration : ToSet(declared[fn]) = ToSet(installed[fn])
=============================================================================
