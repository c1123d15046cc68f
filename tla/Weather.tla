------------------------------ MODULE Weather ------------------------------
(***************************************************************************)
(* The weather registry (src/sim/weather.rs) and the weather service       *)
(* (src/weather_server.rs): every live stream is a task of its own that    *)
(* copies the registry, records a forecast per location in the ring all    *)
(* the streams share, and only then offers the whole frame to its client.  *)
(* A historical call replays what the ring holds of an interval.           *)
(*                                                                         *)
(* Of a location the grid point and one value are modelled; a forecast is  *)
(* the location's point, its value, its create time and the frame it       *)
(* belongs to.                                                             *)
(***************************************************************************)
EXTENDS Integers, Sequences, FiniteSets, SequencesExt

CONSTANTS
  Point, Default,     \* grid points; that of the registry's first location
  AreaCodes, Cover,   \* areas and cloud covers of a configuration
  Subscriber,         \* each opens one live stream
  HistoryCap,         \* forecasts the ring keeps
  ChannelCap,         \* frames between a stream and its client
  MaxFrames,          \* bound: frames a stream builds for a client that listens
  MaxTime,            \* bound: the last second of the clock
  MaxChanges          \* bound: changes of the registry

ASSUME WeatherAssumption ==
  /\ Default \in Point /\ HistoryCap \in Nat \ {0} /\ ChannelCap \in Nat \ {0}
  /\ MaxFrames \in Nat /\ MaxTime \in Nat /\ MaxChanges \in Nat

VARIABLES
  locations,  \* of WeatherRegistry: [point, cover] by index
  by_key, by_area,
  linked,     \* the point each area was linked to (history)
  changes,    \* changes so far (bounded)
  task,       \* every client's stream: "none", "build", "push", "send",
              \* "sleep" or "over"
  frame,      \* the frame it builds: forecasts in order
  pushed,     \* how many of them are recorded
  built,      \* frames it has begun (bounded)
  channel,    \* the frames on their way
  got,        \* the frames its client received
  gone,       \* the client has hung up
  history,    \* the ring
  log,        \* everything ever recorded (history variable)
  clock       \* the clock, in seconds

registry == <<locations, by_key, by_area, linked, changes>>
ring == <<history, log>>
vars == <<registry, task, frame, pushed, built, channel, got, gone, ring, clock>>

Init ==
  /\ \E c \in Cover : locations = <<[point |-> Default, cover |-> c]>>
  /\ by_key = [p \in {Default} |-> 1]
  /\ by_area = [a \in {} |-> 1] /\ linked = [a \in {} |-> Default]
  /\ changes = 0
  /\ task = [c \in Subscriber |-> "none"]
  /\ frame = [c \in Subscriber |-> << >>] /\ pushed = [c \in Subscriber |-> 0]
  /\ built = [c \in Subscriber |-> 0]
  /\ channel = [c \in Subscriber |-> << >>] /\ got = [c \in Subscriber |-> << >>]
  /\ gone = [c \in Subscriber |-> FALSE]
  /\ history = << >> /\ log = << >>
  /\ clock = 0

-----------------------------------------------------------------------------
(* The registry, written by the configuration.                             *)

(* upsert: the location at a known grid point is replaced where it is.     *)
IndexFor(p) == IF p \in DOMAIN by_key THEN by_key[p] ELSE Len(locations) + 1

Upsert(p, cover) ==
  LET i == IndexFor(p)
      loc == [point |-> p, cover |-> cover] IN
  /\ locations' = IF i \in DOMAIN locations THEN [locations EXCEPT ![i] = loc]
                  ELSE Append(locations, loc)
  /\ by_key' = [q \in DOMAIN by_key \cup {p} |-> IF q = p THEN i ELSE by_key[q]]

(* %make-weather-location, with the area it may name.                      *)
WrongLinked(a, p) == [b \in DOMAIN by_area \cup {a} |->
                        IF b = a THEN Len(locations) + 1 ELSE by_area[b]]
Linked(a, p) == [b \in DOMAIN by_area \cup {a} |->
                   IF b = a THEN IndexFor(p) ELSE by_area[b]]

MakeWeatherLocation(p, cover, areas) ==
  /\ changes < MaxChanges /\ changes' = changes + 1
  /\ Upsert(p, cover)
  /\ IF areas = {} THEN UNCHANGED <<by_area, linked>>
     ELSE \E a \in areas :
            /\ by_area' = Linked(a, p)
            /\ linked' = [b \in DOMAIN linked \cup {a} |->
                            IF b = a THEN p ELSE linked[b]]
  /\ UNCHANGED <<task, frame, pushed, built, channel, got, gone, ring, clock>>

(* The location an area is priced by, the first one without a link.        *)
ForArea(a) ==
  IF a \in DOMAIN by_area /\ by_area[a] \in DOMAIN locations
  THEN locations[by_area[a]] ELSE locations[1]

-----------------------------------------------------------------------------
(* A live stream for all locations.                                        *)
Open(c) ==
  /\ task[c] = "none" /\ task' = [task EXCEPT ![c] = "build"]
  /\ UNCHANGED <<registry, frame, pushed, built, channel, got, gone, ring, clock>>

(* The frame is made from one copy of the registry.  A stream that names   *)
(* locations gets one interpolated forecast for each, and is left out.     *)
Build(c) ==
  /\ task[c] = "build" /\ (gone[c] \/ built[c] < MaxFrames)
  /\ frame' = [frame EXCEPT ![c] =
       [i \in DOMAIN locations |->
          [by |-> c, no |-> built[c] + 1, at |-> clock,
           point |-> locations[i].point, cover |-> locations[i].cover]]]
  /\ built' = [built EXCEPT ![c] = @ + 1]
  /\ pushed' = [pushed EXCEPT ![c] = 0]
  /\ task' = [task EXCEPT ![c] = "push"]
  /\ UNCHANGED <<registry, channel, got, gone, ring, clock>>

(* push_history takes the ring's lock for one forecast at a time.          *)
Pushed(f) ==
  Append(IF Len(history) = HistoryCap THEN Tail(history) ELSE history, f)

PushHistory(c) ==
  /\ task[c] = "push"
  /\ LET f == frame[c][pushed[c] + 1] IN
     history' = Pushed(f) /\ log' = Append(log, f)
  /\ pushed' = [pushed EXCEPT ![c] = @ + 1]
  /\ task' = IF pushed'[c] = Len(frame[c]) THEN [task EXCEPT ![c] = "send"] ELSE task
  /\ UNCHANGED <<registry, frame, built, channel, got, gone, clock>>

(* The send waits for room; it fails, and ends the task, when the client   *)
(* has hung up.                                                            *)
WrongSent(c) == IF gone[c] THEN "send" ELSE "sleep"
Sent(c) == IF gone[c] THEN "over" ELSE "sleep"

Send(c) ==
  /\ task[c] = "send"
  /\ task' = [task EXCEPT ![c] = Sent(c)]
  /\ IF gone[c] THEN UNCHANGED channel
     ELSE /\ Len(channel[c]) < ChannelCap
          /\ channel' = [channel EXCEPT ![c] = Append(@, frame[c])]
  /\ UNCHANGED <<registry, frame, pushed, built, got, gone, ring, clock>>

Wake(c) ==
  /\ task[c] = "sleep"
  /\ task' = [task EXCEPT ![c] = "build"]
  /\ UNCHANGED <<registry, frame, pushed, built, channel, got, gone, ring, clock>>

Receive(c) ==
  /\ ~gone[c] /\ channel[c] # << >>
  /\ got' = [got EXCEPT ![c] = Append(@, Head(channel[c]))]
  /\ channel' = [channel EXCEPT ![c] = Tail(@)]
  /\ UNCHANGED <<registry, task, frame, pushed, built, gone, ring, clock>>

HangUp(c) ==
  /\ task[c] # "none" /\ ~gone[c]
  /\ gone' = [gone EXCEPT ![c] = TRUE]
  /\ channel' = [channel EXCEPT ![c] = << >>]
  /\ UNCHANGED <<registry, task, frame, pushed, built, got, ring, clock>>

(* receive_historical_weather_forecast: it answers the ring in its order,  *)
(* filtered by create time under its lock, here by position; the channel   *)
(* holds all of it and the call changes nothing.                           *)
Historical(first, last) == {i \in DOMAIN history : history[i].at \in first .. last}

SecondPasses ==
  /\ clock < MaxTime /\ clock' = clock + 1
  /\ UNCHANGED <<registry, task, frame, pushed, built, channel, got, gone, ring>>

Next ==
  \/ \E p \in Point, v \in Cover, A \in {{}} \cup {{a} : a \in AreaCodes} :
       MakeWeatherLocation(p, v, A)
  \/ \E c \in Subscriber :
       \/ Open(c) \/ Build(c) \/ PushHistory(c) \/ Send(c)
       \/ Wake(c) \/ Receive(c) \/ HangUp(c)
  \/ SecondPasses

Spec == Init /\ [][Next]_vars

(* A spawned task is polled whenever it can go on: its timer has run out,  *)
(* the channel has room, or its client has hung up.                        *)
FairSpec ==
  /\ Spec
  /\ \A c \in Subscriber :
       WF_vars(Build(c) \/ PushHistory(c) \/ Send(c) \/ Wake(c))

-----------------------------------------------------------------------------
Location == [point: Point, cover: Cover]
Forecast == [by: Subscriber, no: 1 .. MaxFrames + 1, at: 0 .. MaxTime, point: Point,
             cover: Cover]

(* Every variable stays in its type, and no ring or channel is overfilled. *)
TypeOK ==
  /\ locations \in Seq(Location) /\ locations # << >>
  /\ DOMAIN by_key \subseteq Point /\ \A p \in DOMAIN by_key : by_key[p] \in Nat
  /\ DOMAIN by_area \subseteq AreaCodes /\ DOMAIN linked = DOMAIN by_area
  /\ task \in [Subscriber -> {"none", "build", "push", "send", "sleep", "over"}]
  /\ frame \in [Subscriber -> Seq(Forecast)] /\ pushed \in [Subscriber -> Nat]
  /\ channel \in [Subscriber -> Seq(Seq(Forecast))]
  /\ got \in [Subscriber -> Seq(Seq(Forecast))]
  /\ built \in [Subscriber -> 0 .. MaxFrames + 1] /\ gone \in [Subscriber -> BOOLEAN]
  /\ \A c \in Subscriber : /\ pushed[c] \in 0 .. Len(frame[c])
                           /\ Len(channel[c]) <= ChannelCap
  /\ history \in Seq(Forecast) /\ Len(history) <= HistoryCap
  /\ log \in Seq(Forecast) /\ clock \in 0 .. MaxTime

(* However often a configuration is loaded again, a grid point has one     *)
(* slot and the index finds it (upsert, src/sim/weather.rs:182-195).       *)
OneSlotPerPoint ==
  /\ DOMAIN by_key = {locations[i].point : i \in DOMAIN locations}
  /\ \A i \in DOMAIN locations : by_key[locations[i].point] = i

(* An area stays anchored to the point it was last linked to, whatever is  *)
(* registered later: slots never move (link_area and for_area,             *)
(* src/sim/weather.rs:198-201, 231-238).                                   *)
AreaKeepsItsPoint ==
  \A a \in DOMAIN linked : ForArea(a).point = linked[a]

(* The historical replay has the newest forecasts, in the order they were  *)
(* recorded, however the streams took turns (push_history,                 *)
(* src/weather_server.rs:185-191).                                         *)
HistoryIsNewest ==
  history = SubSeq(log, IF Len(log) > HistoryCap THEN Len(log) - HistoryCap + 1 ELSE 1,
                   Len(log))

(* A log l has the first n forecasts of a client's k-th frame, in their    *)
(* order, and nothing else of that frame.                                  *)
Mine(l, c, k) == {m \in DOMAIN l : l[m].by = c /\ l[m].no = k}
IsRecorded(l, c, k, f, n) ==
  \E place \in [1 .. n -> Mine(l, c, k)] :
    /\ \A i, j \in 1 .. n : i < j => place[i] < place[j]
    /\ \A i \in 1 .. n : l[place[i]] = f[i]
    /\ Mine(l, c, k) = {place[i] : i \in 1 .. n}

(* What a client has received was recorded before it was sent, frame by    *)
(* frame and in the same order, so that a replay of the ring can stand in  *)
(* for the live stream (push_and_emit, src/weather_server.rs:96-120).      *)
Offered(c) == got[c] \o channel[c]
ReceivedWasRecorded ==
  /\ \A c \in Subscriber : \A k \in DOMAIN Offered(c) :
       IsRecorded(log, c, k, Offered(c)[k], Len(Offered(c)[k]))
  /\ \A m, n \in DOMAIN log : m < n /\ log[m].by = log[n].by => log[m].no <= log[n].no

(* A historical call replays, of everything ever recorded, the newest      *)
(* HistoryCap forecasts that were created in its interval: calls for two   *)
(* intervals that meet answer, between them, each of these once            *)
(* (src/weather_server.rs:141-184).                                        *)
ReplaySplits ==
  \A t \in 0 .. MaxTime :
    Cardinality(Historical(0, t - 1)) + Cardinality(Historical(t, MaxTime))
      = IF Len(log) < HistoryCap THEN Len(log) ELSE HistoryCap

(* The registry, whatever was registered in which order; the streams, the  *)
(* ring they share and its replay, whichever of them runs.                 *)
WeatherConsistent ==
  /\ TypeOK /\ OneSlotPerPoint /\ AreaKeepsItsPoint
  /\ HistoryIsNewest /\ ReceivedWasRecorded /\ ReplaySplits

(* The task of a client that has hung up ends, wherever the hang-up finds  *)
(* it: asleep, recording, or waiting for room (src/weather_server.rs:      *)
(* 118-135).                                                               *)
StreamsEnd == \A c \in Subscriber : gone[c] ~> task[c] = "over"

(* src/weather_server.rs:7 of the ring: "Past emissions are kept in a      *)
(* bounded ring buffer".  What a client that hung up was to be sent is     *)
(* kept as well.                                                           *)
OnlyEmissionsAreKept ==
  \A c \in Subscriber : task[c] = "over" =>
    \A i \in DOMAIN history : history[i].by = c => history[i].no < built[c]
=============================================================================
