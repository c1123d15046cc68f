------------------------------- MODULE Feed -------------------------------
(***************************************************************************)
(* The public feeds: how World publishes (src/sim/world.rs), and how the   *)
(* gRPC streams (src/server.rs) and the UI sockets (src/ui/mod.rs) hand    *)
(* the events on, each from a snapshot or a replay and a broadcast         *)
(* receiver taken under one read lock.                                     *)
(*                                                                         *)
(* An event sets the open quantity of one resting order; 0 takes it off.   *)
(* Events are numbered by their place in the log.  The writer changes the  *)
(* book first and then publishes event by event, all under the write lock; *)
(* receivers drain the broadcast ring whenever they get to run.  Changing  *)
(* an order publishes no event of the book.  The tape of trades has rings  *)
(* of its own, worked the same way: for its clients the log is the tape's, *)
(* an event a trade, and changing an order is a handler like the others.   *)
(***************************************************************************)
EXTENDS Integers, Sequences, FiniteSets, SequencesExt

CONSTANTS
  Order,           \* order ids that appear on the book
  MaxQuantity,     \* largest open quantity
  Client,          \* subscribers
  Subscriptions,   \* what they may subscribe to, and with which filter
  Capacity,        \* TRADE_BROADCAST_CAPACITY
  HistoryCap,      \* HISTORY_CAP
  MaxStamp,        \* bound on the times events carry
  MaxBatch,        \* bound on the events of one handler
  MaxEvents        \* bound on the events published

Subscription ==
  [kind: {"ui_tape", "ui_book", "grpc_live", "grpc_replay"}, filter: SUBSET Order]

ASSUME FeedAssumption ==
  /\ MaxQuantity \in Nat \ {0} /\ Capacity \in Nat \ {0}
  /\ HistoryCap \in Nat \ {0} /\ MaxBatch \in Nat /\ MaxEvents \in Nat
  /\ MaxStamp \in Nat
  /\ IsFiniteSet(Order)
  /\ Subscriptions \subseteq Subscription
  /\ \A s \in Subscriptions : s.kind \in {"ui_tape", "ui_book"} => s.filter = Order

(* An event carries the time of its handler.  Times need not rise along    *)
(* the log: a market maker stamps its quotes before it waits for the lock. *)
Stamp == 1 .. MaxStamp
Event == [order: Order, qty: 0 .. MaxQuantity, time: Stamp]
Empty == [o \in Order |-> 0]

VARIABLES
  book,        \* open quantity of every order on the exchange
  silent,      \* orders that were changed and not announced since
  gated,       \* has the contract's delivery started
  pending,     \* events the writer still has to publish; it holds the lock
  log,         \* every event that has been pushed to the history ring
  sent,        \* how many of them have been sent on the broadcast ring
  sub,         \* what every client subscribes to
  status,      \* of every client: "off", "open" or "closed"
  since,       \* of a replay: its start time, and what it replays of the log
  todo,        \* snapshot or replay records not yet handed to the client
  next,        \* broadcast position of the client's receiver
  view,        \* the book the client builds from what it was handed
  got,         \* numbers of the log events it was handed
  lagged       \* has its receiver been overrun since it connected

vars == <<book, silent, gated, pending, log, sent,
          sub, status, since, todo, next, view, got, lagged>>
clients == <<sub, status, since, todo, next, view, got, lagged>>
exchange == <<book, silent, gated, pending, log, sent>>

Max0(n, k) == IF n > k THEN n - k ELSE 0
After(b, e) == [b EXCEPT ![e.order] = e.qty]

(* A book after events for different orders; the book after the first n of *)
(* a sequence of events, each order as the last of them has left it.       *)
Applied(b, events) ==
  [o \in Order |-> IF \E e \in ToSet(events) : e.order = o
                   THEN (CHOOSE e \in ToSet(events) : e.order = o).qty ELSE b[o]]
Touching(events, n, o) == {i \in 1 .. n : events[i].order = o}
Replayed(events, n) ==
  [o \in Order |-> IF Touching(events, n, o) = {} THEN 0
                   ELSE events[Max(Touching(events, n, o))].qty]
UpTo(n) == Replayed(log, n)
WriteLocked == pending # << >>
FromTheStart == [start |-> 1, first |-> 1, seam |-> 0]

Init ==
  /\ book = Empty /\ silent = {} /\ gated = FALSE
  /\ pending = << >> /\ log = << >> /\ sent = 0
  /\ sub \in [Client -> Subscriptions]
  /\ status = [c \in Client |-> "off"]
  /\ since = [c \in Client |-> FromTheStart]
  /\ todo = [c \in Client |-> << >>] /\ next = [c \in Client |-> 1]
  /\ view = [c \in Client |-> Empty] /\ got = [c \in Client |-> << >>]
  /\ lagged = [c \in Client |-> FALSE]

-----------------------------------------------------------------------------
(* The writer: a handler changes the book and then emits its events, one   *)
(* for the order it rests or takes off and one per maker it fills, each    *)
(* with the handler's time.  An order rests once, and what is open of it   *)
(* then only goes down.                                                    *)
Announces(e) ==
  IF Touching(log, Len(log), e.order) = {} THEN e.qty > 0
                                           ELSE e.qty < book[e.order]
Handle(events) ==
  /\ ~WriteLocked
  /\ Len(log) + Len(events) <= MaxEvents
  /\ \A i \in DOMAIN events : Announces(events[i])
  /\ \A i, j \in DOMAIN events :
       /\ events[i].order = events[j].order => i = j
       /\ events[i].time = events[j].time
  /\ book' = Applied(book, events)
  /\ silent' = silent \ { e.order : e \in ToSet(events) }
  /\ pending' = events
  /\ UNCHANGED <<gated, log, sent, clients>>

(* modify_order: the order is matched again, as it is changed, and what is *)
(* left of it rests again; neither it nor a maker it fills is announced.   *)
Modify(o, b) ==
  /\ ~WriteLocked /\ book[o] > 0
  /\ \A p \in Order \ {o} : b[p] <= book[p]
  /\ book' = b
  /\ silent' = silent \cup {o} \cup { p \in Order : b[p] # book[p] }
  /\ UNCHANGED <<gated, pending, log, sent, clients>>

(* publish_public_book_record: into the history ring ...                   *)
Push ==
  /\ WriteLocked /\ sent = Len(log)
  /\ log' = Append(log, Head(pending))
  /\ UNCHANGED <<book, silent, gated, pending, sent, clients>>

(* ... and then to the receivers.                                          *)
Send ==
  /\ sent < Len(log)
  /\ sent' = sent + 1
  /\ pending' = Tail(pending)
  /\ UNCHANGED <<book, silent, gated, log, clients>>

GateCloses ==
  /\ ~gated /\ gated' = TRUE
  /\ UNCHANGED <<book, silent, pending, log, sent, clients>>

-----------------------------------------------------------------------------
(* The history ring: the last HistoryCap events, with their numbers.       *)
Numbered(i) == [order |-> log[i].order, qty |-> log[i].qty, number |-> i]
FirstKept == Max0(Len(log), HistoryCap) + 1
History == [i \in 1 .. Len(log) - FirstKept + 1 |-> Numbered(FirstKept + i - 1)]

(* snapshot_books: what rests, unless the contract has gated; number 0, as *)
(* these records stand for no single event.                                *)
SnapshotBooks ==
  LET resting == IF gated THEN {} ELSE {o \in Order : book[o] > 0} IN
  SetToSeq({[order |-> o, qty |-> book[o], number |-> 0] : o \in resting})

(* What each handler prepares before it goes live.                         *)
Prepared(c) ==
  CASE sub[c].kind \in {"ui_tape", "grpc_replay"} -> History
    [] sub[c].kind = "ui_book"                    -> SnapshotBooks
    [] OTHER                                      -> << >>

(* Snapshot and subscription under one read lock.                          *)
WrongConnect(c, start) ==                \* beside the lock
  /\ status[c] = "off"
  /\ status' = [status EXCEPT ![c] = "open"]
  /\ since' = IF sub[c].kind # "grpc_replay" THEN since
              ELSE [since EXCEPT ![c] = [start |-> start, first |-> FirstKept,
                                         seam |-> Len(log)]]
  /\ todo' = [todo EXCEPT ![c] = Prepared(c)]
  /\ next' = [next EXCEPT ![c] = sent + 1]
  /\ UNCHANGED <<exchange, sub, view, got, lagged>>
Connect(c, start) ==
  /\ status[c] = "off" /\ ~WriteLocked
  /\ status' = [status EXCEPT ![c] = "open"]
  /\ since' = IF sub[c].kind # "grpc_replay" THEN since
              ELSE [since EXCEPT ![c] = [start |-> start, first |-> FirstKept,
                                         seam |-> Len(log)]]
  /\ todo' = [todo EXCEPT ![c] = Prepared(c)]
  /\ next' = [next EXCEPT ![c] = sent + 1]
  /\ UNCHANGED <<exchange, sub, view, got, lagged>>

(* The records a client asked for: those of its filter, and of what is     *)
(* replayed, those that do not carry an older time than its start time.    *)
Wants(c, rec) ==
  /\ rec.order \in sub[c].filter
  /\ sub[c].kind = "grpc_replay" /\ rec.number <= since[c].seam =>
       log[rec.number].time >= since[c].start

(* One record reaches the client, if it wants it.                          *)
Deliver(c, rec) ==
  IF ~Wants(c, rec) THEN UNCHANGED <<view, got>>
  ELSE /\ view' = [view EXCEPT ![c] = After(@, rec)]
       /\ got' = [got EXCEPT ![c] = IF rec.number = 0 THEN @ ELSE Append(@, rec.number)]

SendPrepared(c) ==
  /\ status[c] = "open" /\ todo[c] # << >>
  /\ Deliver(c, Head(todo[c]))
  /\ todo' = [todo EXCEPT ![c] = Tail(@)]
  /\ UNCHANGED <<exchange, sub, status, since, next, lagged>>

(* The oldest event the broadcast ring still holds.                        *)
Oldest == Max0(sent, Capacity) + 1
Overrun(c) == next[c] < Oldest

WrongReceive(c) ==
  /\ status[c] = "open" /\ todo[c] = << >>
  /\ next[c] < sent /\ ~Overrun(c)
  /\ Deliver(c, Numbered(next[c]))
  /\ next' = [next EXCEPT ![c] = @ + 1]
  /\ UNCHANGED <<exchange, sub, status, since, todo, lagged>>
Receive(c) ==
  /\ status[c] = "open" /\ todo[c] = << >>
  /\ next[c] <= sent /\ ~Overrun(c)
  /\ Deliver(c, Numbered(next[c]))
  /\ next' = [next EXCEPT ![c] = @ + 1]
  /\ UNCHANGED <<exchange, sub, status, since, todo, lagged>>

(* A receiver that was overrun gets Lagged and is moved to the oldest      *)
(* event: the UI sockets close, the gRPC streams carry on.                 *)
Lag(c) ==
  /\ status[c] = "open" /\ todo[c] = << >> /\ Overrun(c)
  /\ lagged' = [lagged EXCEPT ![c] = TRUE]
  /\ next' = [next EXCEPT ![c] = Oldest]
  /\ status' = [status EXCEPT ![c] =
                  IF sub[c].kind \in {"ui_tape", "ui_book"} THEN "closed" ELSE "open"]
  /\ UNCHANGED <<exchange, sub, since, todo, view, got>>

Disconnect(c) ==
  /\ status[c] = "open"
  /\ status' = [status EXCEPT ![c] = "closed"]
  /\ UNCHANGED <<exchange, sub, since, todo, next, view, got, lagged>>

(* The user reloads the page, or the client calls again: a fresh client.   *)
StartOver(c) ==
  /\ status[c] = "closed"
  /\ status' = [status EXCEPT ![c] = "off"] /\ todo' = [todo EXCEPT ![c] = << >>]
  /\ since' = [since EXCEPT ![c] = FromTheStart]
  /\ next' = [next EXCEPT ![c] = 1] /\ view' = [view EXCEPT ![c] = Empty]
  /\ got' = [got EXCEPT ![c] = << >>] /\ lagged' = [lagged EXCEPT ![c] = FALSE]
  /\ UNCHANGED <<exchange, sub>>

Batches == UNION {[1 .. n -> Event] : n \in 1 .. MaxBatch}
StartTimes(c) == IF sub[c].kind = "grpc_replay" THEN Stamp ELSE {1}
ClientStep(c) ==
  \/ \E start \in StartTimes(c) : Connect(c, start)
  \/ SendPrepared(c) \/ Receive(c) \/ Lag(c) \/ Disconnect(c) \/ StartOver(c)

Next ==
  \/ \E events \in Batches : Handle(events)
  \/ \E o \in Order, b \in [Order -> 0 .. MaxQuantity] : Modify(o, b)
  \/ Push \/ Send \/ GateCloses
  \/ \E c \in Client : ClientStep(c)

Spec == Init /\ [][Next]_vars

(* Handlers finish, a stream's task hands on what it holds, and a client   *)
(* that was started connects; whether it is ever started again is up to    *)
(* its user.                                                               *)
FairSpec ==
  /\ Spec /\ WF_vars(Push \/ Send)
  /\ \A c \in Client : /\ WF_vars(SendPrepared(c) \/ Receive(c) \/ Lag(c))
                         /\ SF_vars(\E start \in StartTimes(c) : Connect(c, start))

-----------------------------------------------------------------------------
(* Every variable stays in its type, and the receiver is never ahead.      *)
TypeOK ==
  /\ book \in [Order -> 0 .. MaxQuantity] /\ silent \in SUBSET Order
  /\ gated \in BOOLEAN
  /\ pending \in Seq(Event) /\ log \in Seq(Event) /\ sent \in 0 .. Len(log)
  /\ sub \in [Client -> Subscriptions] /\ status \in [Client -> {"off", "open", "closed"}]
  /\ \A c \in Client : next[c] \in 1 .. sent + 1
  /\ view \in [Client -> [Order -> 0 .. MaxQuantity]]
  /\ lagged \in [Client -> BOOLEAN]

(* No client is handed an event twice or out of order, across the seam     *)
(* from snapshot or replay to the live events and across a lag.  A comment *)
(* of the replay (src/server.rs:568) allows an event that is published     *)
(* meanwhile to come twice; none can, as publishing needs the write lock   *)
(* and history and receiver are taken under one read lock.                 *)
InOrderOnce ==
  \A c \in Client : \A i, j \in DOMAIN got[c] : i < j => got[c][i] < got[c][j]

(* The tape a UI client has is gapless, as long as the socket is open and  *)
(* after: a lag closes the socket instead of skipping.                     *)
TapeHasNoGap ==
  \A c \in Client : sub[c].kind = "ui_tape" =>
    \A i \in 1 .. Len(got[c]) - 1 : got[c][i + 1] = got[c][i] + 1

(* A UI client that has been handed all there is shows the exchange's book *)
(* but for orders that were changed and not announced since; of a gated    *)
(* contract orders can be missing.                                         *)
CaughtUp(c) == todo[c] = << >> /\ next[c] = sent + 1 /\ ~WriteLocked
ShowsExchange(c) ==
  \A o \in Order \ silent : view[c][o] = book[o] \/ (gated /\ view[c][o] = 0)
UiBookMatchesExchange ==
  \A c \in Client : (sub[c].kind = "ui_book" /\ status[c] = "open" /\ CaughtUp(c)) =>
    ShowsExchange(c)

(* A replay that was not overrun is complete: of what the history held at  *)
(* the call and of all that was published since, the client misses nothing *)
(* it asked for.  Its start time keeps out events anywhere in the history, *)
(* as times do not rise along the log, and none of the live ones.          *)
ReplayIsComplete ==
  \A c \in Client :
    (sub[c].kind = "grpc_replay" /\ status[c] # "off" /\ todo[c] = << >> /\ ~lagged[c]) =>
      \A i \in since[c].first .. next[c] - 1 :
        Wants(c, Numbered(i)) => \E j \in DOMAIN got[c] : got[c][j] = i

(* What every client can rely on, whichever service it asked.              *)
FeedConsistent ==
  /\ TypeOK /\ InOrderOnce /\ TapeHasNoGap
  /\ UiBookMatchesExchange /\ ReplayIsComplete

(* A UI book that stays connected catches up with the exchange, as far as  *)
(* what it does not have was announced.                                    *)
UiBookCatchesUp ==
  \A c \in Client : sub[c].kind = "ui_book" =>
    (status[c] = "open" ~>
       (status[c] # "open" \/ (CaughtUp(c) /\ ShowsExchange(c))))

(* README.md says "Tonic's broadcast streams will emit a Lagged(N) if your *)
(* client falls behind": a gRPC client never passes silently over events   *)
(* it asked for; its stream would have to end.                             *)
LagIsSignalled ==
  \A c \in Client :
    (sub[c].kind \in {"grpc_live", "grpc_replay"} /\ status[c] = "open") => ~lagged[c]

(* src/ui/mod.rs says of a lag: "Close the socket so the browser           *)
(* reconnects": a tape closed for a lag is opened again.                   *)
BrowserReconnects ==
  \A c \in Client : sub[c].kind = "ui_tape" =>
    ((status[c] = "closed" /\ lagged[c]) ~> (status[c] = "open" /\ ~lagged[c]))
=============================================================================
