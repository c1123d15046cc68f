------------------------------ MODULE Listing ------------------------------
(***************************************************************************)
(* ListGridpoolOrders, ListGridpoolTrades and the stream of a gridpool's   *)
(* orders (src/server.rs): a client walks the records page by page, each   *)
(* page a request of its own, while the exchange adds records and changes  *)
(* orders.  The token a page ends with holds the id of its last record.  A *)
(* client that wants to keep up subscribes to the stream before it walks.  *)
(***************************************************************************)
EXTENDS Requests, Sequences, SequencesExt

CONSTANTS
  Requested,        \* page sizes a client asks for
  DefaultPageSize,  \* DEFAULT_PAGE_SIZE, for a request that says 0
  MaxPageSize,      \* MAX_PAGE_SIZE
  Lists,            \* the lists a client may walk: "orders", "trades"
  Filters,          \* per list, the [states, side] a client asks for
  Capacity,         \* ORDER_BROADCAST_CAPACITY
  MaxRecords        \* bound on the records

ASSUME ListingAssumption ==
  /\ Requested \subseteq Nat
  /\ MaxPageSize \in Nat \ {0} /\ DefaultPageSize \in 1 .. MaxPageSize
  /\ Lists \subseteq {"orders", "trades"} /\ MaxRecords \in Nat
  /\ \A l \in Lists : \A f \in Filters[l] :
       f.states \subseteq OrderStates /\ f.side \in Optional(Sides)
  /\ Capacity \in Nat \ {0}

None == 0                    \* no token; ids start at 1
Position == 1 .. MaxRecords

VARIABLES
  list,       \* the list that is walked
  filter,     \* the filter of every request of the walk and of the stream
  records,    \* [id, side, state], in the order they were recorded
  walk,       \* "idle", "walking" or "done"
  token,      \* the page token: [size, last]
  returned,   \* the pages returned, each as positions of records (history)
  steady,     \* records that matched ever since the walk began (history)
  stream,     \* the subscription: [on, queue, lost]; lost: it lagged (history)
  view        \* what the client holds of the orders: state by id

listingVars == <<list, filter, records, walk, token, returned, steady, stream, view>>

Min2(a, b) == IF a < b THEN a ELSE b
NoStream == [on |-> FALSE, queue |-> << >>, lost |-> FALSE]

(* parse_pagination of a first page; a token keeps the size it was cut to. *)
PageSize(sz) == Min2(IF sz = 0 THEN DefaultPageSize ELSE sz, MaxPageSize)

(* The filter as the request carries it: it names nothing else.            *)
Wanted == [states |-> filter.states, side |-> filter.side, delivery_time |-> {},
           area |-> {}, tag |-> {}, ids |-> {}]
Matches(r) ==
  IF list = "orders"
  THEN MatchesOrderFilter([id |-> r.id, order |-> [side |-> r.side],
                           state |-> [state |-> r.state]], Wanted)
  ELSE MatchesTradeFilter(r, Wanted)
Matching == {i \in DOMAIN records : Matches(records[i])}

(* The filtered records past the cursor.  Records have their order by id,  *)
(* and the sort is stable.                                                 *)
Returned == UNION ToSet(returned)
WrongPastCursor(last) ==                 \* an offset for a cursor
  {i \in Matching : Cardinality({j \in Matching : j < i}) >= Cardinality(Returned)}
PastCursor(last) == {i \in Matching : records[i].id > last}

ListingInit ==
  /\ list \in Lists /\ filter \in Filters[list]
  /\ records = << >> /\ walk = "idle" /\ token = [size |-> 0, last |-> None]
  /\ returned = << >> /\ steady = {}
  /\ stream = NoStream /\ view = << >>

-----------------------------------------------------------------------------
(* Every change of an order is published; a full channel loses its oldest. *)
Published(r) ==
  IF ~stream.on THEN stream
  ELSE LET full == Len(stream.queue) = Capacity IN
       [stream EXCEPT !.queue = Append(IF full THEN Tail(@) ELSE @, r),
                      !.lost = @ \/ full]

(* The exchange records an order, or a trade; a gridpool that trades with  *)
(* itself gets both sides of the trade under one id.                       *)
LastId == IF records = << >> THEN None ELSE Last(records).id
NewRecord(side) == [id |-> LastId + 1, side |-> side, state |-> IF list = "orders" THEN 2 ELSE 1]
Record(side) ==
  /\ Len(records) < MaxRecords
  /\ records' = Append(records, NewRecord(side)) /\ stream' = Published(NewRecord(side))
  /\ UNCHANGED <<list, filter, walk, token, returned, steady, view>>
RecordBothSides ==
  /\ list = "trades" /\ Len(records) + 1 < MaxRecords
  /\ records' = records \o <<NewRecord(1), NewRecord(2)>>
  /\ UNCHANGED <<list, filter, walk, token, returned, steady, stream, view>>

(* An order is filled, and what the filter says of it changes.             *)
Change(i) ==
  /\ list = "orders" /\ records[i].state = 2
  /\ LET r == [records[i] EXCEPT !.state = 3] IN
     /\ records' = [records EXCEPT ![i] = r] /\ stream' = Published(r)
     /\ steady' = IF Matches(r) THEN steady ELSE steady \ {i}
  /\ UNCHANGED <<list, filter, walk, token, returned, view>>

-----------------------------------------------------------------------------
(* One request: a page of at most size records past the cursor, and a      *)
(* token as long as more of them follow.                                   *)
Told(rs) ==                              \* the view, once told of these
  LET ids == {r.id : r \in rs} IN
  [n \in ids \cup DOMAIN view |->
     IF n \in ids THEN (CHOOSE r \in rs : r.id = n).state ELSE view[n]]
FirstOf(S, n) == {i \in S : Cardinality({j \in S : j < i}) < n}
Page(size, last) ==
  LET past == PastCursor(last)
      page == FirstOf(past, size)
      more == page # past /\ page # {} IN
  /\ returned' = Append(returned, page)
  /\ token' = IF more THEN [size |-> size, last |-> records[Max(page)].id]
                      ELSE [size |-> 0, last |-> None]
  /\ walk' = IF more THEN "walking" ELSE "done"
  /\ view' = Told({records[i] : i \in page})
  /\ UNCHANGED <<list, filter, records, stream>>

FirstPage(sz) ==
  /\ walk = "idle"
  /\ Page(PageSize(sz), None)
  /\ steady' = Matching

NextPage ==
  /\ walk = "walking"
  /\ Page(token.size, token.last)
  /\ UNCHANGED steady

(* The stream passes on what matches; that it lagged it says nothing of.   *)
Subscribe ==
  /\ list = "orders" /\ walk = "idle" /\ ~stream.on
  /\ stream' = [stream EXCEPT !.on = TRUE]
  /\ UNCHANGED <<list, filter, records, walk, token, returned, steady, view>>

PassOn ==
  /\ stream.queue # << >>
  /\ stream' = [stream EXCEPT !.queue = Tail(@)]
  /\ LET r == Head(stream.queue) IN
     view' = IF Matches(r) THEN Told({r}) ELSE view
  /\ UNCHANGED <<list, filter, records, walk, token, returned, steady>>

(* The client drops what it has and begins again.                          *)
Again ==
  /\ walk = "done"
  /\ walk' = "idle" /\ returned' = << >> /\ steady' = {}
  /\ stream' = NoStream /\ view' = << >>
  /\ UNCHANGED <<list, filter, records, token>>

ListingNext ==
  \/ \E side \in Sides : Record(side)
  \/ RecordBothSides
  \/ \E i \in DOMAIN records : Change(i)
  \/ \E sz \in Requested : FirstPage(sz)
  \/ NextPage \/ Subscribe \/ PassOn \/ Again

ListingSpec == ListingInit /\ [][ListingNext]_listingVars

-----------------------------------------------------------------------------
(* Every variable stays in its type; a token is there while a walk is.     *)
ListingTypeOK ==
  /\ list \in Lists /\ filter \in Filters[list]
  /\ records \in Seq([id: Position, side: Sides, state: OrderStates])
  /\ Len(records) <= MaxRecords
  /\ walk \in {"idle", "walking", "done"}
  /\ token.size \in 0 .. MaxPageSize /\ token.last \in 0 .. MaxRecords
  /\ walk = "walking" <=> token.size > 0
  /\ Returned \subseteq Position /\ steady \subseteq Position
  /\ Len(stream.queue) <= Capacity /\ DOMAIN view \subseteq Position

(* A walk returns no record twice, however orders change while it runs.    *)
ReturnedOnce ==
  \A m, n \in DOMAIN returned : m # n => returned[m] \cap returned[n] = {}

(* A walk that has ended returned every id whose record matched all along. *)
Ids(positions) == {records[i].id : i \in positions}
WalkIsComplete == walk = "done" => Ids(steady) \subseteq Ids(Returned)

(* A client that subscribed before it walked, and has read its stream to   *)
(* the end, holds every order that matches as it is, although a page and   *)
(* the stream may each have told it of the order in either turn            *)
(* (src/server.rs:359-433).  Unless the stream lagged, which it does not   *)
(* say; and what has left a filter on the state the client still holds.    *)
KeptUp == list = "orders" /\ stream.on /\ walk = "done"
            /\ stream.queue = << >> /\ ~stream.lost
Holds(r) == r.id \in DOMAIN view /\ view[r.id] = r.state
ViewIsCurrent ==
  KeptUp =>
    /\ \A i \in Matching : Holds(records[i])
    /\ filter.states = {} => \A i \in DOMAIN records :
                               records[i].id \in DOMAIN view => Holds(records[i])

(* What a walk and a subscription promise, checked together.               *)
ListingConsistent == ListingTypeOK /\ ReturnedOnce /\ WalkIsComplete /\ ViewIsCurrent

(* src/sim/world.rs says of a gridpool's trades: "two per fill, one per    *)
(* side of the match": the trade list shows both of a self trade.          *)
BothSidesListed ==
  walk = "done" => \A i, j \in steady :
     (records[i].id = records[j].id /\ i \in Returned) => j \in Returned

(* What a client holds that has kept up matches its filter: the stream     *)
(* filters an order by the state it has come to, so that one that leaves   *)
(* the filter leaves without a word (src/server.rs:423).                   *)
HeldOrdersMatch == KeptUp => Ids(DOMAIN records \ Matching) \cap DOMAIN view = {}

(* A client that has read its stream to the end has missed nothing; "the   *)
(* stream contract is best-effort" (src/server.rs:428).                    *)
NothingIsMissed ==
  (list = "orders" /\ stream.on /\ walk = "done" /\ stream.queue = << >>)
    => \A i \in Matching : Holds(records[i])
=============================================================================
