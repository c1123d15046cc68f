---------------------------- MODULE FeedProofs ----------------------------
(***************************************************************************)
(* What a subscriber of Feed can rely on, for any number of orders, clients*)
(* and events, any batches of a handler, any capacity of the broadcast     *)
(* channel and of the history ring.                                        *)
(***************************************************************************)
EXTENDS Feed, FiniteSetTheorems, SequenceTheorems, WellFoundedInduction, TLAPS

-----------------------------------------------------------------------------
(* The inductive invariant.                                                *)

(* No two of these records are of one order.                               *)
Distinct(rs) == \A i, j \in DOMAIN rs : rs[i].order = rs[j].order => i = j

Handout == [order: Order, qty: 0 .. MaxQuantity, number: Nat]
Since == [start: Nat, first: Nat \ {0}, seam: Nat]

FeedTypes ==
  /\ TypeOK
  /\ todo \in [Client -> Seq(Handout)] /\ got \in [Client -> Seq(Nat)]
  /\ next \in [Client -> Nat] /\ since \in [Client -> Since]

(* The book is ahead of what was sent by the events that are pending, but  *)
(* for what was changed in silence; the event that is in the ring and not  *)
(* yet sent is the first of them.                                          *)
WriterInv ==
  /\ Distinct(pending)
  /\ \A o \in Order \ silent : Applied(UpTo(sent), pending)[o] = book[o]
  /\ Len(log) = sent \/ (Len(log) = sent + 1 /\ WriteLocked /\ log[Len(log)] = Head(pending))

(* How far a client that replays has been handed the log.                  *)
Handed(c) == next[c] - 1 - Len(todo[c])

FreshInv(c) ==
  status[c] = "off" =>
    todo[c] = << >> /\ got[c] = << >> /\ ~lagged[c] /\ view[c] = Empty

(* What a client that replays has still to be handed is the log up to the  *)
(* first live event, what it got lies before.                              *)
ReplayInv(c) ==
  sub[c].kind # "ui_book" =>
    /\ Handed(c) \in Nat
    /\ \A i \in DOMAIN todo[c] : todo[c][i] = Numbered(Handed(c) + i)
    /\ \A i \in DOMAIN got[c] : got[c][i] <= Handed(c)

(* An order of which an event is still to reach the client, or ought to.   *)
Awaits(c, o) ==
  \/ o \in silent
  \/ \E i \in DOMAIN pending : pending[i].order = o
  \/ \E i \in next[c] .. Len(log) : log[i].order = o

(* What a client with a snapshot shows once it has been handed the rest of *)
(* it is the book up to the first live event, or nothing of what has gated,*)
(* or something older of an order it will still be told of.                *)
SnapshotInv(c) ==
  sub[c].kind = "ui_book" =>
    /\ \A i \in DOMAIN got[c] : got[c][i] < next[c]
    /\ \A i \in DOMAIN todo[c] : todo[c][i].number = 0
    /\ Distinct(todo[c])
    /\ status[c] = "open" =>
         \A o \in Order : \/ Applied(view[c], todo[c])[o] = UpTo(next[c] - 1)[o]
                          \/ gated /\ Applied(view[c], todo[c])[o] = 0
                          \/ Awaits(c, o)

InOrder(c) == \A i, j \in DOMAIN got[c] : i < j => got[c][i] < got[c][j]

GapInv(c) ==
  sub[c].kind = "ui_tape" =>
    /\ \A i \in 1 .. Len(got[c]) - 1 : got[c][i + 1] = got[c][i] + 1
    /\ status[c] = "open" /\ got[c] # << >> => got[c][Len(got[c])] = Handed(c)

CoverInv(c) ==
  sub[c].kind = "grpc_replay" /\ status[c] # "off" /\ ~lagged[c] =>
    \A i \in since[c].first .. Handed(c) :
      Wants(c, Numbered(i)) => \E j \in DOMAIN got[c] : got[c][j] = i

ClientInv(c) ==
  /\ FreshInv(c) /\ ReplayInv(c) /\ SnapshotInv(c)
  /\ InOrder(c) /\ GapInv(c) /\ CoverInv(c)

FeedInv == FeedTypes /\ WriterInv /\ \A c \in Client : ClientInv(c)

-----------------------------------------------------------------------------
(* Books after events.                                                     *)

(* A sequence that is not empty: its head, and what its tail holds.        *)
LEMMA HeadAndTail ==
  ASSUME NEW E, NEW rs \in Seq(E), rs # << >>
  PROVE  /\ Len(rs) \in Nat \ {0} /\ DOMAIN rs = 1 .. Len(rs)
         /\ Head(rs) = rs[1] /\ Head(rs) \in E /\ Tail(rs) \in Seq(E)
         /\ Len(Tail(rs)) = Len(rs) - 1 /\ DOMAIN Tail(rs) = 1 .. Len(rs) - 1
         /\ \A i \in 1 .. Len(rs) - 1 : Tail(rs)[i] = rs[i + 1]
<1>1. Len(rs) \in Nat /\ DOMAIN rs = 1 .. Len(rs) /\ Len(rs) # 0
  BY EmptySeq, LenProperties
<1>2. /\ Head(rs) = rs[1] /\ Head(rs) \in E /\ Tail(rs) \in Seq(E)
      /\ Len(Tail(rs)) = Len(rs) - 1
      /\ \A i \in 1 .. Len(Tail(rs)) : Tail(rs)[i] = rs[i + 1]
  BY HeadTailProperties, ElementOfSeq, <1>1
<1>3. DOMAIN Tail(rs) = 1 .. Len(rs) - 1
  BY <1>2, LenProperties
<1> QED BY <1>1, <1>2, <1>3

(* What was appended is the last, and the others stay.                     *)
LEMMA Appended ==
  ASSUME NEW E, NEW rs \in Seq(E), NEW e \in E
  PROVE  /\ Append(rs, e) \in Seq(E) /\ Len(Append(rs, e)) = Len(rs) + 1
         /\ Append(rs, e) # << >> /\ DOMAIN Append(rs, e) = 1 .. Len(rs) + 1
         /\ \A i \in 1 .. Len(rs) : Append(rs, e)[i] = rs[i]
         /\ Append(rs, e)[Len(rs) + 1] = e
         /\ Len(rs) \in Nat /\ DOMAIN rs = 1 .. Len(rs)
<1>1. Len(rs) \in Nat /\ DOMAIN rs = 1 .. Len(rs)
  BY LenProperties
<1>2. /\ Append(rs, e) \in Seq(E) /\ Len(Append(rs, e)) = Len(rs) + 1
      /\ \A i \in 1 .. Len(rs) : Append(rs, e)[i] = rs[i]
      /\ Append(rs, e)[Len(rs) + 1] = e
  BY AppendProperties
<1>3. DOMAIN Append(rs, e) = 1 .. Len(rs) + 1
  BY <1>2, LenProperties
<1>4. Append(rs, e) # << >>
  BY <1>1, <1>2
<1> QED BY <1>1, <1>2, <1>3, <1>4

(* Of records of different orders, the one that is of an order is the one  *)
(* that is applied to it.                                                  *)
LEMMA AppliedTo ==
  ASSUME NEW b, NEW E, NEW rs \in Seq(E), Distinct(rs), NEW i \in DOMAIN rs,
         rs[i].order \in Order
  PROVE  Applied(b, rs)[rs[i].order] = rs[i].qty
<1> DEFINE o == rs[i].order  e == CHOOSE e \in ToSet(rs) : e.order = o
<1>1. rs[i] \in ToSet(rs)
  BY DEF ToSet
<1>2. e \in ToSet(rs) /\ e.order = o
  BY <1>1
<1>3. PICK j \in DOMAIN rs : e = rs[j]
  BY <1>2 DEF ToSet
<1>4. j = i
  BY <1>2, <1>3 DEF Distinct
<1> QED BY <1>1, <1>3, <1>4 DEF Applied

(* An order no record is of stays as it was.                               *)
LEMMA NotApplied ==
  ASSUME NEW b, NEW rs, NEW o \in Order, \A i \in DOMAIN rs : rs[i].order # o
  PROVE  Applied(b, rs)[o] = b[o]
BY DEF Applied, ToSet

(* No events leave a book as it is.                                        *)
LEMMA NothingApplied ==
  ASSUME NEW S, NEW b \in [Order -> S]
  PROVE  Applied(b, << >>) = b
<1>1. \A o \in Order : Applied(b, << >>)[o] = b[o]
  BY NotApplied
<1>2. Applied(b, << >>) = [o \in Order |-> b[o]]
  BY <1>1 DEF Applied
<1> QED BY <1>2

(* Applied to a book of some amounts, records of such amounts give one.    *)
LEMMA AppliedType ==
  ASSUME NEW S, NEW b \in [Order -> S], NEW E, NEW rs \in Seq(E), Distinct(rs),
         \A e \in E : e.order \in Order /\ e.qty \in S
  PROVE  Applied(b, rs) \in [Order -> S]
<1>1. Applied(b, rs) = [o \in Order |-> Applied(b, rs)[o]]
  BY DEF Applied
<1>2. ASSUME NEW o \in Order PROVE Applied(b, rs)[o] \in S
  <2>1. CASE \E i \in DOMAIN rs : rs[i].order = o
    <3>1. PICK i \in DOMAIN rs : rs[i].order = o
      BY <2>1
    <3>2. rs[i] \in E
      BY ElementOfSeq, LenProperties
    <3> QED BY <3>1, <3>2, AppliedTo
  <2>2. CASE \A i \in DOMAIN rs : rs[i].order # o
    BY <2>2, NotApplied
  <2> QED BY <2>1, <2>2
<1> QED BY <1>1, <1>2

(* It is the same to apply the first record and then the others.           *)
LEMMA AppliedHead ==
  ASSUME NEW S, NEW b \in [Order -> S], NEW E, NEW rs \in Seq(E), rs # << >>,
         Distinct(rs), \A e \in E : e.order \in Order /\ e.qty \in S
  PROVE  /\ Applied(After(b, Head(rs)), Tail(rs)) = Applied(b, rs)
         /\ After(b, Head(rs)) \in [Order -> S] /\ Distinct(Tail(rs))
<1> DEFINE h == Head(rs)  t == Tail(rs)  a == After(b, h)
<1>1. /\ Len(rs) \in Nat \ {0} /\ DOMAIN rs = 1 .. Len(rs)
      /\ h = rs[1] /\ h \in E /\ t \in Seq(E)
      /\ DOMAIN t = 1 .. Len(rs) - 1
      /\ \A i \in 1 .. Len(rs) - 1 : t[i] = rs[i + 1]
  BY HeadAndTail
<1> HIDE DEF h, t
<1>2. a \in [Order -> S] /\ \A o \in Order : a[o] = IF o = h.order THEN h.qty ELSE b[o]
  BY <1>1 DEF After
<1> HIDE DEF a
<1>3. Distinct(t)
  <2> SUFFICES ASSUME NEW i \in DOMAIN t, NEW j \in DOMAIN t, t[i].order = t[j].order
               PROVE  i = j
    BY DEF Distinct
  <2>1. /\ i + 1 \in DOMAIN rs /\ j + 1 \in DOMAIN rs
        /\ t[i] = rs[i + 1] /\ t[j] = rs[j + 1] /\ i \in Int /\ j \in Int
    BY <1>1
  <2>2. i + 1 = j + 1
    BY <2>1 DEF Distinct
  <2> QED BY <2>1, <2>2
<1>4. ASSUME NEW o \in Order PROVE Applied(a, t)[o] = Applied(b, rs)[o]
  <2>1. CASE \E i \in DOMAIN t : t[i].order = o
    <3>1. PICK i \in DOMAIN t : t[i].order = o
      BY <2>1
    <3>2. i + 1 \in DOMAIN rs /\ rs[i + 1] = t[i]
      BY <1>1
    <3>3. Applied(a, t)[o] = t[i].qty
      <4>1. t \in Seq(E) /\ t[i].order \in Order
        BY <1>1, <3>1
      <4>2. Applied(a, t)[t[i].order] = t[i].qty
        BY <1>3, <4>1, AppliedTo
      <4> QED BY <3>1, <4>2
    <3>4. Applied(b, rs)[o] = t[i].qty
      BY <3>1, <3>2, AppliedTo
    <3> QED BY <3>3, <3>4
  <2>2. CASE (\A i \in DOMAIN t : t[i].order # o) /\ h.order = o
    <3>1. Applied(a, t)[o] = h.qty
      BY <1>2, <2>2, NotApplied
    <3>2. 1 \in DOMAIN rs /\ rs[1].order = o
      BY <1>1, <2>2
    <3>3. Applied(b, rs)[o] = h.qty
      BY <1>1, <3>2, AppliedTo
    <3> QED BY <3>1, <3>3
  <2>3. CASE (\A i \in DOMAIN t : t[i].order # o) /\ h.order # o
    <3>1. Applied(a, t)[o] = b[o]
      BY <1>2, <2>3, NotApplied
    <3>2. \A i \in DOMAIN rs : rs[i].order # o
      <4> TAKE i \in DOMAIN rs
      <4>1. CASE i = 1
        BY <1>1, <2>3, <4>1
      <4>2. CASE i # 1
        <5>1. i - 1 \in DOMAIN t /\ rs[i] = t[i - 1]
          BY <1>1, <4>2
        <5> QED BY <2>3, <5>1
      <4> QED BY <4>1, <4>2
    <3> QED BY <3>1, <3>2, NotApplied
  <2> QED BY <2>1, <2>2, <2>3
<1>5. Applied(a, t) = Applied(b, rs)
  BY <1>4 DEF Applied
<1> QED BY <1>2, <1>3, <1>5 DEF a, h, t

(* A set of positions that is not empty has a greatest.                    *)
LEMMA GreatestIsIn ==
  ASSUME NEW n \in Nat, NEW D \in SUBSET (1 .. n), D # {}
  PROVE  Max(D) \in D /\ \A j \in D : j <= Max(D)
<1> DEFINE H(i) == {k \in D : i < k}
           T == {H(i) : i \in D}
<1>1. IsWellFoundedOn(StrictSubsetOrdering(D), SUBSET D)
  <2>1. IsFiniteSet(D)
    <3>1. IsFiniteSet(1 .. n) BY FS_Interval
    <3> QED BY <3>1, FS_Subset
  <2> QED BY <2>1, FS_StrictSubsetOrderingWellFounded, FS_FiniteSubsetsOfFinite
<1>2. T \subseteq SUBSET D /\ T # {}
  OBVIOUS
<1>3. PICK x \in T : \A y \in T : <<y, x>> \notin StrictSubsetOrdering(D)
  <2> HIDE DEF T
  <2> QED BY <1>1, <1>2, WFMin
<1>4. PICK i \in D : x = H(i)
  OBVIOUS
<1>5. ASSUME NEW j \in D, i < j PROVE FALSE
  <2>1. H(j) \in T /\ H(j) \in SUBSET D /\ H(i) \in SUBSET D
    OBVIOUS
  <2>2. H(j) \subseteq H(i) /\ j \in H(i) /\ j \notin H(j)
    <3>1. i \in Nat /\ j \in Nat /\ \A k \in D : k \in Nat
      OBVIOUS
    <3>2. \A k \in D : j < k => i < k
      BY <1>5, <3>1
    <3>3. ~(j < j)
      BY <3>1
    <3> QED BY <1>5, <3>2, <3>3
  <2> HIDE DEF H, T
  <2> QED BY <1>3, <1>4, <2>1, <2>2 DEF StrictSubsetOrdering
<1>6. \A j \in D : j <= i
  BY <1>5
<1>7. \A y \in D : (\A j \in D : y >= j) => y = i
  BY <1>6
<1>8. Max(D) = i
  BY <1>6, <1>7 DEF Max
<1> QED BY <1>6, <1>8

(* A book that is replayed one event further has that event applied.       *)
LEMMA ReplayedNext ==
  ASSUME NEW events \in Seq(Event), NEW n \in Nat, n < Len(events)
  PROVE  Replayed(events, n + 1) = After(Replayed(events, n), events[n + 1])
<1> DEFINE e == events[n + 1]
<1>1. e \in Event /\ e.order \in Order
  <2>1. n + 1 \in 1 .. Len(events)
    BY LenProperties
  <2>2. e \in Event
    BY <2>1, ElementOfSeq
  <2> QED BY <2>2 DEF Event
<1>2. ASSUME NEW o \in Order, o # e.order
      PROVE  Touching(events, n + 1, o) = Touching(events, n, o)
  BY <1>2 DEF Touching
<1>3. Touching(events, n + 1, e.order) # {} /\ Max(Touching(events, n + 1, e.order)) = n + 1
  <2> DEFINE T == Touching(events, n + 1, e.order)
  <2>1. n + 1 \in T /\ \A i \in T : i \in Nat /\ i <= n + 1
    BY DEF Touching
  <2> HIDE DEF T
  <2>2. \A x \in T : (\A y \in T : x >= y) => x = n + 1
    BY <2>1
  <2>3. \A y \in T : n + 1 >= y
    BY <2>1
  <2> QED BY <2>1, <2>2, <2>3 DEF Max, T
<1>4. \A o \in Order : Replayed(events, n + 1)[o] = After(Replayed(events, n), e)[o]
  BY <1>1, <1>2, <1>3 DEF Replayed, After
<1> QED BY <1>4 DEF Replayed, After

(* What was replayed does not change as events are appended.               *)
LEMMA ReplayedStays ==
  ASSUME NEW events \in Seq(Event), NEW e \in Event, NEW n \in Nat, n <= Len(events)
  PROVE  Replayed(Append(events, e), n) = Replayed(events, n)
<1>1. \A i \in 1 .. n : Append(events, e)[i] = events[i]
  BY Appended
<1>2. \A o \in Order : Touching(Append(events, e), n, o) = Touching(events, n, o)
  BY <1>1 DEF Touching
<1>3. ASSUME NEW o \in Order, Touching(events, n, o) # {}
      PROVE  Append(events, e)[Max(Touching(events, n, o))] = events[Max(Touching(events, n, o))]
  <2> DEFINE T == Touching(events, n, o)
  <2>1. T \in SUBSET (1 .. n) /\ T # {}
    BY <1>3 DEF Touching
  <2>2. Max(T) \in T
    BY <2>1, GreatestIsIn
  <2> QED BY <1>1, <2>1, <2>2
<1> QED BY <1>2, <1>3 DEF Replayed

(* A replayed book is a book.                                              *)
LEMMA ReplayedType ==
  ASSUME NEW events \in Seq(Event), NEW n \in Nat, n <= Len(events)
  PROVE  Replayed(events, n) \in [Order -> 0 .. MaxQuantity]
<1>1. ASSUME NEW o \in Order PROVE Replayed(events, n)[o] \in 0 .. MaxQuantity
  <2> DEFINE T == Touching(events, n, o)
  <2>1. CASE T = {}
    BY <2>1, FeedAssumption DEF Replayed
  <2>2. CASE T # {}
    <3>1. T \in SUBSET (1 .. n)
      BY DEF Touching
    <3>2. Max(T) \in 1 .. n
      BY <2>2, <3>1, GreatestIsIn
    <3>3. events[Max(T)] \in Event
      <4>1. Max(T) \in 1 .. Len(events)
        BY <3>2, LenProperties
      <4> QED BY <4>1, ElementOfSeq
    <3>4. Replayed(events, n)[o] = events[Max(T)].qty
      BY <2>2 DEF Replayed
    <3> QED BY <3>3, <3>4 DEF Event
  <2> QED BY <2>1, <2>2
<1> QED BY <1>1 DEF Replayed

-----------------------------------------------------------------------------
(* The writer.                                                             *)

(* The types, of one client and of the writer, as the steps need them.     *)
LEMMA FeedFacts ==
  ASSUME FeedInv
  PROVE  /\ book \in [Order -> 0 .. MaxQuantity] /\ pending \in Seq(Event)
         /\ log \in Seq(Event) /\ sent \in Nat /\ sent <= Len(log) /\ Len(log) \in Nat
         /\ \A e \in Event : e.order \in Order /\ e.qty \in 0 .. MaxQuantity
         /\ UpTo(sent) \in [Order -> 0 .. MaxQuantity]
<1>1. /\ book \in [Order -> 0 .. MaxQuantity] /\ pending \in Seq(Event)
      /\ log \in Seq(Event) /\ sent \in 0 .. Len(log)
  BY DEF FeedInv, FeedTypes, TypeOK
<1>2. Len(log) \in Nat
  BY <1>1, LenProperties
<1>3. UpTo(sent) \in [Order -> 0 .. MaxQuantity]
  BY <1>1, <1>2, ReplayedType DEF UpTo
<1> QED BY <1>1, <1>2, <1>3 DEF Event

(* What the invariant says of one client, in the form the steps need.    *)
LEMMA ClientFacts ==
  ASSUME FeedInv, NEW c \in Client
  PROVE  /\ next[c] \in Nat \ {0} /\ next[c] <= sent + 1
         /\ todo[c] \in Seq(Handout) /\ got[c] \in Seq(Nat)
         /\ Len(todo[c]) \in Nat /\ DOMAIN todo[c] = 1 .. Len(todo[c])
         /\ Len(got[c]) \in Nat /\ DOMAIN got[c] = 1 .. Len(got[c])
         /\ \A i \in DOMAIN got[c] : got[c][i] \in Nat
         /\ view[c] \in [Order -> 0 .. MaxQuantity]
         /\ sub[c].kind \in {"ui_tape", "ui_book", "grpc_live", "grpc_replay"}
         /\ sub[c].kind \in {"ui_tape", "ui_book"} => sub[c].filter = Order
         /\ since[c] \in Since /\ ClientInv(c)
<1>1. /\ todo[c] \in Seq(Handout) /\ got[c] \in Seq(Nat) /\ next[c] \in 1 .. sent + 1
      /\ since[c] \in Since
      /\ view[c] \in [Order -> 0 .. MaxQuantity] /\ sub[c] \in Subscriptions
      /\ ClientInv(c)
  BY DEF FeedInv, FeedTypes, TypeOK
<1>2. sent \in Nat
  BY FeedFacts
<1>3. next[c] \in Nat \ {0} /\ next[c] <= sent + 1
  BY <1>1, <1>2
<1>4. /\ Len(todo[c]) \in Nat /\ DOMAIN todo[c] = 1 .. Len(todo[c])
      /\ Len(got[c]) \in Nat /\ DOMAIN got[c] = 1 .. Len(got[c])
  BY <1>1, LenProperties
<1>5. \A i \in DOMAIN got[c] : got[c][i] \in Nat
  BY <1>1, <1>4, ElementOfSeq
<1>6. sub[c] \in Subscription /\ (sub[c].kind \in {"ui_tape", "ui_book"} => sub[c].filter = Order)
  BY <1>1, FeedAssumption
<1> QED BY <1>1, <1>3, <1>4, <1>5, <1>6 DEF Subscription

(* The log only grows, at its end.                                         *)
LogGrows == log' = log \/ \E e \in Event : log' = Append(log, e)

(* A log that grows keeps its records, and what they add up to.          *)
LEMMA LogKept ==
  ASSUME FeedInv, LogGrows
  PROVE  /\ log' \in Seq(Event) /\ Len(log) <= Len(log') /\ Len(log') \in Nat
         /\ \A i \in 1 .. Len(log) : log'[i] = log[i]
         /\ \A n \in 0 .. Len(log) : Replayed(log', n) = Replayed(log, n)
<1>1. log \in Seq(Event) /\ Len(log) \in Nat
  BY FeedFacts
<1>2. CASE log' = log
  BY <1>1, <1>2
<1>3. CASE \E e \in Event : log' = Append(log, e)
  <2>1. PICK e \in Event : log' = Append(log, e)
    BY <1>3
  <2>2. /\ log' \in Seq(Event) /\ Len(log') = Len(log) + 1
        /\ \A i \in 1 .. Len(log) : log'[i] = log[i]
    BY <1>1, <2>1, Appended
  <2>3. \A n \in 0 .. Len(log) : Replayed(log', n) = Replayed(log, n)
    <3> TAKE n \in 0 .. Len(log)
    <3>1. n \in Nat /\ n <= Len(log)
      BY <1>1
    <3> QED BY <1>1, <2>1, <3>1, ReplayedStays
  <2> QED BY <1>1, <2>2, <2>3
<1> QED BY <1>2, <1>3 DEF LogGrows

(* A client that is left alone loses nothing as the writer goes on.        *)
LEMMA ClientKept ==
  ASSUME FeedInv, LogGrows, sent' \in Nat, sent <= sent', gated => gated',
         sub' = sub, NEW c \in Client,
         status'[c] = status[c], todo'[c] = todo[c], next'[c] = next[c],
         view'[c] = view[c], got'[c] = got[c], lagged'[c] = lagged[c],
         since'[c] = since[c], \A o \in Order : Awaits(c, o) => Awaits(c, o)'
  PROVE  ClientInv(c)' /\ next'[c] \in 1 .. sent' + 1
<1>1. /\ next[c] \in Nat \ {0} /\ next[c] <= sent + 1 /\ Len(todo[c]) \in Nat
      /\ DOMAIN todo[c] = 1 .. Len(todo[c])
      /\ sent \in Nat /\ sent <= Len(log) /\ Len(log) \in Nat /\ ClientInv(c)
      /\ DOMAIN got[c] = 1 .. Len(got[c]) /\ \A i \in DOMAIN got[c] : got[c][i] \in Nat
  BY FeedFacts, ClientFacts
<1>2. /\ \A i \in 1 .. Len(log) : log'[i] = log[i]
      /\ \A n \in 0 .. Len(log) : Replayed(log', n) = Replayed(log, n)
  BY LogKept
<1>3. Handed(c)' = Handed(c)
  BY DEF Handed
<1>4. \A i \in 1 .. Len(log) : Numbered(i)' = Numbered(i)
  BY <1>2 DEF Numbered
<1>5. FreshInv(c)'
  BY <1>1 DEF ClientInv, FreshInv
<1>6. ReplayInv(c)'
  <2> SUFFICES ASSUME sub[c].kind # "ui_book"
               PROVE  /\ Handed(c) \in Nat
                      /\ \A i \in DOMAIN todo[c] : todo[c][i] = Numbered(Handed(c) + i)'
                      /\ \A i \in DOMAIN got[c] : got[c][i] <= Handed(c)
    BY <1>3 DEF ReplayInv, Numbered
  <2>1. /\ Handed(c) \in Nat
        /\ \A i \in DOMAIN todo[c] : todo[c][i] = Numbered(Handed(c) + i)
        /\ \A i \in DOMAIN got[c] : got[c][i] <= Handed(c)
    BY <1>1 DEF ClientInv, ReplayInv
  <2>2. \A i \in DOMAIN todo[c] : Handed(c) + i \in 1 .. Len(log)
    <3> TAKE i \in DOMAIN todo[c]
    <3>1. i \in Nat /\ 1 <= i /\ i <= Len(todo[c])
      BY <1>1
    <3>2. Handed(c) = next[c] - 1 - Len(todo[c])
      BY DEF Handed
    <3>3. Handed(c) + i <= Len(log) /\ 1 <= Handed(c) + i /\ Handed(c) + i \in Nat
      <4> DEFINE h == Handed(c)  l == Len(todo[c])  n == next[c]  m == Len(log)
      <4>1. /\ h \in Nat /\ l \in Nat /\ n \in Nat /\ m \in Nat /\ sent \in Nat
            /\ h = n - 1 - l /\ n <= sent + 1 /\ sent <= m /\ i <= l
        BY <1>1, <2>1, <3>1, <3>2
      <4> HIDE DEF h, l, n, m
      <4>2. h + i <= m /\ 1 <= h + i /\ h + i \in Nat
        BY <3>1, <4>1
      <4> QED BY <4>2 DEF h, m
    <3> QED BY <1>1, <3>3
  <2>3. \A i \in DOMAIN todo[c] : Numbered(Handed(c) + i)' = Numbered(Handed(c) + i)
    BY <1>2, <1>3, <2>2 DEF Numbered
  <2> QED BY <2>1, <2>3
<1>7. SnapshotInv(c)'
  <2>1. UpTo(next[c] - 1)' = UpTo(next[c] - 1)
    <3>1. next[c] - 1 \in 0 .. Len(log)
      BY <1>1
    <3> QED BY <1>2, <3>1 DEF UpTo
  <2>2. SnapshotInv(c)
    BY <1>1 DEF ClientInv
  <2> HIDE DEF Awaits
  <2> QED BY <2>1, <2>2 DEF SnapshotInv
<1>8. InOrder(c)' /\ GapInv(c)'
  BY <1>1, <1>3 DEF ClientInv, InOrder, GapInv
<1>9. CoverInv(c)'
  <2> SUFFICES ASSUME sub[c].kind = "grpc_replay", status[c] # "off", ~lagged[c],
                      NEW i \in since[c].first .. Handed(c), Wants(c, Numbered(i))'
               PROVE  \E j \in DOMAIN got[c] : got[c][j] = i
    BY <1>3 DEF CoverInv
  <2>1. Handed(c) \in Int /\ Handed(c) <= Len(log)
    <3> DEFINE l == Len(todo[c])  n == next[c]  m == Len(log)
    <3>1. l \in Nat /\ n \in Nat /\ m \in Nat /\ sent \in Nat /\ n <= sent + 1 /\ sent <= m
      BY <1>1
    <3> HIDE DEF l, n, m
    <3>2. n - 1 - l \in Int /\ n - 1 - l <= m
      BY <3>1
    <3> QED BY <3>2 DEF l, n, m, Handed
  <2>2. i \in 1 .. Len(log)
    <3>1. since[c].first \in Nat \ {0}
      BY ClientFacts DEF Since
    <3> QED BY <1>1, <2>1, <3>1
  <2>3. Wants(c, Numbered(i))
    <3>1. /\ Numbered(i)' = Numbered(i) /\ Numbered(i).number = i
          /\ log'[i] = log[i]
      BY <1>2, <1>4, <2>2 DEF Numbered
    <3> QED BY <3>1 DEF Wants
  <2> QED BY <1>1, <2>3 DEF ClientInv, CoverInv
<1>10. next'[c] \in 1 .. sent' + 1
  BY <1>1
<1> QED BY <1>5, <1>6, <1>7, <1>8, <1>9, <1>10 DEF ClientInv

(* A step of the writer that keeps the book and what is pending in line    *)
(* keeps the invariant.                                                    *)
LEMMA WriterStep ==
  ASSUME FeedInv, LogGrows, UNCHANGED clients,
         book' \in [Order -> 0 .. MaxQuantity], pending' \in Seq(Event),
         sent' \in Nat, sent <= sent', sent' <= Len(log'),
         gated' \in BOOLEAN, gated => gated', silent' \in SUBSET Order, WriterInv',
         \A c \in Client : \A o \in Order : Awaits(c, o) => Awaits(c, o)'
  PROVE  FeedInv'
<1>1. log' \in Seq(Event) /\ Len(log') \in Nat
  BY LogKept
<1>2. \A c \in Client : ClientInv(c)' /\ next'[c] \in 1 .. sent' + 1
  <2> TAKE c \in Client
  <2>1. /\ sub' = sub /\ status'[c] = status[c] /\ todo'[c] = todo[c] /\ next'[c] = next[c]
        /\ view'[c] = view[c] /\ got'[c] = got[c] /\ lagged'[c] = lagged[c]
        /\ since'[c] = since[c]
    BY DEF clients
  <2> QED BY <2>1, ClientKept
<1>3. sent' \in 0 .. Len(log')
  BY <1>1
<1>4. FeedTypes'
  <2>1. FeedTypes
    BY DEF FeedInv
  <2> QED BY <1>1, <1>2, <1>3, <2>1 DEF FeedTypes, TypeOK, clients
<1> QED BY <1>2, <1>4 DEF FeedInv

(* The handlers that change the book, and what they then publish.          *)
LEMMA HandleStays ==
  ASSUME FeedInv, NEW events \in Batches, Handle(events)
  PROVE  FeedInv'
<1>1. /\ pending = << >> /\ pending' = events /\ book' = Applied(book, events)
      /\ log' = log /\ sent' = sent /\ gated' = gated /\ UNCHANGED clients
      /\ Distinct(events)
  BY DEF Handle, WriteLocked, Distinct
<1>2. /\ book \in [Order -> 0 .. MaxQuantity] /\ log \in Seq(Event) /\ sent \in Nat
      /\ sent <= Len(log) /\ Len(log) \in Nat
      /\ \A e \in Event : e.order \in Order /\ e.qty \in 0 .. MaxQuantity
      /\ UpTo(sent) \in [Order -> 0 .. MaxQuantity]
  BY FeedFacts
<1>3. WriterInv
  BY DEF FeedInv
<1>4. events \in Seq(Event)
  <2>1. PICK n \in 1 .. MaxBatch : events \in [1 .. n -> Event]
    BY DEF Batches
  <2>2. n \in Nat
    BY FeedAssumption
  <2> QED BY <2>1, <2>2, SeqDef
<1>5. Len(log) = sent
  BY <1>1, <1>3 DEF WriterInv, WriteLocked
<1>6. \A o \in Order \ silent : UpTo(sent)[o] = book[o]
  <2>1. Applied(UpTo(sent), << >>) = UpTo(sent)
    BY <1>2, NothingApplied
  <2> QED BY <1>1, <1>3, <2>1 DEF WriterInv
<1>7. UpTo(sent)' = UpTo(sent) /\ DOMAIN pending = {}
  BY <1>1 DEF UpTo
<1>8. ASSUME NEW o \in Order, o \notin silent'
      PROVE  Applied(UpTo(sent), events)[o] = Applied(book, events)[o]
  <2>1. CASE \E i \in DOMAIN events : events[i].order = o
    BY <2>1, <1>1, <1>4, AppliedTo
  <2>2. CASE \A i \in DOMAIN events : events[i].order # o
    <3>1. o \notin silent
      BY <1>8, <2>2 DEF Handle, ToSet
    <3> QED BY <1>6, <2>2, <3>1, NotApplied
  <2> QED BY <2>1, <2>2
<1>9. WriterInv'
  BY <1>1, <1>5, <1>7, <1>8 DEF WriterInv
<1>10. book' \in [Order -> 0 .. MaxQuantity]
  BY <1>1, <1>2, <1>4, AppliedType
<1>11. gated' \in BOOLEAN /\ silent' \in SUBSET Order
  BY <1>1 DEF FeedInv, FeedTypes, TypeOK, Handle
<1>12. ASSUME NEW c \in Client, NEW o \in Order, Awaits(c, o) PROVE Awaits(c, o)'
  <2>1. o \in silent => o \in silent' \/ \E i \in DOMAIN events : events[i].order = o
    BY DEF Handle, ToSet
  <2>2. next' = next
    BY <1>1 DEF clients
  <2> QED BY <1>1, <1>7, <1>12, <2>1, <2>2 DEF Awaits
<1> QED BY <1>1, <1>2, <1>4, <1>9, <1>10, <1>11, <1>12, WriterStep DEF LogGrows

(* A change of an order moves the book away from what was announced.       *)
LEMMA ModifyStays ==
  ASSUME FeedInv, NEW p \in Order, NEW b \in [Order -> 0 .. MaxQuantity], Modify(p, b)
  PROVE  FeedInv'
<1>1. /\ book' = b /\ pending' = pending /\ log' = log /\ sent' = sent /\ gated' = gated
      /\ silent' = silent \cup {p} \cup {q \in Order : b[q] # book[q]}
      /\ UNCHANGED clients
  BY DEF Modify
<1>2. /\ pending \in Seq(Event) /\ sent \in Nat /\ sent <= Len(log) /\ Len(log) \in Nat
      /\ WriterInv /\ gated \in BOOLEAN /\ silent \in SUBSET Order
  BY FeedFacts DEF FeedInv, FeedTypes, TypeOK
<1>3. WriterInv'
  <2>1. \A o \in Order \ silent' : o \notin silent /\ book'[o] = book[o]
    BY <1>1
  <2>2. UpTo(sent)' = UpTo(sent)
    BY <1>1 DEF UpTo
  <2> QED BY <1>1, <1>2, <2>1, <2>2 DEF WriterInv, WriteLocked
<1>4. silent \subseteq silent' /\ silent' \in SUBSET Order
  BY <1>1, <1>2
<1>5. ASSUME NEW c \in Client, NEW o \in Order, Awaits(c, o) PROVE Awaits(c, o)'
  BY <1>1, <1>4, <1>5 DEF Awaits, clients
<1> QED BY <1>1, <1>2, <1>3, <1>4, <1>5, WriterStep DEF LogGrows

(* The writer keeps its first pending event in the ring.                 *)
LEMMA PushStays ==
  ASSUME FeedInv, Push
  PROVE  FeedInv'
<1>1. /\ pending # << >> /\ sent = Len(log) /\ log' = Append(log, Head(pending))
      /\ book' = book /\ pending' = pending /\ sent' = sent /\ gated' = gated
      /\ silent' = silent /\ UNCHANGED clients
  BY DEF Push, WriteLocked
<1>2. /\ book \in [Order -> 0 .. MaxQuantity] /\ log \in Seq(Event) /\ sent \in Nat
      /\ pending \in Seq(Event) /\ Len(log) \in Nat
  BY FeedFacts
<1>3. Head(pending) \in Event
  BY <1>1, <1>2, HeadAndTail
<1>4. Len(log') = sent + 1 /\ log'[sent + 1] = Head(pending)
  BY <1>1, <1>2, <1>3, Appended
<1>5. LogGrows
  BY <1>1, <1>3 DEF LogGrows
<1>6. UpTo(sent)' = UpTo(sent)
  <2>1. sent \in 0 .. Len(log)
    BY <1>1, <1>2
  <2> QED BY <1>1, <1>5, <2>1, LogKept DEF UpTo
<1>7. WriterInv'
  <2>1. WriterInv
    BY DEF FeedInv
  <2> QED BY <1>1, <1>4, <1>6, <2>1 DEF WriterInv, WriteLocked
<1>8. /\ gated' \in BOOLEAN /\ silent' \in SUBSET Order
      /\ sent <= sent' /\ sent' <= Len(log')
  BY <1>1, <1>2, <1>4 DEF FeedInv, FeedTypes, TypeOK
<1>9. ASSUME NEW c \in Client, NEW o \in Order, Awaits(c, o) PROVE Awaits(c, o)'
  <2>1. ASSUME NEW i \in next[c] .. Len(log), log[i].order = o
        PROVE  i \in next[c] .. Len(log') /\ log'[i].order = o
    <3>1. next[c] \in Nat \ {0}
      BY ClientFacts
    <3>2. i \in 1 .. Len(log) /\ i \in next[c] .. Len(log')
      BY <1>1, <1>2, <1>4, <3>1
    <3>3. log'[i] = log[i]
      BY <1>5, <3>2, LogKept
    <3> QED BY <2>1, <3>2, <3>3
  <2>2. next' = next
    BY <1>1 DEF clients
  <2> QED BY <1>1, <1>9, <2>1, <2>2 DEF Awaits
<1> QED BY <1>1, <1>2, <1>5, <1>7, <1>8, <1>9, WriterStep

(* The writer sends it: no client has been handed it yet.                *)
LEMMA SendStays ==
  ASSUME FeedInv, Send
  PROVE  FeedInv'
<1>1. /\ sent < Len(log) /\ sent' = sent + 1 /\ pending' = Tail(pending)
      /\ book' = book /\ log' = log /\ gated' = gated /\ silent' = silent
      /\ UNCHANGED clients
  BY DEF Send
<1>2. /\ book \in [Order -> 0 .. MaxQuantity] /\ log \in Seq(Event) /\ sent \in Nat
      /\ pending \in Seq(Event) /\ Len(log) \in Nat
      /\ \A e \in Event : e.order \in Order /\ e.qty \in 0 .. MaxQuantity
      /\ UpTo(sent) \in [Order -> 0 .. MaxQuantity]
  BY FeedFacts
<1>3. /\ Distinct(pending) /\ pending # << >>
      /\ \A o \in Order \ silent : Applied(UpTo(sent), pending)[o] = book[o]
      /\ Len(log) = sent + 1 /\ log[sent + 1] = Head(pending)
  BY <1>1, <1>2 DEF FeedInv, WriterInv, WriteLocked
<1>4. UpTo(sent)' = After(UpTo(sent), Head(pending))
  <2>1. Replayed(log, sent + 1) = After(Replayed(log, sent), log[sent + 1])
    BY <1>1, <1>2, ReplayedNext
  <2> QED BY <1>1, <1>3, <2>1 DEF UpTo
<1>5. /\ Applied(After(UpTo(sent), Head(pending)), Tail(pending)) =
           Applied(UpTo(sent), pending)
      /\ Distinct(Tail(pending)) /\ Tail(pending) \in Seq(Event)
  <2>1. Tail(pending) \in Seq(Event)
    BY <1>2, <1>3, HeadAndTail
  <2>2. /\ Applied(After(UpTo(sent), Head(pending)), Tail(pending)) = Applied(UpTo(sent), pending)
        /\ Distinct(Tail(pending))
    <3> DEFINE S == 0 .. MaxQuantity  b == UpTo(sent)  p == pending  E == Event
    <3>1. /\ b \in [Order -> S] /\ \A e \in E : e.order \in Order /\ e.qty \in S
          /\ p \in Seq(E) /\ p # << >> /\ Distinct(p)
      BY <1>2, <1>3
    <3> HIDE DEF S, b, p, E
    <3>2. /\ Applied(After(b, Head(p)), Tail(p)) = Applied(b, p)
          /\ After(b, Head(p)) \in [Order -> S] /\ Distinct(Tail(p))
      BY <3>1, AppliedHead
    <3> QED BY <3>2 DEF b, p
  <2> QED BY <2>1, <2>2
<1>6. WriterInv'
  BY <1>1, <1>3, <1>4, <1>5 DEF WriterInv
<1>7. /\ gated' \in BOOLEAN /\ silent' \in SUBSET Order
      /\ sent' \in Nat /\ sent <= sent' /\ sent' <= Len(log')
  BY <1>1, <1>2, <1>3 DEF FeedInv, FeedTypes, TypeOK
<1>8. ASSUME NEW c \in Client, NEW o \in Order, Awaits(c, o) PROVE Awaits(c, o)'
  <2>1. /\ DOMAIN pending = 1 .. Len(pending) /\ Len(pending) \in Nat
        /\ Head(pending) = pending[1] /\ DOMAIN Tail(pending) = 1 .. Len(pending) - 1
        /\ \A i \in 1 .. Len(pending) - 1 : Tail(pending)[i] = pending[i + 1]
    BY <1>2, <1>3, HeadAndTail
  <2>2. ASSUME NEW i \in DOMAIN pending, pending[i].order = o
        PROVE  Awaits(c, o)'
    <3>1. CASE i = 1
      <4>1. next[c] \in Nat /\ next[c] <= sent + 1
        BY ClientFacts
      <4>2. Len(log) \in next[c] .. Len(log) /\ log[Len(log)].order = o
        BY <1>2, <1>3, <2>1, <2>2, <3>1, <4>1
      <4> QED BY <1>1, <4>2 DEF Awaits, clients
    <3>2. CASE i # 1
      <4>1. i - 1 \in DOMAIN Tail(pending) /\ Tail(pending)[i - 1] = pending[i]
        BY <2>1, <3>2
      <4> QED BY <1>1, <2>2, <4>1 DEF Awaits
    <3> QED BY <3>1, <3>2
  <2>3. next' = next
    BY <1>1 DEF clients
  <2> QED BY <1>1, <1>8, <2>2, <2>3 DEF Awaits
<1> QED BY <1>1, <1>2, <1>5, <1>6, <1>7, <1>8, WriterStep DEF LogGrows

(* Delivery starts: the books of the contract are shown empty from then on.*)
LEMMA GateStays ==
  ASSUME FeedInv, GateCloses
  PROVE  FeedInv'
<1>1. /\ gated' = TRUE /\ book' = book /\ pending' = pending /\ log' = log /\ sent' = sent
      /\ silent' = silent /\ UNCHANGED clients
  BY DEF GateCloses
<1>2. /\ book \in [Order -> 0 .. MaxQuantity] /\ log \in Seq(Event) /\ sent \in Nat
      /\ pending \in Seq(Event) /\ Len(log) \in Nat /\ sent <= Len(log)
  BY FeedFacts
<1>3. WriterInv' /\ silent' \in SUBSET Order
  BY <1>1 DEF FeedInv, FeedTypes, TypeOK, WriterInv, UpTo, WriteLocked
<1>4. \A c \in Client : \A o \in Order : Awaits(c, o) => Awaits(c, o)'
  BY <1>1 DEF Awaits, clients
<1> QED BY <1>1, <1>2, <1>3, <1>4, WriterStep DEF LogGrows

-----------------------------------------------------------------------------
(* The clients.                                                            *)

(* A step of one client leaves the others alone.                           *)
Alone(c) ==
  /\ UNCHANGED <<exchange, sub>>
  /\ \A d \in Client \ {c} :
       /\ status'[d] = status[d] /\ todo'[d] = todo[d] /\ next'[d] = next[d]
       /\ view'[d] = view[d] /\ got'[d] = got[d] /\ lagged'[d] = lagged[d]
       /\ since'[d] = since[d]

ClientTypes ==
  /\ status' \in [Client -> {"off", "open", "closed"}]
  /\ todo' \in [Client -> Seq(Handout)] /\ got' \in [Client -> Seq(Nat)]
  /\ next' \in [Client -> Nat] /\ view' \in [Client -> [Order -> 0 .. MaxQuantity]]
  /\ lagged' \in [Client -> BOOLEAN] /\ since' \in [Client -> Since]

(* A step of one client disturbs nothing but that client.                *)
LEMMA OneClientSteps ==
  ASSUME FeedInv, NEW c \in Client, Alone(c), ClientTypes, next'[c] \in 1 .. sent + 1,
         ClientInv(c)'
  PROVE  FeedInv'
<1>1. /\ book' = book /\ gated' = gated /\ pending' = pending /\ log' = log /\ sent' = sent
      /\ silent' = silent /\ sub' = sub
  BY DEF Alone, exchange
<1>2. sent \in Nat /\ LogGrows
  BY <1>1, FeedFacts DEF LogGrows
<1>3. \A d \in Client : ClientInv(d)' /\ next'[d] \in 1 .. sent + 1
  <2> TAKE d \in Client
  <2>1. CASE d = c
    BY <2>1
  <2>2. CASE d # c
    <3>1. /\ status'[d] = status[d] /\ todo'[d] = todo[d] /\ next'[d] = next[d]
          /\ view'[d] = view[d] /\ got'[d] = got[d] /\ lagged'[d] = lagged[d]
          /\ since'[d] = since[d]
      BY <2>2 DEF Alone
    <3>2. \A o \in Order : Awaits(d, o) => Awaits(d, o)'
      BY <1>1, <3>1 DEF Awaits
    <3> QED BY <1>1, <1>2, <3>1, <3>2, ClientKept
  <2> QED BY <2>1, <2>2
<1>4. FeedTypes'
  BY <1>1, <1>3 DEF FeedInv, FeedTypes, TypeOK, ClientTypes
<1>5. WriterInv'
  BY <1>1 DEF FeedInv, WriterInv, UpTo, WriteLocked
<1> QED BY <1>3, <1>4, <1>5 DEF FeedInv

(* A client that follows the log is handed its next event.                 *)
LEMMA HandedOn ==
  ASSUME FeedInv, NEW c \in Client, sub[c].kind # "ui_book", status[c] = "open",
         log' = log, sub' = sub, status'[c] = status[c], lagged'[c] = lagged[c],
         since'[c] = since[c],
         Handed(c)' = Handed(c) + 1, Handed(c) + 1 \in 1 .. Len(log),
         got'[c] = IF Wants(c, Numbered(Handed(c) + 1)) THEN Append(got[c], Handed(c) + 1)
                   ELSE got[c]
  PROVE  /\ \A i \in DOMAIN got'[c] : got'[c][i] <= Handed(c) + 1
         /\ InOrder(c)' /\ GapInv(c)' /\ CoverInv(c)' /\ got'[c] \in Seq(Nat)
<1> DEFINE g == got[c]  h == Handed(c)  n == Len(got[c])  k == got'[c]
           f == since[c].first
<1>1. /\ g \in Seq(Nat) /\ n \in Nat /\ DOMAIN g = 1 .. n
      /\ \A i \in 1 .. n : g[i] \in Nat /\ g[i] <= h
      /\ h \in Nat /\ f \in Nat
  BY ClientFacts DEF ClientInv, ReplayInv, Since
<1>2. /\ \A i, j \in 1 .. n : i < j => g[i] < g[j]
      /\ sub[c].kind = "ui_tape" =>
           /\ \A i \in 1 .. n - 1 : g[i + 1] = g[i] + 1
           /\ n # 0 => g[n] = h
      /\ sub[c].kind = "grpc_replay" /\ ~lagged[c] =>
           \A i \in f .. h : Wants(c, Numbered(i)) => \E j \in 1 .. n : g[j] = i
  <2>1. ClientInv(c) /\ DOMAIN g = 1 .. n /\ (n # 0 => g # << >>)
    BY <1>1, ClientFacts, EmptySeq
  <2> QED BY <2>1 DEF ClientInv, InOrder, GapInv, CoverInv
<1>3. sub[c].kind = "ui_tape" => Wants(c, Numbered(h + 1))
  <2>1. log[h + 1] \in Event
    BY FeedFacts, ElementOfSeq
  <2>2. Numbered(h + 1).order \in Order
    BY <2>1 DEF Numbered, Event
  <2> QED BY <2>2, ClientFacts DEF Wants
<1>4. \A i : Wants(c, Numbered(i))' <=> Wants(c, Numbered(i))
  BY DEF Wants, Numbered
<1>5. CASE Wants(c, Numbered(h + 1))
  <2>1. h + 1 \in Nat /\ k = Append(g, h + 1)
    BY <1>1, <1>5
  <2>2. /\ k \in Seq(Nat) /\ Len(k) = n + 1 /\ DOMAIN k = 1 .. n + 1 /\ k # << >>
        /\ \A i \in 1 .. n : k[i] = g[i]
        /\ k[n + 1] = h + 1
    <3>1. n = Len(g) /\ g \in Seq(Nat)
      BY <1>1
    <3> HIDE DEF g, h, n, k
    <3> QED BY <2>1, <3>1, Appended
  <2> HIDE DEF g, h, n, k, f
  <2>3. \A i \in 1 .. n + 1 : k[i] <= h + 1
    BY <1>1, <2>2
  <2>4. \A i, j \in 1 .. n + 1 : i < j => k[i] < k[j]
    <3> SUFFICES ASSUME NEW i \in 1 .. n + 1, NEW j \in 1 .. n + 1, i < j
                 PROVE  k[i] < k[j]
      OBVIOUS
    <3>1. CASE j = n + 1
      <4>1. i \in 1 .. n
        BY <1>1, <3>1
      <4>2. k[i] = g[i] /\ g[i] \in Nat /\ g[i] <= h
        BY <1>1, <2>2, <4>1
      <4> QED BY <1>1, <2>2, <3>1, <4>2
    <3>2. CASE j # n + 1
      <4>1. i \in 1 .. n /\ j \in 1 .. n
        BY <1>1, <3>2
      <4> QED BY <1>2, <2>2, <4>1
    <3> QED BY <3>1, <3>2
  <2>5. sub[c].kind = "ui_tape" => \A i \in 1 .. n : k[i + 1] = k[i] + 1
    <3> SUFFICES ASSUME sub[c].kind = "ui_tape", NEW i \in 1 .. n PROVE k[i + 1] = k[i] + 1
      OBVIOUS
    <3>1. CASE i = n
      BY <1>1, <1>2, <2>2, <3>1
    <3>2. CASE i # n
      <4>1. i \in 1 .. n - 1 /\ i + 1 \in 1 .. n
        BY <1>1, <3>2
      <4> QED BY <1>2, <2>2, <4>1
    <3> QED BY <3>1, <3>2
  <2>6. sub[c].kind = "grpc_replay" /\ ~lagged[c] =>
          \A i \in f .. h + 1 : Wants(c, Numbered(i)) => \E j \in 1 .. n + 1 : k[j] = i
    <3> SUFFICES ASSUME sub[c].kind = "grpc_replay", ~lagged[c], NEW i \in f .. h + 1,
                        Wants(c, Numbered(i))
                 PROVE  \E j \in 1 .. n + 1 : k[j] = i
      OBVIOUS
    <3>1. CASE i = h + 1
      BY <1>1, <2>2, <3>1
    <3>2. CASE i # h + 1
      <4>1. i \in f .. h
        BY <1>1, <3>2
      <4>2. PICK j \in 1 .. n : g[j] = i
        BY <1>2, <4>1
      <4>3. j \in 1 .. n + 1 /\ k[j] = i
        BY <1>1, <2>2, <4>2
      <4> QED BY <4>3
    <3> QED BY <3>1, <3>2
  <2>7. n + 1 - 1 = n
    BY <1>1
  <2>8. InOrder(c)'
    BY <2>2, <2>4 DEF InOrder, k
  <2>9. GapInv(c)'
    <3>1. Len(k) - 1 = n /\ k[Len(k)] = h + 1
      BY <1>1, <2>2
    <3>2. \A i \in 1 .. Len(k) - 1 : sub[c].kind = "ui_tape" => k[i + 1] = k[i] + 1
      BY <2>5, <3>1
    <3> QED BY <3>1, <3>2 DEF GapInv, k, h
  <2>10. CoverInv(c)'
    <3>1. since'[c].first = f /\ Handed(c)' = h + 1 /\ DOMAIN got'[c] = 1 .. n + 1
      BY <2>2 DEF k, h, f
    <3> SUFFICES ASSUME sub[c].kind = "grpc_replay", ~lagged[c],
                        NEW i \in since'[c].first .. Handed(c)', Wants(c, Numbered(i))'
                 PROVE  \E j \in DOMAIN got'[c] : got'[c][j] = i
      BY DEF CoverInv
    <3>2. i \in f .. h + 1 /\ Wants(c, Numbered(i))
      <4>1. Wants(c, Numbered(i))
        BY DEF Wants, Numbered
      <4> HIDE DEF Wants
      <4> QED BY <3>1, <4>1
    <3>3. PICK j \in 1 .. n + 1 : k[j] = i
      BY <2>6, <3>2
    <3> QED BY <3>1, <3>3 DEF k
  <2> QED BY <2>2, <2>3, <2>8, <2>9, <2>10 DEF k, h
<1>6. CASE ~Wants(c, Numbered(h + 1))
  <2>1. k = g /\ sub[c].kind # "ui_tape"
    BY <1>3, <1>6
  <2>2. \A i \in DOMAIN k : k[i] <= h + 1
    <3> HIDE DEF g, h, n, k, f
    <3>1. \A i \in 1 .. n : g[i] <= h + 1
      BY <1>1
    <3> QED BY <1>1, <2>1, <3>1
  <2>3. InOrder(c)' /\ GapInv(c)'
    <3>1. InOrder(c)
      BY ClientFacts DEF ClientInv
    <3> QED BY <2>1, <3>1 DEF InOrder, GapInv
  <2>4. CoverInv(c)'
    <3>1. since'[c].first = f /\ Handed(c)' = h + 1 /\ got'[c] = g
      BY <2>1
    <3> SUFFICES ASSUME sub[c].kind = "grpc_replay", ~lagged[c],
                        NEW i \in since'[c].first .. Handed(c)', Wants(c, Numbered(i))'
                 PROVE  \E j \in DOMAIN got'[c] : got'[c][j] = i
      BY DEF CoverInv
    <3>2. Wants(c, Numbered(i))
      BY DEF Wants, Numbered
    <3>3. i # h + 1
      BY <1>6, <3>2
    <3>4. i \in f .. h
      <4> HIDE DEF h, g, n, f
      <4> QED BY <1>1, <3>1, <3>3
    <3>5. \E j \in 1 .. n : g[j] = i
      <4> HIDE DEF Wants, h, g, n, f
      <4> QED BY <1>2, <3>2, <3>4
    <3> HIDE DEF h, g, n, f
    <3> QED BY <1>1, <3>1, <3>5
  <2> QED BY <1>1, <2>1, <2>2, <2>3, <2>4
<1> QED BY <1>5, <1>6

(* A snapshot has a record of each order that rests, and no other; whoever *)
(* applies it to nothing shows the book, or nothing once it has gated.     *)
LEMMA SnapshotIsBook ==
  ASSUME FeedInv
  PROVE  /\ SnapshotBooks \in Seq(Handout) /\ Distinct(SnapshotBooks)
         /\ \A i \in DOMAIN SnapshotBooks : SnapshotBooks[i].number = 0
         /\ \A o \in Order : Applied(Empty, SnapshotBooks)[o] = IF gated THEN 0 ELSE book[o]
<1> DEFINE R == IF gated THEN {} ELSE {o \in Order : book[o] > 0}
           Rec(o) == [order |-> o, qty |-> book[o], number |-> 0]
           S == {Rec(o) : o \in R}
           f == SetToSeq(S)
<1>1. book \in [Order -> 0 .. MaxQuantity] /\ R \subseteq Order /\ gated \in BOOLEAN
  BY FeedFacts DEF FeedInv, FeedTypes, TypeOK
<1>2. S \subseteq Handout
  <2> SUFFICES ASSUME NEW o \in R PROVE Rec(o) \in Handout
    OBVIOUS
  <2>1. o \in Order /\ book[o] \in 0 .. MaxQuantity
    BY <1>1
  <2> QED BY <2>1 DEF Handout
<1>3. \A x \in S : x.order \in R /\ x = Rec(x.order)
  OBVIOUS
<1>4. IsFiniteSet(S)
  <2> DEFINE h == [x \in S |-> x.order]
  <2>1. IsFiniteSet(Order)
    BY FeedAssumption
  <2>2. h \in Injection(S, Order)
    <3>1. \A x, y \in S : x.order = y.order => x = y
      BY <1>3
    <3>2. h \in [S -> Order]
      BY <1>1, <1>3
    <3> QED BY <3>1, <3>2 DEF Injection, IsInjective
  <2> HIDE DEF h, S
  <2> QED BY <2>1, <2>2, FS_Injection
<1>5. Cardinality(S) \in Nat /\ ExistsBijection(1 .. Cardinality(S), S)
  <2> HIDE DEF S
  <2> QED BY <1>4, FS_CardinalityType
<1>6. f \in [1 .. Cardinality(S) -> S] /\ IsInjective(f)
  <2> HIDE DEF S
  <2>1. \E g \in [1 .. Cardinality(S) -> S] : IsInjective(g)
    BY <1>5 DEF ExistsBijection, Bijection, Injection
  <2> QED BY <2>1 DEF SetToSeq
<1>7. \A x \in S : \E i \in 1 .. Cardinality(S) : f[i] = x
  <2> HIDE DEF S, f
  <2>1. f \in Injection(1 .. Cardinality(S), S)
    BY <1>6 DEF Injection
  <2>2. Cardinality(1 .. Cardinality(S)) = Cardinality(S)
    <3>1. 1 \in Nat /\ Cardinality(S) \in Nat
      BY <1>5
    <3> QED BY <3>1, FS_Interval
  <2>3. f \in Surjection(1 .. Cardinality(S), S)
    BY <1>4, <2>1, <2>2, FS_Injection
  <2> QED BY <2>3 DEF Surjection
<1>8. f = SnapshotBooks
  BY DEF SnapshotBooks
<1> DEFINE n == Cardinality(S)
<1>9. DOMAIN f = 1 .. n /\ \A i \in 1 .. n : f[i] \in S
  BY <1>6
<1>10. f \in Seq(Handout)
  <2>1. f \in [1 .. n -> Handout]
    <3> HIDE DEF S, f
    <3> QED BY <1>2, <1>6
  <2> HIDE DEF f, S
  <2> QED BY <1>5, <2>1, SeqDef
<1>11. Distinct(f)
  <2> SUFFICES ASSUME NEW i \in 1 .. n, NEW j \in 1 .. n, f[i].order = f[j].order
               PROVE  i = j
    BY <1>9 DEF Distinct
  <2>1. f[i] = f[j]
    <3> HIDE DEF f, S
    <3>1. f[i] \in S /\ f[j] \in S
      BY <1>9
    <3>2. f[i] = Rec(f[i].order) /\ f[j] = Rec(f[j].order)
      BY <1>3, <3>1
    <3> HIDE DEF Rec
    <3> QED BY <3>2
  <2> QED BY <1>9, <2>1, <1>6 DEF IsInjective
<1>12. \A i \in DOMAIN f : f[i].number = 0
  <2> HIDE DEF f, S
  <2>1. \A i \in DOMAIN f : f[i] \in S
    BY <1>9
  <2>2. \A x \in S : x.number = 0
    BY DEF S
  <2> QED BY <2>1, <2>2
<1>13. ASSUME NEW o \in Order
       PROVE  Applied(Empty, f)[o] = IF gated THEN 0 ELSE book[o]
  <2>1. CASE o \in R
    <3>1. Rec(o) \in S
      BY <2>1
    <3>2. PICK i \in 1 .. n : f[i] = Rec(o)
      BY <1>7, <3>1
    <3>3. f[i].order = o /\ f[i].qty = book[o] /\ i \in DOMAIN f
      BY <1>9, <3>2
    <3>4. Applied(Empty, f)[o] = book[o]
      <4> HIDE DEF f, S, Rec, R
      <4> QED BY <1>10, <1>11, <3>3, AppliedTo
    <3> QED BY <2>1, <3>4
  <2>2. CASE o \notin R
    <3>1. \A i \in DOMAIN f : f[i].order # o
      <4> HIDE DEF f, S
      <4> QED BY <1>3, <1>9, <2>2
    <3>2. Applied(Empty, f)[o] = Empty[o]
      BY <3>1, NotApplied
    <3>3. gated \/ book[o] = 0
      <4>1. book[o] \in 0 .. MaxQuantity
        BY <1>1
      <4> QED BY <2>2, <4>1, FeedAssumption
    <3> QED BY <3>2, <3>3 DEF Empty
  <2> QED BY <2>1, <2>2
<1> HIDE DEF f, S, R
<1> QED BY <1>8, <1>10, <1>11, <1>12, <1>13

(* What a tape or a replay takes of the log: the history ring.             *)
LEMMA HistoryIsLog ==
  ASSUME FeedInv
  PROVE  /\ FirstKept \in 1 .. Len(log) + 1
         /\ History \in Seq(Handout)
         /\ Len(History) = Len(log) - FirstKept + 1
         /\ DOMAIN History = 1 .. Len(log) - FirstKept + 1
         /\ \A i \in 1 .. Len(log) - FirstKept + 1 : History[i] = Numbered(FirstKept - 1 + i)
<1> DEFINE first == FirstKept  n == Len(log) - first + 1  f == History
<1>1. /\ log \in Seq(Event) /\ Len(log) \in Nat
      /\ first \in 1 .. Len(log) + 1 /\ first \in Nat /\ n \in Nat
  <2>1. log \in Seq(Event) /\ Len(log) \in Nat
    BY FeedFacts
  <2>2. first \in 1 .. Len(log) + 1
    BY <2>1, FeedAssumption DEF FirstKept, Max0
  <2> HIDE DEF first
  <2> QED BY <2>1, <2>2
<1>2. f = [i \in 1 .. n |-> Numbered(first + i - 1)]
  BY DEF History
<1> HIDE DEF first
<1>3. \A i \in 1 .. n : /\ first + i - 1 = first - 1 + i
                        /\ first - 1 + i \in 1 .. Len(log) /\ first - 1 + i \in Nat
  BY <1>1
<1>4. \A i \in 1 .. n : Numbered(first + i - 1) = Numbered(first - 1 + i)
  BY <1>3
<1>5. \A j \in 1 .. Len(log) : Numbered(j) \in Handout
  <2> TAKE j \in 1 .. Len(log)
  <2>1. log[j] \in Event /\ j \in Nat
    BY <1>1, ElementOfSeq
  <2> QED BY <2>1 DEF Numbered, Event, Handout
<1> HIDE DEF n, f
<1>6. f \in [1 .. n -> Handout]
  BY <1>2, <1>3, <1>4, <1>5
<1>7. f \in Seq(Handout) /\ DOMAIN f = 1 .. n
  BY <1>1, <1>6, SeqDef
<1>8. Len(f) = n
  BY <1>1, <1>7, LenProperties
<1>9. \A i \in 1 .. n : f[i] = Numbered(first - 1 + i)
  BY <1>2, <1>4
<1> QED BY <1>1, <1>7, <1>8, <1>9 DEF f, n, first

(* A client connects: history or snapshot and live events are cut at one   *)
(* point, since no writer holds the lock.                                  *)
LEMMA ConnectStays ==
  ASSUME FeedInv, NEW c \in Client, NEW start \in StartTimes(c), Connect(c, start)
  PROVE  FeedInv'
<1> DEFINE P == Prepared(c)
<1>1. /\ status[c] = "off" /\ pending = << >>
      /\ status' = [status EXCEPT ![c] = "open"] /\ todo' = [todo EXCEPT ![c] = P]
      /\ next' = [next EXCEPT ![c] = sent + 1]
      /\ book' = book /\ gated' = gated /\ pending' = pending /\ log' = log /\ sent' = sent
      /\ silent' = silent /\ sub' = sub /\ view' = view /\ got' = got /\ lagged' = lagged
      /\ since' = IF sub[c].kind # "grpc_replay" THEN since
                  ELSE [since EXCEPT ![c] = [start |-> start, first |-> FirstKept,
                                             seam |-> Len(log)]]
  BY DEF Connect, WriteLocked, exchange
<1>2. /\ status \in [Client -> {"off", "open", "closed"}]
      /\ todo \in [Client -> Seq(Handout)] /\ got \in [Client -> Seq(Nat)]
      /\ next \in [Client -> Nat] /\ view \in [Client -> [Order -> 0 .. MaxQuantity]]
      /\ lagged \in [Client -> BOOLEAN] /\ since \in [Client -> Since]
  BY DEF FeedInv, FeedTypes, TypeOK
<1>3. /\ sent \in Nat /\ Len(log) = sent
      /\ \A o \in Order \ silent : UpTo(sent)[o] = book[o]
  <2>1. sent \in Nat /\ WriterInv /\ UpTo(sent) \in [Order -> 0 .. MaxQuantity]
    BY FeedFacts DEF FeedInv
  <2>2. Applied(UpTo(sent), << >>) = UpTo(sent)
    BY <2>1, NothingApplied
  <2> QED BY <1>1, <2>1, <2>2 DEF WriterInv, WriteLocked
<1>4. /\ got[c] = << >> /\ ~lagged[c] /\ view[c] = Empty
  BY <1>1, ClientFacts DEF ClientInv, FreshInv
<1>5. /\ sub[c].kind # "ui_book" =>
           /\ P \in Seq(Handout) /\ Len(P) \in 0 .. sent
           /\ \A i \in DOMAIN P : P[i] = Numbered(sent - Len(P) + i)
      /\ sub[c].kind = "grpc_replay" => sent - Len(P) = FirstKept - 1
      /\ sub[c].kind = "ui_book" => P = SnapshotBooks
  <2>1. ASSUME P = History
        PROVE  /\ P \in Seq(Handout) /\ Len(P) \in 0 .. sent
               /\ sent - Len(P) = FirstKept - 1
               /\ \A i \in DOMAIN P : P[i] = Numbered(sent - Len(P) + i)
    <3> DEFINE first == FirstKept
    <3>1. /\ P \in Seq(Handout) /\ Len(P) = sent - first + 1 /\ DOMAIN P = 1 .. sent - first + 1
          /\ \A i \in 1 .. sent - first + 1 : P[i] = Numbered(first - 1 + i)
          /\ first \in 1 .. sent + 1
      BY <1>3, <2>1, HistoryIsLog
    <3> HIDE DEF P, first
    <3>2. Len(P) \in 0 .. sent /\ sent - Len(P) = first - 1
      BY <1>3, <3>1
    <3>3. \A i \in DOMAIN P : P[i] = Numbered(sent - Len(P) + i)
      BY <3>1, <3>2
    <3> QED BY <3>1, <3>2, <3>3 DEF first
  <2>2. CASE sub[c].kind \in {"ui_tape", "grpc_replay"}
    <3>1. P = History
      BY <2>2 DEF Prepared
    <3> QED BY <2>1, <2>2, <3>1
  <2>3. CASE sub[c].kind = "ui_book"
    BY <2>3 DEF Prepared
  <2>4. CASE sub[c].kind = "grpc_live"
    <3>1. P = << >>
      BY <2>4 DEF Prepared
    <3>2. P \in Seq(Handout) /\ Len(P) = 0 /\ DOMAIN P = {}
      BY <3>1
    <3> HIDE DEF P
    <3> QED BY <1>3, <2>4, <3>2
  <2> QED BY <2>2, <2>3, <2>4, ClientFacts
<1>6. P \in Seq(Handout)
  BY <1>5, SnapshotIsBook
<1> HIDE DEF P
<1>7. /\ status'[c] = "open" /\ todo'[c] = P /\ next'[c] = sent + 1
      /\ got'[c] = << >> /\ view'[c] = Empty
  BY <1>1, <1>2, <1>4
<1>8. Alone(c) /\ ClientTypes /\ next'[c] \in 1 .. sent + 1
  <2>1. next'[c] \in 1 .. sent + 1
    BY <1>3, <1>7
  <2>2. Alone(c)
    BY <1>1, <1>2 DEF Alone, exchange
  <2>3. since' \in [Client -> Since]
    <3>1. [start |-> start, first |-> FirstKept, seam |-> Len(log)] \in Since
      <4>1. start \in Nat
        BY FeedAssumption DEF StartTimes, Stamp
      <4>2. FirstKept \in Nat \ {0} /\ Len(log) \in Nat
        BY <1>3, HistoryIsLog
      <4> QED BY <4>1, <4>2 DEF Since
    <3> HIDE DEF Since
    <3> QED BY <1>1, <1>2, <3>1
  <2>4. ClientTypes
    BY <1>1, <1>2, <1>3, <1>6, <2>3 DEF ClientTypes
  <2> QED BY <2>1, <2>2, <2>4
<1>9. Handed(c)' = sent - Len(P)
  <2>1. Len(P) \in Nat
    BY <1>6, LenProperties
  <2> QED BY <1>3, <1>7, <2>1 DEF Handed
<1>10. ReplayInv(c)'
  <2> SUFFICES ASSUME sub[c].kind # "ui_book"
               PROVE  /\ sent - Len(P) \in Nat
                      /\ \A i \in DOMAIN P : P[i] = Numbered(sent - Len(P) + i)
    BY <1>1, <1>7, <1>9 DEF ReplayInv, Numbered
  <2>1. Len(P) \in 0 .. sent /\ \A i \in DOMAIN P : P[i] = Numbered(sent - Len(P) + i)
    BY <1>5
  <2>2. sent - Len(P) \in Nat
    BY <1>3, <2>1
  <2> QED BY <2>1, <2>2
<1>11. SnapshotInv(c)'
  <2> SUFFICES ASSUME sub[c].kind = "ui_book" PROVE SnapshotInv(c)'
    BY <1>1 DEF SnapshotInv
  <2>1. P = SnapshotBooks
    BY <1>5
  <2>2. /\ Distinct(P) /\ \A i \in DOMAIN P : P[i].number = 0
        /\ \A o \in Order : Applied(Empty, P)[o] = IF gated THEN 0 ELSE book[o]
    BY <2>1, SnapshotIsBook
  <2>3. UpTo(next[c] - 1)' = UpTo(sent)
    <3>1. next'[c] - 1 = sent
      BY <1>3, <1>7
    <3> QED BY <1>1, <3>1 DEF UpTo
  <2>4. gated \in BOOLEAN
    BY DEF FeedInv, FeedTypes, TypeOK
  <2>5. \A o \in Order : \/ Applied(Empty, P)[o] = UpTo(sent)[o]
                         \/ gated /\ Applied(Empty, P)[o] = 0
                         \/ o \in silent
    BY <1>3, <2>2, <2>4
  <2>6. \A o \in Order : o \in silent => Awaits(c, o)'
    BY <1>1 DEF Awaits
  <2> HIDE DEF Awaits
  <2> QED BY <1>1, <1>7, <2>2, <2>3, <2>5, <2>6 DEF SnapshotInv
<1>12. CoverInv(c)'
  <2> SUFFICES ASSUME sub[c].kind = "grpc_replay"
               PROVE  since'[c].first .. Handed(c)' = {}
    BY <1>1 DEF CoverInv
  <2>1. since'[c].first = FirstKept /\ Handed(c)' = FirstKept - 1
    BY <1>1, <1>2, <1>5, <1>9
  <2>2. FirstKept \in Nat
    BY HistoryIsLog, FeedFacts
  <2> QED BY <2>1, <2>2
<1>13. ClientInv(c)'
  BY <1>1, <1>7, <1>10, <1>11, <1>12 DEF ClientInv, FreshInv, InOrder, GapInv
<1> QED BY <1>8, <1>13, OneClientSteps

(* The next record of history or snapshot.                                 *)
LEMMA SendPreparedStays ==
  ASSUME FeedInv, NEW c \in Client, SendPrepared(c)
  PROVE  FeedInv'
<1> DEFINE R == Head(todo[c])  T == Tail(todo[c])
<1>1. /\ status[c] = "open" /\ todo[c] # << >> /\ Deliver(c, R)
      /\ todo' = [todo EXCEPT ![c] = T]
      /\ book' = book /\ gated' = gated /\ pending' = pending /\ log' = log /\ sent' = sent
      /\ silent' = silent /\ since' = since
      /\ sub' = sub /\ status' = status /\ next' = next /\ lagged' = lagged
  BY DEF SendPrepared, exchange
<1>2. /\ status \in [Client -> {"off", "open", "closed"}]
      /\ todo \in [Client -> Seq(Handout)] /\ got \in [Client -> Seq(Nat)]
      /\ next \in [Client -> Nat] /\ view \in [Client -> [Order -> 0 .. MaxQuantity]]
      /\ lagged \in [Client -> BOOLEAN] /\ since \in [Client -> Since]
  BY DEF FeedInv, FeedTypes, TypeOK
<1>3. /\ Len(todo[c]) \in Nat \ {0} /\ DOMAIN todo[c] = 1 .. Len(todo[c])
      /\ R = todo[c][1] /\ R \in Handout /\ T \in Seq(Handout)
      /\ Len(T) = Len(todo[c]) - 1 /\ DOMAIN T = 1 .. Len(todo[c]) - 1
      /\ \A i \in 1 .. Len(todo[c]) - 1 : T[i] = todo[c][i + 1]
  BY <1>1, <1>2, HeadAndTail
<1> HIDE DEF R, T
<1>4. /\ R.order \in Order /\ R.qty \in 0 .. MaxQuantity /\ R.number \in Nat
      /\ view[c] \in [Order -> 0 .. MaxQuantity] /\ got[c] \in Seq(Nat)
      /\ next[c] \in Nat \ {0} /\ next[c] <= sent + 1 /\ sent \in Nat
      /\ sent <= Len(log) /\ Len(log) \in Nat
  BY <1>3, FeedFacts, ClientFacts DEF Handout
<1>5. /\ After(view[c], R) \in [Order -> 0 .. MaxQuantity]
      /\ Append(got[c], R.number) \in Seq(Nat)
  BY <1>4 DEF After
<1>6. /\ todo'[c] = T /\ view' \in [Client -> [Order -> 0 .. MaxQuantity]]
      /\ got' \in [Client -> Seq(Nat)]
      /\ \A d \in Client \ {c} : view'[d] = view[d] /\ got'[d] = got[d] /\ todo'[d] = todo[d]
      /\ view'[c] = (IF Wants(c, R) THEN After(view[c], R) ELSE view[c])
      /\ got'[c] = (IF Wants(c, R) /\ R.number # 0 THEN Append(got[c], R.number) ELSE got[c])
  BY <1>1, <1>2, <1>4, <1>5, SMTT(20), ZenonT(20) DEF Deliver
<1>7. Alone(c) /\ ClientTypes /\ next'[c] \in 1 .. sent + 1
  <2>1. next'[c] \in 1 .. sent + 1
    BY <1>1, <1>4
  <2>2. Alone(c)
    BY <1>1, <1>6 DEF Alone, exchange
  <2>3. ClientTypes
    BY <1>1, <1>2, <1>3, <1>6 DEF ClientTypes
  <2> QED BY <2>1, <2>2, <2>3
<1>8. Handed(c)' = Handed(c) + 1 /\ Handed(c) \in Int
  <2> DEFINE n == next[c]  l == Len(todo[c])
  <2>1. /\ Handed(c) = n - 1 - l /\ Handed(c)' = n - 1 - (l - 1)
        /\ n \in Int /\ l \in Int
    BY <1>1, <1>3, <1>4, <1>6, SMTT(20), ZenonT(20) DEF Handed
  <2> HIDE DEF n, l
  <2> QED BY <2>1
<1>9. CASE sub[c].kind # "ui_book"
  <2>1. /\ Handed(c) \in Nat /\ \A i \in DOMAIN todo[c] : todo[c][i] = Numbered(Handed(c) + i)
    BY <1>9, ClientFacts DEF ClientInv, ReplayInv
  <2>2. 1 \in DOMAIN todo[c]
    BY <1>3
  <2>3. R = Numbered(Handed(c) + 1) /\ R.number = Handed(c) + 1
    <3>1. R = Numbered(Handed(c) + 1)
      BY <1>3, <2>1, <2>2
    <3> QED BY <3>1 DEF Numbered
  <2>4. Handed(c) + 1 \in 1 .. Len(log)
    <3> DEFINE h == Handed(c)  n == next[c]  l == Len(todo[c])  m == Len(log)
    <3>1. h = n - 1 - l /\ h \in Nat /\ l \in Nat \ {0} /\ n \in Nat /\ n <= sent + 1
          /\ sent <= m /\ sent \in Nat /\ m \in Nat
      BY <1>3, <1>4, <2>1 DEF Handed
    <3> HIDE DEF h, n, l, m
    <3>2. h + 1 \in 1 .. m
      BY <3>1
    <3> QED BY <3>2 DEF h, m
  <2>5. got'[c] = IF Wants(c, Numbered(Handed(c) + 1)) THEN Append(got[c], Handed(c) + 1)
                  ELSE got[c]
    BY <1>6, <2>1, <2>3
  <2>6. status'[c] = status[c] /\ lagged'[c] = lagged[c] /\ since'[c] = since[c]
    BY <1>1
  <2>7. /\ \A i \in DOMAIN got'[c] : got'[c][i] <= Handed(c) + 1
        /\ InOrder(c)' /\ GapInv(c)' /\ CoverInv(c)'
    BY <1>1, <1>8, <1>9, <2>4, <2>5, <2>6, HandedOn
  <2>8. \A i \in DOMAIN T : T[i] = Numbered(Handed(c) + 1 + i)
    <3> TAKE i \in DOMAIN T
    <3>1. i \in Int /\ i + 1 \in DOMAIN todo[c] /\ T[i] = todo[c][i + 1]
      BY <1>3
    <3>2. T[i] = Numbered(Handed(c) + (i + 1))
      BY <2>1, <3>1
    <3>3. Handed(c) + (i + 1) = Handed(c) + 1 + i
      BY <2>1, <3>1
    <3> QED BY <3>2, <3>3
  <2>9. ReplayInv(c)'
    <3>1. \A j : Numbered(j)' = Numbered(j)
      BY <1>1 DEF Numbered
    <3>2. Handed(c) + 1 \in Nat
      BY <2>1
    <3> QED BY <1>1, <1>6, <1>8, <2>7, <2>8, <3>1, <3>2 DEF ReplayInv, Numbered
  <2>10. FreshInv(c)' /\ SnapshotInv(c)'
    BY <1>1, <1>9 DEF FreshInv, SnapshotInv
  <2> QED BY <1>7, <2>7, <2>9, <2>10, OneClientSteps DEF ClientInv
<1>10. CASE sub[c].kind = "ui_book"
  <2>1. /\ SnapshotInv(c) /\ InOrder(c) /\ Wants(c, R)
    <3>1. ClientInv(c) /\ sub[c].filter = Order
      BY <1>10, ClientFacts
    <3> QED BY <1>4, <1>10, <3>1 DEF ClientInv, Wants
  <2>2. /\ \A i \in DOMAIN got[c] : got[c][i] < next[c]
        /\ \A i \in DOMAIN todo[c] : todo[c][i].number = 0
        /\ Distinct(todo[c])
        /\ \A o \in Order : \/ Applied(view[c], todo[c])[o] = UpTo(next[c] - 1)[o]
                            \/ gated /\ Applied(view[c], todo[c])[o] = 0
                            \/ Awaits(c, o)
    BY <1>1, <1>10, <2>1 DEF SnapshotInv
  <2>3. R.number = 0
    BY <1>3, <2>2
  <2>4. got'[c] = got[c] /\ view'[c] = After(view[c], R)
    BY <1>6, <2>1, <2>3
  <2>5. Applied(After(view[c], R), T) = Applied(view[c], todo[c]) /\ Distinct(T)
    <3> DEFINE S == 0 .. MaxQuantity  b == view[c]  p == todo[c]  E == Handout
    <3>1. /\ b \in [Order -> S] /\ \A e \in E : e.order \in Order /\ e.qty \in S
          /\ p \in Seq(E) /\ p # << >> /\ Distinct(p)
      BY <1>1, <1>2, <1>4, <2>2 DEF Handout
    <3> HIDE DEF S, b, p, E
    <3>2. /\ Applied(After(b, Head(p)), Tail(p)) = Applied(b, p)
          /\ After(b, Head(p)) \in [Order -> S] /\ Distinct(Tail(p))
      BY <3>1, AppliedHead
    <3> QED BY <3>2 DEF b, p, R, T
  <2>6. \A i \in DOMAIN T : T[i].number = 0
    <3> TAKE i \in DOMAIN T
    <3>1. i + 1 \in DOMAIN todo[c] /\ T[i] = todo[c][i + 1]
      BY <1>3
    <3> QED BY <2>2, <3>1
  <2>7. UpTo(next[c] - 1)' = UpTo(next[c] - 1) /\ \A o : Awaits(c, o)' <=> Awaits(c, o)
    BY <1>1 DEF UpTo, Awaits
  <2>8. SnapshotInv(c)'
    <3> HIDE DEF Awaits
    <3> QED BY <1>1, <1>6, <2>2, <2>4, <2>5, <2>6, <2>7 DEF SnapshotInv
  <2>9. FreshInv(c)' /\ ReplayInv(c)' /\ InOrder(c)' /\ GapInv(c)' /\ CoverInv(c)'
    BY <1>1, <1>10, <2>1, <2>4 DEF FreshInv, ReplayInv, InOrder, GapInv, CoverInv
  <2> QED BY <1>7, <2>8, <2>9, OneClientSteps DEF ClientInv
<1> QED BY <1>9, <1>10

(* The next live event.                                                    *)
LEMMA ReceiveStays ==
  ASSUME FeedInv, NEW c \in Client, Receive(c)
  PROVE  FeedInv'
<1> DEFINE n == next[c]  R == Numbered(n)
<1>1. /\ status[c] = "open" /\ todo[c] = << >> /\ n <= sent /\ Deliver(c, R)
      /\ next' = [next EXCEPT ![c] = n + 1]
      /\ book' = book /\ gated' = gated /\ pending' = pending /\ log' = log /\ sent' = sent
      /\ silent' = silent /\ since' = since
      /\ sub' = sub /\ status' = status /\ todo' = todo /\ lagged' = lagged
  BY DEF Receive, exchange
<1>2. /\ status \in [Client -> {"off", "open", "closed"}]
      /\ todo \in [Client -> Seq(Handout)] /\ got \in [Client -> Seq(Nat)]
      /\ next \in [Client -> Nat] /\ view \in [Client -> [Order -> 0 .. MaxQuantity]]
      /\ lagged \in [Client -> BOOLEAN] /\ since \in [Client -> Since]
  BY DEF FeedInv, FeedTypes, TypeOK
<1>3. /\ n \in Nat \ {0} /\ sent \in Nat /\ sent <= Len(log) /\ Len(log) \in Nat
      /\ n \in 1 .. Len(log) /\ log \in Seq(Event)
      /\ view[c] \in [Order -> 0 .. MaxQuantity] /\ got[c] \in Seq(Nat)
      /\ next'[c] = n + 1 /\ Len(todo[c]) = 0
  <2>1. /\ n \in Nat \ {0} /\ sent \in Nat /\ sent <= Len(log) /\ Len(log) \in Nat
        /\ log \in Seq(Event) /\ view[c] \in [Order -> 0 .. MaxQuantity] /\ got[c] \in Seq(Nat)
    BY FeedFacts, ClientFacts
  <2> QED BY <1>1, <1>2, <2>1, EmptySeq
<1>4. /\ R.order \in Order /\ R.qty \in 0 .. MaxQuantity /\ R.number = n
      /\ R.order = log[n].order /\ R.qty = log[n].qty
  <2>1. log[n] \in Event
    BY <1>3, ElementOfSeq
  <2> HIDE DEF n
  <2> QED BY <2>1 DEF Numbered, Event
<1> HIDE DEF n, R
<1>5. /\ After(view[c], R) \in [Order -> 0 .. MaxQuantity]
      /\ Append(got[c], n) \in Seq(Nat)
  BY <1>3, <1>4 DEF After
<1>6. /\ view' \in [Client -> [Order -> 0 .. MaxQuantity]] /\ got' \in [Client -> Seq(Nat)]
      /\ \A d \in Client \ {c} : view'[d] = view[d] /\ got'[d] = got[d] /\ next'[d] = next[d]
      /\ view'[c] = (IF Wants(c, R) THEN After(view[c], R) ELSE view[c])
      /\ got'[c] = (IF Wants(c, R) THEN Append(got[c], n) ELSE got[c])
  <2>1. R.number = n /\ R.number # 0
    BY <1>3, <1>4
  <2>2. CASE Wants(c, R)
    <3>1. /\ view' = [view EXCEPT ![c] = After(@, R)]
          /\ got' = [got EXCEPT ![c] = Append(@, n)]
      BY <1>1, <2>1, <2>2 DEF Deliver
    <3> QED BY <1>1, <1>2, <1>5, <2>2, <3>1, SMTT(20), ZenonT(20)
  <2>3. CASE ~Wants(c, R)
    <3>1. view' = view /\ got' = got
      BY <1>1, <2>3 DEF Deliver
    <3> QED BY <1>1, <1>2, <2>3, <3>1
  <2> QED BY <2>2, <2>3
<1>7. Alone(c) /\ ClientTypes /\ next'[c] \in 1 .. sent + 1
  <2>1. next'[c] \in 1 .. sent + 1
    BY <1>1, <1>3
  <2>2. Alone(c)
    BY <1>1, <1>6 DEF Alone, exchange
  <2>3. ClientTypes
    <3>1. n + 1 \in Nat
      BY <1>3
    <3>2. next' \in [Client -> Nat]
      BY <1>1, <1>2, <3>1
    <3> QED BY <1>1, <1>2, <1>6, <3>2 DEF ClientTypes
  <2> QED BY <2>1, <2>2, <2>3
<1>8. Handed(c) + 1 = n /\ Handed(c)' = n /\ Handed(c) = n - 1
  BY <1>1, <1>3 DEF Handed, n
<1>9. FreshInv(c)'
  BY <1>1 DEF FreshInv
<1>10. CASE sub[c].kind # "ui_book"
  <2>1. got'[c] = IF Wants(c, Numbered(Handed(c) + 1)) THEN Append(got[c], Handed(c) + 1)
                  ELSE got[c]
    BY <1>6, <1>8 DEF R
  <2>2. status'[c] = status[c] /\ lagged'[c] = lagged[c] /\ since'[c] = since[c] /\ Handed(c) + 1 \in 1 .. Len(log)
        /\ Handed(c)' = Handed(c) + 1
    BY <1>1, <1>3, <1>8
  <2>3. /\ \A i \in DOMAIN got'[c] : got'[c][i] <= Handed(c) + 1
        /\ InOrder(c)' /\ GapInv(c)' /\ CoverInv(c)'
    BY <1>1, <1>10, <2>1, <2>2, HandedOn
  <2>4. ReplayInv(c)'
    <3>1. DOMAIN todo'[c] = {}
      BY <1>1
    <3> QED BY <1>3, <1>8, <2>3, <3>1 DEF ReplayInv
  <2>5. SnapshotInv(c)'
    BY <1>1, <1>10 DEF SnapshotInv
  <2> QED BY <1>7, <1>9, <2>3, <2>4, <2>5, OneClientSteps DEF ClientInv
<1>11. CASE sub[c].kind = "ui_book"
  <2>1. SnapshotInv(c) /\ InOrder(c) /\ Wants(c, R)
    <3>1. ClientInv(c) /\ sub[c].filter = Order
      BY <1>11, ClientFacts
    <3> QED BY <1>4, <1>11, <3>1 DEF ClientInv, Wants
  <2>2. \A i \in DOMAIN got[c] : got[c][i] < n
    BY <1>11, <2>1 DEF SnapshotInv, n
  <2>3. \A o \in Order : \/ view[c][o] = UpTo(n - 1)[o]
                         \/ gated /\ view[c][o] = 0
                         \/ Awaits(c, o)
    <3>1. Applied(view[c], todo[c]) = view[c]
      BY <1>1, <1>3, NothingApplied
    <3> QED BY <1>1, <1>11, <2>1, <3>1 DEF SnapshotInv, n
  <2>4. got'[c] = Append(got[c], n) /\ view'[c] = After(view[c], R)
    BY <1>6, <2>1
  <2>5. UpTo(n) = After(UpTo(n - 1), log[n])
    <3>1. n - 1 \in Nat /\ n - 1 < Len(log) /\ (n - 1) + 1 = n
      BY <1>3
    <3>2. Replayed(log, (n - 1) + 1) = After(Replayed(log, n - 1), log[(n - 1) + 1])
      BY <1>3, <3>1, ReplayedNext
    <3> QED BY <3>1, <3>2 DEF UpTo
  <2>6. After(UpTo(n - 1), log[n]) = After(UpTo(n - 1), R)
    BY <1>4 DEF After
  <2>7. \A o \in Order : \/ view'[c][o] = UpTo(n)[o]
                         \/ gated /\ view'[c][o] = 0
                         \/ Awaits(c, o)'
    <3>1. UpTo(n - 1) = [o \in Order |-> UpTo(n - 1)[o]]
      BY DEF UpTo, Replayed
    <3>2. \A o \in Order : After(UpTo(n - 1), R)[o] = IF o = R.order THEN R.qty ELSE UpTo(n - 1)[o]
      BY <3>1 DEF After
    <3>3. \A o \in Order : After(view[c], R)[o] = IF o = R.order THEN R.qty ELSE view[c][o]
      BY <1>3 DEF After
    <3>4. ASSUME NEW o \in Order, o # R.order, Awaits(c, o) PROVE Awaits(c, o)'
      <4>1. ASSUME NEW i \in n .. Len(log), log[i].order = o
            PROVE  i \in n + 1 .. Len(log)
        <5>1. i # n
          BY <1>4, <3>4, <4>1
        <5> QED BY <1>3, <5>1
      <4> QED BY <1>1, <1>3, <3>4, <4>1 DEF Awaits, n
    <3> HIDE DEF Awaits
    <3> QED BY <2>3, <2>4, <2>5, <2>6, <3>2, <3>3, <3>4
  <2>8. UpTo(next[c] - 1)' = UpTo(n)
    <3>1. next'[c] - 1 = n
      BY <1>3
    <3> QED BY <1>1, <3>1 DEF UpTo
  <2>9. /\ Len(got[c]) \in Nat /\ DOMAIN got[c] = 1 .. Len(got[c])
        /\ DOMAIN got'[c] = 1 .. Len(got[c]) + 1
        /\ \A i \in 1 .. Len(got[c]) : got'[c][i] = got[c][i] /\ got[c][i] \in Nat
        /\ got'[c][Len(got[c]) + 1] = n
    <3> DEFINE g == got[c]
    <3>1. n \in Nat /\ g \in Seq(Nat) /\ got'[c] = Append(g, n)
      BY <1>3, <2>4
    <3> HIDE DEF g
    <3>2. /\ Len(g) \in Nat /\ DOMAIN g = 1 .. Len(g) /\ DOMAIN got'[c] = 1 .. Len(g) + 1
          /\ \A i \in 1 .. Len(g) : got'[c][i] = g[i]
          /\ got'[c][Len(g) + 1] = n
      BY <3>1, Appended
    <3>3. \A i \in 1 .. Len(g) : g[i] \in Nat
      BY <3>1, ElementOfSeq
    <3> QED BY <3>2, <3>3 DEF g
  <2>10. \A i \in DOMAIN got'[c] : got'[c][i] < n + 1
    <3> TAKE i \in DOMAIN got'[c]
    <3>1. CASE i = Len(got[c]) + 1
      BY <1>3, <2>9, <3>1
    <3>2. CASE i # Len(got[c]) + 1
      <4>1. i \in 1 .. Len(got[c])
        BY <2>9, <3>2
      <4>2. got'[c][i] \in Nat /\ got'[c][i] < n
        BY <2>2, <2>9, <4>1
      <4> QED BY <1>3, <4>2
    <3> QED BY <3>1, <3>2
  <2>11. InOrder(c)'
    <3> SUFFICES ASSUME NEW i \in DOMAIN got'[c], NEW j \in DOMAIN got'[c], i < j
                 PROVE  got'[c][i] < got'[c][j]
      BY DEF InOrder
    <3>1. i \in 1 .. Len(got[c])
      BY <2>9
    <3>2. CASE j = Len(got[c]) + 1
      BY <2>2, <2>9, <3>1, <3>2
    <3>3. CASE j # Len(got[c]) + 1
      <4>1. j \in 1 .. Len(got[c])
        BY <2>9, <3>3
      <4>2. got[c][i] < got[c][j]
        BY <2>1, <2>9, <3>1, <4>1 DEF InOrder
      <4> QED BY <2>9, <3>1, <4>1, <4>2
    <3> QED BY <3>2, <3>3
  <2>12. SnapshotInv(c)'
    <3>1. Applied(view'[c], todo'[c]) = view'[c]
      <4>1. view'[c] \in [Order -> 0 .. MaxQuantity]
        BY <1>6
      <4> QED BY <1>1, <4>1, NothingApplied
    <3>2. DOMAIN todo'[c] = {}
      BY <1>1
    <3> QED BY <1>1, <1>3, <2>7, <2>8, <2>10, <3>1, <3>2 DEF SnapshotInv, Distinct
  <2>13. ReplayInv(c)' /\ GapInv(c)' /\ CoverInv(c)'
    BY <1>1, <1>11 DEF ReplayInv, GapInv, CoverInv
  <2> QED BY <1>7, <1>9, <2>11, <2>12, <2>13, OneClientSteps DEF ClientInv
<1> QED BY <1>10, <1>11

(* The receiver is overrun: only what closes the stream goes on unlagged.   *)
LEMMA LagStays ==
  ASSUME FeedInv, NEW c \in Client, Lag(c)
  PROVE  FeedInv'
<1>1. /\ status[c] = "open" /\ todo[c] = << >> /\ next[c] < Oldest
      /\ lagged' = [lagged EXCEPT ![c] = TRUE] /\ next' = [next EXCEPT ![c] = Oldest]
      /\ status' = [status EXCEPT ![c] =
                      IF sub[c].kind \in {"ui_tape", "ui_book"} THEN "closed" ELSE "open"]
      /\ book' = book /\ gated' = gated /\ pending' = pending /\ log' = log /\ sent' = sent
      /\ silent' = silent /\ since' = since
      /\ sub' = sub /\ todo' = todo /\ view' = view /\ got' = got
  BY DEF Lag, Overrun, exchange
<1>2. /\ status \in [Client -> {"off", "open", "closed"}]
      /\ todo \in [Client -> Seq(Handout)] /\ got \in [Client -> Seq(Nat)]
      /\ next \in [Client -> Nat] /\ view \in [Client -> [Order -> 0 .. MaxQuantity]]
      /\ lagged \in [Client -> BOOLEAN] /\ since \in [Client -> Since]
  BY DEF FeedInv, FeedTypes, TypeOK
<1>3. /\ next[c] \in Nat \ {0} /\ sent \in Nat /\ ClientInv(c)
      /\ DOMAIN got[c] = 1 .. Len(got[c]) /\ \A i \in DOMAIN got[c] : got[c][i] \in Nat
  BY FeedFacts, ClientFacts
<1>4. Oldest \in Nat /\ Oldest <= sent + 1 /\ 1 <= Oldest
  BY <1>3, FeedAssumption DEF Oldest, Max0
<1>5. /\ next'[c] = Oldest /\ lagged'[c] /\ status'[c] # "off"
      /\ sub[c].kind \in {"ui_tape", "ui_book"} => status'[c] = "closed"
  BY <1>1, <1>2
<1>6. Alone(c) /\ ClientTypes /\ next'[c] \in 1 .. sent + 1
  <2>1. next'[c] \in 1 .. sent + 1
    BY <1>3, <1>4, <1>5
  <2>2. Alone(c)
    BY <1>1, <1>2 DEF Alone, exchange
  <2>3. ClientTypes
    BY <1>1, <1>2, <1>4 DEF ClientTypes
  <2> QED BY <2>1, <2>2, <2>3
<1>7. Handed(c) = next[c] - 1 /\ Handed(c)' = Oldest - 1
  <2>1. Len(todo[c]) = 0
    BY <1>1, EmptySeq
  <2> QED BY <1>1, <1>3, <1>4, <1>5, <2>1 DEF Handed
<1>8. DOMAIN todo'[c] = {} /\ DOMAIN todo[c] = {}
  BY <1>1
<1>9. ReplayInv(c)'
  <2> SUFFICES ASSUME sub[c].kind # "ui_book"
               PROVE  \A i \in DOMAIN got[c] : got[c][i] <= Oldest - 1
    BY <1>1, <1>4, <1>7, <1>8 DEF ReplayInv
  <2>1. \A i \in DOMAIN got[c] : got[c][i] <= next[c] - 1
    BY <1>3, <1>7 DEF ClientInv, ReplayInv
  <2> QED BY <1>1, <1>3, <1>4, <2>1
<1>10. SnapshotInv(c)'
  <2> SUFFICES ASSUME sub[c].kind = "ui_book"
               PROVE  \A i \in DOMAIN got[c] : got[c][i] < Oldest
    BY <1>1, <1>5, <1>8 DEF SnapshotInv, Distinct
  <2>1. \A i \in DOMAIN got[c] : got[c][i] < next[c]
    BY <1>3 DEF ClientInv, SnapshotInv
  <2> QED BY <1>1, <1>3, <1>4, <2>1
<1>11. InOrder(c)' /\ GapInv(c)' /\ CoverInv(c)' /\ FreshInv(c)'
  BY <1>1, <1>3, <1>5 DEF ClientInv, InOrder, GapInv, CoverInv, FreshInv
<1> QED BY <1>6, <1>9, <1>10, <1>11, OneClientSteps DEF ClientInv

(* A socket closes.                                                      *)
LEMMA DisconnectStays ==
  ASSUME FeedInv, NEW c \in Client, Disconnect(c)
  PROVE  FeedInv'
<1>1. /\ status[c] = "open" /\ status' = [status EXCEPT ![c] = "closed"]
      /\ book' = book /\ gated' = gated /\ pending' = pending /\ log' = log /\ sent' = sent
      /\ sub' = sub /\ todo' = todo /\ view' = view /\ got' = got /\ next' = next
      /\ lagged' = lagged /\ silent' = silent /\ since' = since
  BY DEF Disconnect, exchange
<1>2. /\ status \in [Client -> {"off", "open", "closed"}]
      /\ todo \in [Client -> Seq(Handout)] /\ got \in [Client -> Seq(Nat)]
      /\ next \in [Client -> Nat] /\ view \in [Client -> [Order -> 0 .. MaxQuantity]]
      /\ lagged \in [Client -> BOOLEAN] /\ since \in [Client -> Since]
  BY DEF FeedInv, FeedTypes, TypeOK
<1>3. /\ next[c] \in Nat \ {0} /\ next[c] <= sent + 1 /\ sent \in Nat /\ ClientInv(c)
      /\ status'[c] = "closed"
  BY <1>1, <1>2, FeedFacts, ClientFacts
<1>4. Alone(c) /\ ClientTypes /\ next'[c] \in 1 .. sent + 1
  <2>1. next'[c] \in 1 .. sent + 1
    BY <1>1, <1>3
  <2>2. Alone(c) /\ ClientTypes
    BY <1>1, <1>2 DEF Alone, ClientTypes, exchange
  <2> QED BY <2>1, <2>2
<1>5. Handed(c)' = Handed(c)
  BY <1>1 DEF Handed
<1>6. ClientInv(c)'
  BY <1>1, <1>3, <1>5 DEF ClientInv, FreshInv, ReplayInv, SnapshotInv, InOrder, GapInv,
                          CoverInv, Numbered, Wants
<1> QED BY <1>4, <1>6, OneClientSteps

(* The page forgets what it was shown and connects anew.                 *)
LEMMA StartOverStays ==
  ASSUME FeedInv, NEW c \in Client, StartOver(c)
  PROVE  FeedInv'
<1>1. /\ status' = [status EXCEPT ![c] = "off"] /\ todo' = [todo EXCEPT ![c] = << >>]
      /\ next' = [next EXCEPT ![c] = 1] /\ view' = [view EXCEPT ![c] = Empty]
      /\ got' = [got EXCEPT ![c] = << >>] /\ lagged' = [lagged EXCEPT ![c] = FALSE]
      /\ book' = book /\ gated' = gated /\ pending' = pending /\ log' = log /\ sent' = sent
      /\ silent' = silent /\ sub' = sub /\ since' = [since EXCEPT ![c] = FromTheStart]
  BY DEF StartOver, exchange
<1>2. /\ status \in [Client -> {"off", "open", "closed"}]
      /\ todo \in [Client -> Seq(Handout)] /\ got \in [Client -> Seq(Nat)]
      /\ next \in [Client -> Nat] /\ view \in [Client -> [Order -> 0 .. MaxQuantity]]
      /\ lagged \in [Client -> BOOLEAN] /\ since \in [Client -> Since]
  BY DEF FeedInv, FeedTypes, TypeOK
<1>3. sent \in Nat /\ Empty \in [Order -> 0 .. MaxQuantity] /\ FromTheStart \in Since
  BY FeedFacts, FeedAssumption DEF Empty, FromTheStart, Since
<1>4. /\ status'[c] = "off" /\ todo'[c] = << >> /\ next'[c] = 1 /\ view'[c] = Empty
      /\ got'[c] = << >> /\ ~lagged'[c]
  BY <1>1, <1>2
<1>5. Alone(c) /\ ClientTypes /\ next'[c] \in 1 .. sent + 1
  <2>1. next'[c] \in 1 .. sent + 1
    BY <1>3, <1>4
  <2>2. Alone(c)
    BY <1>1, <1>2 DEF Alone, exchange
  <2>3. ClientTypes
    BY <1>1, <1>2, <1>3 DEF ClientTypes
  <2> QED BY <2>1, <2>2, <2>3
<1>6. Handed(c)' = 0 /\ DOMAIN todo'[c] = {} /\ DOMAIN got'[c] = {}
  <2>1. Len(todo'[c]) = 0
    BY <1>4, EmptySeq
  <2>2. Handed(c)' = 1 - 1 - 0
    BY <1>4, <2>1 DEF Handed
  <2> QED BY <1>4, <2>2
<1>7. ClientInv(c)'
  BY <1>4, <1>6 DEF ClientInv, FreshInv, ReplayInv, SnapshotInv, InOrder, GapInv, CoverInv,
                    Distinct
<1> QED BY <1>5, <1>7, OneClientSteps

-----------------------------------------------------------------------------
(* The invariant holds before anything is sent or subscribed to.         *)
LEMMA FeedStarts ==
  ASSUME Init
  PROVE  FeedInv
<1>1. /\ book = Empty /\ gated = FALSE /\ pending = << >> /\ log = << >> /\ sent = 0
      /\ silent = {} /\ since = [c \in Client |-> FromTheStart]
      /\ sub \in [Client -> Subscriptions]
      /\ status = [c \in Client |-> "off"] /\ todo = [c \in Client |-> << >>]
      /\ next = [c \in Client |-> 1] /\ view = [c \in Client |-> Empty]
      /\ got = [c \in Client |-> << >>] /\ lagged = [c \in Client |-> FALSE]
  BY DEF Init
<1>2. Empty \in [Order -> 0 .. MaxQuantity] /\ FromTheStart \in Since
  BY FeedAssumption DEF Empty, FromTheStart, Since
<1>3. /\ << >> \in Seq(Event) /\ Len(log) = 0 /\ << >> \in Seq(Handout) /\ << >> \in Seq(Nat)
  BY <1>1, EmptySeq
<1>4. FeedTypes
  <2>1. /\ todo \in [Client -> Seq(Handout)] /\ got \in [Client -> Seq(Nat)]
        /\ next \in [Client -> Nat] /\ view \in [Client -> [Order -> 0 .. MaxQuantity]]
        /\ lagged \in [Client -> BOOLEAN] /\ status \in [Client -> {"off", "open", "closed"}]
        /\ since \in [Client -> Since]
    BY <1>1, <1>2, <1>3
  <2>2. sent \in 0 .. Len(log) /\ \A c \in Client : next[c] \in 1 .. sent + 1
    BY <1>1, <1>3
  <2>3. book \in [Order -> 0 .. MaxQuantity] /\ pending \in Seq(Event) /\ log \in Seq(Event)
        /\ gated \in BOOLEAN /\ silent \in SUBSET Order
    BY <1>1, <1>2, <1>3
  <2> QED BY <1>1, <2>1, <2>2, <2>3 DEF FeedTypes, TypeOK
<1>5. WriterInv
  <2>1. UpTo(sent) = Empty
    <3>1. \A o \in Order : Touching(log, 0, o) = {}
      BY DEF Touching
    <3> QED BY <1>1, <3>1 DEF UpTo, Replayed, Empty
  <2>2. Applied(Empty, << >>) = Empty
    BY <1>2, NothingApplied
  <2> QED BY <1>1, <1>3, <2>1, <2>2 DEF WriterInv, Distinct
<1>6. ASSUME NEW c \in Client PROVE ClientInv(c)
  <2>1. /\ status[c] = "off" /\ todo[c] = << >> /\ next[c] = 1 /\ view[c] = Empty
        /\ got[c] = << >> /\ ~lagged[c]
    BY <1>1
  <2>2. Handed(c) = 0 /\ DOMAIN todo[c] = {} /\ DOMAIN got[c] = {}
    <3>1. Len(todo[c]) = 0
      BY <2>1, EmptySeq
    <3>2. Handed(c) = 1 - 1 - 0
      BY <2>1, <3>1 DEF Handed
    <3> QED BY <2>1, <3>2
  <2> QED BY <2>1, <2>2 DEF ClientInv, FreshInv, ReplayInv, SnapshotInv, InOrder, GapInv,
                            CoverInv, Distinct
<1> QED BY <1>4, <1>5, <1>6 DEF FeedInv

(* Every step keeps it.                                                  *)
LEMMA FeedGoesOn ==
  ASSUME FeedInv, [Next]_vars
  PROVE  FeedInv'
<1>1. ASSUME NEW events \in Batches, Handle(events) PROVE FeedInv'
  BY <1>1, HandleStays
<1>7. ASSUME NEW o \in Order, NEW b \in [Order -> 0 .. MaxQuantity], Modify(o, b)
      PROVE  FeedInv'
  BY <1>7, ModifyStays
<1>2. CASE Push
  BY <1>2, PushStays
<1>3. CASE Send
  BY <1>3, SendStays
<1>4. CASE GateCloses
  BY <1>4, GateStays
<1>5. ASSUME NEW c \in Client, ClientStep(c) PROVE FeedInv'
  <2>1. ASSUME NEW start \in StartTimes(c), Connect(c, start) PROVE FeedInv'
    BY <2>1, ConnectStays
  <2> QED BY <1>5, <2>1, SendPreparedStays, ReceiveStays, LagStays, DisconnectStays,
             StartOverStays DEF ClientStep
<1>6. CASE UNCHANGED vars
  <2>1. /\ UNCHANGED <<sub, status, since, todo, next, view, got, lagged>>
        /\ UNCHANGED <<book, silent, gated, pending, log, sent>>
    BY <1>6 DEF vars
  <2>2. FeedTypes' /\ WriterInv'
    BY <2>1 DEF FeedInv, FeedTypes, TypeOK, WriterInv, UpTo, WriteLocked
  <2>3. \A c \in Client : ClientInv(c)'
    <3> TAKE c \in Client
    <3>1. ClientInv(c) /\ Handed(c)' = Handed(c)
      BY <2>1 DEF FeedInv, Handed
    <3> QED BY <2>1, <3>1 DEF ClientInv, FreshInv, ReplayInv, SnapshotInv, InOrder, GapInv,
                              CoverInv, Numbered, Wants, UpTo, Awaits
  <2> QED BY <2>2, <2>3 DEF FeedInv
<1> QED BY <1>1, <1>2, <1>3, <1>4, <1>5, <1>6, <1>7 DEF Next

(* The inductive invariant of writer, rings and subscribers.                *)
THEOREM FeedInvariant == Spec => []FeedInv
BY FeedStarts, FeedGoesOn, PTL DEF Spec

(* Snapshot or replay and live events join without doubling or disorder; a *)
(* tape has no gap, a book that is caught up is the exchange's but for     *)
(* orders that were changed and not announced since, and a replay that was *)
(* not overrun is complete (src/server.rs:540-616, src/ui/mod.rs:325-442). *)
THEOREM FeedStaysConsistent == Spec => []FeedConsistent
<1>1. ASSUME FeedInv PROVE FeedConsistent
  <2>1. \A c \in Client : ClientInv(c)
    BY <1>1 DEF FeedInv
  <2>2. TypeOK
    BY <1>1 DEF FeedInv, FeedTypes
  <2>3. InOrderOnce /\ TapeHasNoGap
    BY <2>1 DEF InOrderOnce, TapeHasNoGap, ClientInv, InOrder, GapInv
  <2>4. UiBookMatchesExchange
    <3> SUFFICES ASSUME NEW c \in Client, sub[c].kind = "ui_book", status[c] = "open",
                        CaughtUp(c), NEW o \in Order, o \notin silent
                 PROVE  view[c][o] = book[o] \/ (gated /\ view[c][o] = 0)
      BY DEF UiBookMatchesExchange, ShowsExchange
    <3>1. /\ todo[c] = << >> /\ pending = << >> /\ next[c] = sent + 1
          /\ sent \in Nat /\ Len(log) = sent
      BY <1>1, FeedFacts DEF CaughtUp, WriteLocked, FeedInv, WriterInv
    <3>2. Applied(view[c], todo[c]) = view[c]
      <4>1. view[c] \in [Order -> 0 .. MaxQuantity]
        BY <1>1, ClientFacts
      <4> QED BY <3>1, <4>1, NothingApplied
    <3>3. UpTo(next[c] - 1)[o] = book[o]
      <4>1. Applied(UpTo(sent), << >>) = UpTo(sent)
        BY <1>1, FeedFacts, NothingApplied
      <4>2. next[c] - 1 = sent
        BY <3>1
      <4> QED BY <1>1, <3>1, <4>1, <4>2 DEF FeedInv, WriterInv
    <3>4. ~Awaits(c, o)
      <4>1. next[c] .. Len(log) = {} /\ DOMAIN pending = {}
        BY <3>1
      <4> QED BY <4>1 DEF Awaits
    <3>5. SnapshotInv(c)
      BY <2>1 DEF ClientInv
    <3> QED BY <3>2, <3>3, <3>4, <3>5 DEF SnapshotInv
  <2>5. ReplayIsComplete
    <3> SUFFICES ASSUME NEW c \in Client, sub[c].kind = "grpc_replay", status[c] # "off",
                        todo[c] = << >>, ~lagged[c],
                        NEW i \in since[c].first .. next[c] - 1, Wants(c, Numbered(i))
                 PROVE  \E j \in DOMAIN got[c] : got[c][j] = i
      BY DEF ReplayIsComplete
    <3>1. Handed(c) = next[c] - 1
      <4>1. Len(todo[c]) = 0 /\ next[c] \in Nat
        BY <1>1, ClientFacts, EmptySeq
      <4> QED BY <4>1 DEF Handed
    <3>2. CoverInv(c)
      BY <2>1 DEF ClientInv
    <3> QED BY <3>1, <3>2 DEF CoverInv
  <2> QED BY <2>2, <2>3, <2>4, <2>5 DEF FeedConsistent
<1> QED BY <1>1, FeedInvariant, PTL
=============================================================================
