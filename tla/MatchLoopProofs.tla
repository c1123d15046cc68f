-------------------------- MODULE MatchLoopProofs --------------------------
(***************************************************************************)
(* The matcher of the code is the one of the exchange: its loop over the   *)
(* queues of several books implements the price-time sweep, for any books, *)
(* areas, orders and quantities.  First the book as a data structure, then *)
(* what its queues say of priority, then the loop.                         *)
(***************************************************************************)
EXTENDS MatchLoop, MatchingProofs, SequenceTheorems, WellFoundedInduction

-----------------------------------------------------------------------------
(* Some numbers have a least one. *)
LEMMA LeastNat ==
  ASSUME NEW S, S \subseteq Nat, S # {}
  PROVE  \E n \in S : \A m \in S : n <= m
<1>1. PICK n \in S : \A m \in S : <<m, n>> \notin OpToRel(<, Nat)
  BY NatLessThanWellFounded, WFMin
<1>2. \A m \in S : ~(m < n)
  BY <1>1 DEF OpToRel
<1> QED BY <1>2

-----------------------------------------------------------------------------
(* Queues.  An id stands in a queue once.                                  *)
Item == [id : Id, open_qty : 1 .. MaxQuantity]

Queue == { q \in Seq(Item) : \A m, n \in DOMAIN q : q[m].id = q[n].id => m = n }

(* What is known of an entry of a queue. *)
LEMMA QueueEntry ==
  ASSUME NEW q \in Queue
  PROVE  /\ q \in Seq(Item) /\ Len(q) \in Nat /\ DOMAIN q = 1 .. Len(q)
         /\ q # << >> => 1 \in DOMAIN q
         /\ \A n \in DOMAIN q :
              /\ q[n] \in Item /\ q[n].id \in Id
              /\ q[n].open_qty \in 1 .. MaxQuantity
              /\ PlaceIn(q, q[n].id) = n
<1>1. q \in Seq(Item) /\ \A m, n \in DOMAIN q : q[m].id = q[n].id => m = n
  BY DEF Queue
<1>2. Len(q) \in Nat /\ DOMAIN q = 1 .. Len(q)
  BY <1>1, LenProperties
<1>3. q # << >> => 1 \in DOMAIN q
  BY <1>1, <1>2, EmptySeq
<1>4. ASSUME NEW n \in DOMAIN q
      PROVE  /\ q[n] \in Item /\ q[n].id \in Id /\ q[n].open_qty \in 1 .. MaxQuantity
             /\ PlaceIn(q, q[n].id) = n
  <2>1. q[n] \in Item
    BY <1>1, <1>2, ElementOfSeq
  <2>2. q[n].id \in Id /\ q[n].open_qty \in 1 .. MaxQuantity
    BY <2>1 DEF Item
  <2>3. PlaceIn(q, q[n].id) = n
    BY <1>1 DEF PlaceIn
  <2> QED BY <2>1, <2>2, <2>3
<1> QED BY <1>1, <1>2, <1>3, <1>4

(* A queue to which a new id is pushed: those before it stay where they    *)
(* are.                                                                    *)
LEMMA Pushed ==
  ASSUME NEW q \in Queue, NEW x \in Item, \A n \in DOMAIN q : q[n].id # x.id
  PROVE  /\ Append(q, x) \in Queue /\ Append(q, x) # << >>
         /\ Len(Append(q, x)) = Len(q) + 1 /\ Append(q, x)[Len(q) + 1] = x
         /\ Len(q) + 1 \in DOMAIN Append(q, x)
         /\ \A n \in DOMAIN q : n \in DOMAIN Append(q, x) /\ Append(q, x)[n] = q[n]
         /\ \A n \in DOMAIN Append(q, x) : n \in DOMAIN q \/ n = Len(q) + 1
<1> DEFINE r == Append(q, x)
<1>1. q \in Seq(Item) /\ Len(q) \in Nat /\ DOMAIN q = 1 .. Len(q)
  BY QueueEntry
<1>2. /\ r \in Seq(Item) /\ r # << >> /\ Len(r) = Len(q) + 1
      /\ \A n \in 1 .. Len(q) : r[n] = q[n]
      /\ r[Len(q) + 1] = x
  BY <1>1, AppendProperties
<1> HIDE DEF r
<1>3. DOMAIN r = 1 .. Len(q) + 1
  BY <1>2, LenProperties
<1> DEFINE k == Len(q)
<1>4. /\ k + 1 \in DOMAIN r /\ \A n \in DOMAIN q : n \in DOMAIN r
      /\ \A n \in DOMAIN r : n \in DOMAIN q \/ n = k + 1
  <2> HIDE DEF k
  <2> QED BY <1>1, <1>3 DEF k
<1>5. \A m, n \in DOMAIN r : r[m].id = r[n].id => m = n
  <2>1. \A m, n \in DOMAIN q : q[m].id = q[n].id => m = n
    BY DEF Queue
  <2>2. \A n \in DOMAIN q : r[n] = q[n]
    BY <1>1, <1>2
  <2> QED BY <1>2, <1>4, <2>1, <2>2
<1>6. r \in Queue
  BY <1>2, <1>5 DEF Queue
<1> QED BY <1>1, <1>2, <1>4, <1>6 DEF r

(* Where the places of a queue without its n-th entry come from. *)
Source(n, m) == IF m < n THEN m ELSE m + 1

(* A queue without its n-th entry: the others stay in their order.         *)
LEMMA Removed ==
  ASSUME NEW q \in Queue, NEW n \in DOMAIN q
  PROVE  /\ RemoveAt(q, n) \in Queue
         /\ Len(RemoveAt(q, n)) = Len(q) - 1
         /\ \A m \in DOMAIN RemoveAt(q, n) :
              /\ m \in Nat /\ Source(n, m) \in DOMAIN q /\ Source(n, m) # n
              /\ RemoveAt(q, n)[m] = q[Source(n, m)]
         /\ \A k \in DOMAIN q : k # n => \E m \in DOMAIN RemoveAt(q, n) : k = Source(n, m)
<1> DEFINE r == RemoveAt(q, n)
           k == Len(q)
           s == SubSeq(q, 1, n - 1)
           t == SubSeq(q, n + 1, Len(q))
<1>1. /\ q \in Seq(Item) /\ k \in Nat /\ DOMAIN q = 1 .. k /\ n \in 1 .. k
      /\ \A i \in 1 .. k : q[i] \in Item
  BY QueueEntry
<1>2. s \in Seq(Item) /\ Len(s) = n - 1 /\ \A i \in 1 .. n - 1 : s[i] = q[i]
  <2> HIDE DEF k
  <2>1. \A i \in 1 .. n - 1 : q[i] \in Item
    BY <1>1
  <2>2. 1 \in Int /\ n - 1 \in Int /\ (n - 1) - 1 + 1 = n - 1 /\ \A i \in 1 .. n - 1 : 1 + i - 1 = i
    BY <1>1
  <2>3. /\ s \in Seq(Item) /\ Len(s) = IF 1 <= n - 1 THEN (n - 1) - 1 + 1 ELSE 0
        /\ \A i \in 1 .. (n - 1) - 1 + 1 : s[i] = q[1 + i - 1]
    BY <2>1, <2>2, SubSeqProperties
  <2> HIDE DEF s
  <2> QED BY <1>1, <2>2, <2>3
<1>3. t \in Seq(Item) /\ Len(t) = k - n /\ \A i \in 1 .. k - n : t[i] = q[n + i]
  <2>1. \A i \in n + 1 .. Len(q) : q[i] \in Item
    BY <1>1
  <2>2. /\ n + 1 \in Int /\ Len(q) \in Int /\ Len(q) - (n + 1) + 1 = k - n
        /\ \A i \in 1 .. k - n : (n + 1) + i - 1 = n + i
    BY <1>1
  <2> HIDE DEF k
  <2>3. /\ t \in Seq(Item) /\ Len(t) = IF n + 1 <= Len(q) THEN Len(q) - (n + 1) + 1 ELSE 0
        /\ \A i \in 1 .. Len(q) - (n + 1) + 1 : t[i] = q[(n + 1) + i - 1]
    <3> DEFINE lo == n + 1
               hi == Len(q)
    <3>1. lo \in Int /\ hi \in Int /\ \A i \in lo .. hi : q[i] \in Item
      BY <2>1, <2>2
    <3> HIDE DEF lo, hi
    <3>2. LET u == SubSeq(q, lo, hi)
          IN /\ u \in Seq(Item) /\ Len(u) = IF lo <= hi THEN hi - lo + 1 ELSE 0
             /\ \A i \in 1 .. hi - lo + 1 : u[i] = q[lo + i - 1]
      BY <3>1, SubSeqProperties
    <3> QED BY <3>2 DEF lo, hi
  <2> HIDE DEF t
  <2> QED BY <1>1, <2>2, <2>3
<1>4. r = s \o t
  BY DEF RemoveAt
<1> HIDE DEF r, s, t
<1>5. /\ r \in Seq(Item) /\ Len(r) = Len(s) + Len(t)
      /\ \A i \in 1 .. Len(s) + Len(t) : r[i] = IF i <= Len(s) THEN s[i] ELSE t[i - Len(s)]
  BY <1>2, <1>3, <1>4, ConcatProperties
<1>6. DOMAIN r = 1 .. Len(r)
  BY <1>5, LenProperties
<1> HIDE DEF k
<1>7. Len(r) = k - 1 /\ DOMAIN r = 1 .. k - 1
  BY <1>1, <1>2, <1>3, <1>5, <1>6
<1> DEFINE front == n - 1
<1>8. \A i \in 1 .. k - 1 : r[i] = IF i <= front THEN s[i] ELSE t[i - front]
  <2>1. Len(s) = front /\ Len(s) + Len(t) = k - 1
    BY <1>1, <1>2, <1>3
  <2> HIDE DEF front
  <2> QED BY <1>5, <2>1
<1>9. ASSUME NEW m \in DOMAIN r
      PROVE  /\ m \in Nat /\ Source(n, m) \in DOMAIN q /\ Source(n, m) # n
             /\ r[m] = q[Source(n, m)]
  <2>1. m \in 1 .. k - 1
    BY <1>7
  <2>2. m \in Nat /\ Source(n, m) \in DOMAIN q /\ Source(n, m) # n
    BY <1>1, <2>1 DEF Source
  <2>3. CASE m < n
    <3>1. m <= front /\ m \in 1 .. n - 1 /\ Source(n, m) = m
      BY <1>1, <2>1, <2>3 DEF Source
    <3> HIDE DEF front
    <3> QED BY <1>2, <1>8, <2>1, <2>2, <3>1
  <2>4. CASE ~(m < n)
    <3>1. r[m] = t[m - (n - 1)] /\ m - (n - 1) \in 1 .. k - n
      <4>1. ~(m <= front) /\ m - (n - 1) \in 1 .. k - n
        BY <1>1, <2>1, <2>4
      <4> QED BY <1>8, <2>1, <4>1
    <3>2. r[m] = q[n + (m - (n - 1))] /\ n + (m - (n - 1)) = m + 1
      BY <1>1, <1>3, <2>1, <3>1
    <3> QED BY <2>2, <2>4, <3>1, <3>2 DEF Source
  <2>5. m < n \/ ~(m < n)
    OBVIOUS
  <2> QED BY <2>2, <2>3, <2>4, <2>5
<1>10. ASSUME NEW i \in DOMAIN q, i # n PROVE \E m \in DOMAIN r : i = Source(n, m)
  <2>1. CASE i < n
    <3>1. i \in DOMAIN r /\ Source(n, i) = i
      BY <1>1, <1>7, <2>1 DEF Source
    <3> QED BY <3>1
  <2>2. CASE i > n
    <3>1. i - 1 \in DOMAIN r /\ Source(n, i - 1) = i
      BY <1>1, <1>7, <2>2 DEF Source
    <3> QED BY <3>1
  <2>3. i < n \/ i > n
    BY <1>1, <1>10
  <2> QED BY <2>1, <2>2, <2>3
<1>11. \A l, m \in DOMAIN r : r[l].id = r[m].id => l = m
  <2> SUFFICES ASSUME NEW l \in DOMAIN r, NEW m \in DOMAIN r, r[l].id = r[m].id PROVE l = m
    OBVIOUS
  <2>1. Source(n, l) = Source(n, m)
    BY <1>9 DEF Queue
  <2>2. l \in Nat /\ m \in Nat /\ n \in Nat
    BY <1>1, <1>9
  <2> QED BY <2>1, <2>2 DEF Source
<1>12. r \in Queue
  BY <1>5, <1>11 DEF Queue
<1> QED BY <1>7, <1>9, <1>10, <1>12 DEF r, k

(* Of two places without the n-th the order is that of their sources.      *)
LEMMA SourceOrder ==
  ASSUME NEW n \in Nat, NEW l \in Nat, NEW m \in Nat
  PROVE  l < m <=> Source(n, l) < Source(n, m)
BY DEF Source

(* Taking off the head is removing the first.                              *)
LEMMA TailRemoves ==
  ASSUME NEW q \in Queue, q # << >>
  PROVE  Tail(q) = RemoveAt(q, 1) /\ Head(q) = q[1]
<1>1. q \in Seq(Item) /\ 1 \in Int /\ 0 \in Int /\ 0 < 1
  BY QueueEntry
<1>2. SubSeq(q, 1, 0) = << >>
  BY <1>1, SubSeqEmpty
<1>3. Tail(q) = SubSeq(q, 2, Len(q)) /\ Tail(q) \in Seq(Item)
  BY <1>1, TailIsSubSeq, HeadTailProperties
<1>4. << >> \o Tail(q) = Tail(q)
  BY <1>3, ConcatEmptySeq
<1>5. RemoveAt(q, 1) = SubSeq(q, 1, 0) \o SubSeq(q, 2, Len(q))
  BY DEF RemoveAt
<1>6. Head(q) = q[1]
  BY <1>1
<1> QED BY <1>2, <1>3, <1>4, <1>5, <1>6

(* A head that gives a part of what it offers stays the head.              *)
LEMMA HeadReduced ==
  ASSUME NEW q \in Queue, q # << >>, NEW x \in 1 .. MaxQuantity
  PROVE  LET r == <<[Head(q) EXCEPT !.open_qty = x]>> \o Tail(q)
         IN /\ r \in Queue /\ r # << >> /\ DOMAIN r = DOMAIN q
            /\ r[1] = [q[1] EXCEPT !.open_qty = x]
            /\ \A n \in DOMAIN q : n # 1 => r[n] = q[n]
            /\ \A n \in DOMAIN q : r[n].id = q[n].id
<1> DEFINE h == [Head(q) EXCEPT !.open_qty = x]
           r == <<h>> \o Tail(q)
<1>1. /\ q \in Seq(Item) /\ Len(q) \in Nat /\ DOMAIN q = 1 .. Len(q) /\ 1 \in DOMAIN q
      /\ Head(q) = q[1] /\ q[1] \in Item
  BY QueueEntry, TailRemoves
<1>2. h \in Item /\ h.id = q[1].id /\ h = [q[1] EXCEPT !.open_qty = x]
  BY <1>1 DEF Item
<1>3. /\ Tail(q) \in Seq(Item) /\ Len(Tail(q)) = Len(q) - 1
      /\ \A i \in 1 .. Len(q) - 1 : Tail(q)[i] = q[i + 1]
  BY <1>1, HeadTailProperties
<1> HIDE DEF h
<1>4. <<h>> \in Seq(Item) /\ Len(<<h>>) = 1 /\ <<h>>[1] = h
  BY <1>2
<1>5. /\ r \in Seq(Item) /\ Len(r) = 1 + Len(Tail(q))
      /\ \A i \in 1 .. 1 + Len(Tail(q)) : r[i] = IF i <= 1 THEN <<h>>[i] ELSE Tail(q)[i - 1]
  BY <1>3, <1>4, ConcatProperties
<1> HIDE DEF r
<1> DEFINE k == Len(q)
<1>6. DOMAIN r = 1 .. Len(r) /\ Len(r) = k /\ Len(Tail(q)) = k - 1 /\ k \in Nat
  BY <1>1, <1>3, <1>5, LenProperties
<1>7. r[1] = h
  BY <1>1, <1>4, <1>5, <1>6
<1>8. ASSUME NEW n \in DOMAIN q, n # 1 PROVE r[n] = q[n]
  <2>1. n \in 1 .. k /\ DOMAIN q = 1 .. k
    BY <1>1
  <2> HIDE DEF k
  <2>2. n \in 1 .. 1 + (k - 1) /\ ~(n <= 1) /\ n - 1 \in 1 .. k - 1 /\ (n - 1) + 1 = n
    BY <1>6, <1>8, <2>1
  <2>3. r[n] = Tail(q)[n - 1]
    BY <1>5, <1>6, <2>2
  <2>4. Tail(q)[n - 1] = q[(n - 1) + 1]
    BY <1>3, <2>2 DEF k
  <2> QED BY <2>2, <2>3, <2>4
<1>9. \A n \in DOMAIN q : r[n].id = q[n].id
  BY <1>2, <1>7, <1>8
<1>10. DOMAIN r = DOMAIN q /\ r # << >>
  BY <1>1, <1>6
<1>11. r \in Queue
  BY <1>5, <1>9, <1>10 DEF Queue
<1> QED BY <1>2, <1>7, <1>8, <1>9, <1>10, <1>11 DEF r, h

-----------------------------------------------------------------------------
(* One book.  The queue at a price, empty where there is no level.         *)
Level(b, s, p) == LevelAt(b.levels[s], p)

(* What a book is made of. *)
Shaped(b) ==
  /\ b = [levels |-> b.levels, by_id |-> b.by_id]
  /\ b.levels = [s \in Side |-> b.levels[s]]
  /\ \A s \in Side : /\ b.levels[s] = [p \in DOMAIN b.levels[s] |-> b.levels[s][p]]
                     /\ IsFiniteSet(DOMAIN b.levels[s])
                     /\ DOMAIN b.levels[s] \subseteq Int
                     /\ \A p \in DOMAIN b.levels[s] : /\ b.levels[s][p] # << >>
                                                      /\ b.levels[s][p] \in Queue
  /\ b.by_id = [i \in DOMAIN b.by_id |-> b.by_id[i]]
  /\ IsFiniteSet(DOMAIN b.by_id)
  /\ DOMAIN b.by_id \subseteq Id

(* The index and the queues say the same. *)
Indexed(b) ==
  /\ \A i \in DOMAIN b.by_id : \E s \in Side : \E p \in DOMAIN b.levels[s] :
       /\ b.by_id[i] = <<s, p>>
       /\ \E n \in DOMAIN b.levels[s][p] : b.levels[s][p][n].id = i
  /\ \A s \in Side : \A p \in DOMAIN b.levels[s] :
       \A n \in DOMAIN b.levels[s][p] :
         /\ b.levels[s][p][n].id \in DOMAIN b.by_id
         /\ b.by_id[b.levels[s][p][n].id] = <<s, p>>

Whole(b) == Shaped(b) /\ Indexed(b)

(* The empty queue is a queue. *)
LEMMA NoQueue ==
  << >> \in Queue /\ DOMAIN << >> = {} /\ Len(<< >>) = 0
<1>1. << >> \in Seq(Item) /\ Len(<< >>) = 0
  BY EmptySeq
<1>2. DOMAIN << >> = {}
  BY <1>1, LenProperties
<1> QED BY <1>1, <1>2 DEF Queue

(* A level's queue, wherever one looks. *)
LEMMA LevelQueue ==
  ASSUME NEW b, Whole(b), NEW s \in Side, NEW p
  PROVE  /\ Level(b, s, p) \in Queue
         /\ p \in DOMAIN b.levels[s] <=> Level(b, s, p) # << >>
         /\ p \in DOMAIN b.levels[s] => Level(b, s, p) = b.levels[s][p] /\ p \in Int
         /\ \A n \in DOMAIN Level(b, s, p) :
              /\ Level(b, s, p)[n].id \in DOMAIN b.by_id
              /\ b.by_id[Level(b, s, p)[n].id] = <<s, p>>
              /\ p \in DOMAIN b.levels[s]
<1>1. CASE p \in DOMAIN b.levels[s]
  <2>1. Level(b, s, p) = b.levels[s][p]
    BY <1>1 DEF Level, LevelAt
  <2>2. b.levels[s][p] \in Queue /\ b.levels[s][p] # << >> /\ p \in Int
    BY <1>1 DEF Whole, Shaped
  <2>3. \A n \in DOMAIN b.levels[s][p] :
              /\ b.levels[s][p][n].id \in DOMAIN b.by_id
              /\ b.by_id[b.levels[s][p][n].id] = <<s, p>>
    BY <1>1 DEF Whole, Indexed
  <2> QED BY <1>1, <2>1, <2>2, <2>3
<1>2. CASE p \notin DOMAIN b.levels[s]
  <2>1. Level(b, s, p) = << >>
    BY <1>2 DEF Level, LevelAt
  <2> QED BY <1>2, <2>1, NoQueue
<1> QED BY <1>1, <1>2

(* Where an id of the index stands. *)
LEMMA IndexPlace ==
  ASSUME NEW b, Whole(b), NEW i \in DOMAIN b.by_id
  PROVE  \E s \in Side, p \in Int :
           /\ b.by_id[i] = <<s, p>> /\ p \in DOMAIN b.levels[s]
           /\ QueueOf(b, i) = Level(b, s, p) /\ Level(b, s, p) \in Queue
           /\ PlaceOf(b, i) \in DOMAIN Level(b, s, p)
           /\ Level(b, s, p)[PlaceOf(b, i)].id = i
           /\ OpenOf(b, i) = Level(b, s, p)[PlaceOf(b, i)].open_qty
           /\ OpenOf(b, i) \in 1 .. MaxQuantity
           /\ PlaceOf(b, i) \in Nat
<1>0. PICK s \in Side : \E p \in DOMAIN b.levels[s] :
         /\ b.by_id[i] = <<s, p>>
         /\ \E n \in DOMAIN b.levels[s][p] : b.levels[s][p][n].id = i
  BY DEF Whole, Indexed
<1>1. PICK p \in DOMAIN b.levels[s] :
         /\ b.by_id[i] = <<s, p>>
         /\ \E n \in DOMAIN b.levels[s][p] : b.levels[s][p][n].id = i
  BY <1>0
<1>2. PICK n \in DOMAIN b.levels[s][p] : b.levels[s][p][n].id = i
  BY <1>1
<1>3. Level(b, s, p) = b.levels[s][p] /\ Level(b, s, p) \in Queue /\ p \in Int
  BY <1>1, LevelQueue
<1>4. QueueOf(b, i) = Level(b, s, p)
  BY <1>1, <1>3 DEF QueueOf
<1>5. PlaceIn(Level(b, s, p), i) = n
  BY <1>2, <1>3, QueueEntry
<1>6. PlaceOf(b, i) = n
  BY <1>4, <1>5 DEF PlaceOf
<1>7. OpenOf(b, i) = Level(b, s, p)[n].open_qty
  BY <1>4, <1>6 DEF OpenOf
<1>8. Level(b, s, p)[n].open_qty \in 1 .. MaxQuantity /\ n \in Nat
  BY <1>2, <1>3, QueueEntry
<1> QED BY <1>1, <1>2, <1>3, <1>4, <1>6, <1>7, <1>8

(* What stands at a place. *)
LEMMA PlaceIndex ==
  ASSUME NEW b, Whole(b), NEW s \in Side, NEW p, NEW n \in DOMAIN Level(b, s, p)
  PROVE  LET i == Level(b, s, p)[n].id
         IN /\ i \in DOMAIN b.by_id /\ b.by_id[i] = <<s, p>>
            /\ QueueOf(b, i) = Level(b, s, p) /\ PlaceOf(b, i) = n
            /\ OpenOf(b, i) = Level(b, s, p)[n].open_qty
<1> DEFINE i == Level(b, s, p)[n].id
<1>1. /\ Level(b, s, p) \in Queue
      /\ i \in DOMAIN b.by_id /\ b.by_id[i] = <<s, p>> /\ p \in DOMAIN b.levels[s]
  BY LevelQueue
<1>2. QueueOf(b, i) = Level(b, s, p)
  <2>1. Level(b, s, p) = b.levels[s][p]
    BY <1>1, LevelQueue
  <2> HIDE DEF i
  <2> QED BY <1>1, <2>1 DEF QueueOf
<1>3. PlaceIn(Level(b, s, p), i) = n
  BY <1>1, QueueEntry
<1> HIDE DEF i
<1>4. PlaceOf(b, i) = n
  BY <1>2, <1>3 DEF PlaceOf
<1>5. OpenOf(b, i) = Level(b, s, p)[n].open_qty
  BY <1>2, <1>4 DEF OpenOf
<1> QED BY <1>1, <1>2, <1>4, <1>5 DEF i

(* A book with one queue replaced, and a new index. *)
Replaced(b, s, p, q, ids) ==
  [levels |-> [b.levels EXCEPT ![s] = SetLevel(b.levels[s], p, q)], by_id |-> ids]

(* What it takes to have that shape. *)
LEMMA ShapeParts ==
  ASSUME NEW c, c = [levels |-> c.levels, by_id |-> c.by_id],
         c.levels = [r \in Side |-> c.levels[r]],
         \A r \in Side : /\ c.levels[r] = [o \in DOMAIN c.levels[r] |-> c.levels[r][o]]
                         /\ IsFiniteSet(DOMAIN c.levels[r])
                         /\ DOMAIN c.levels[r] \subseteq Int
                         /\ \A o \in DOMAIN c.levels[r] : /\ c.levels[r][o] # << >>
                                                          /\ c.levels[r][o] \in Queue,
         c.by_id = [i \in DOMAIN c.by_id |-> c.by_id[i]],
         IsFiniteSet(DOMAIN c.by_id), DOMAIN c.by_id \subseteq Id
  PROVE  Shaped(c)
BY DEF Shaped

(* Only that queue changes, and the book keeps its shape.                  *)
LEMMA ReplacedShape ==
  ASSUME NEW b, Shaped(b), NEW s \in Side, NEW p \in Int, NEW q \in Queue, NEW ids,
         ids = [i \in DOMAIN ids |-> ids[i]], IsFiniteSet(DOMAIN ids), DOMAIN ids \subseteq Id
  PROVE  LET c == Replaced(b, s, p, q, ids)
         IN /\ Shaped(c) /\ c.by_id = ids
            /\ Level(c, s, p) = q
            /\ \A r \in Side : \A o : <<r, o>> # <<s, p>> => Level(c, r, o) = Level(b, r, o)
<1> DEFINE c == Replaced(b, s, p, q, ids)
           old == b.levels[s]
           new == SetLevel(old, p, q)
<1>1. /\ c = [levels |-> c.levels, by_id |-> c.by_id] /\ c.by_id = ids
      /\ c.levels = [b.levels EXCEPT ![s] = new]
  BY DEF Replaced
<1>2. b.levels = [r \in Side |-> b.levels[r]]
  BY DEF Shaped
<1> HIDE DEF c, new
<1>3. c.levels = [r \in Side |-> c.levels[r]] /\ c.levels[s] = new
      /\ \A r \in Side : r # s => c.levels[r] = b.levels[r]
  BY <1>1, <1>2
<1>4. /\ old = [o \in DOMAIN old |-> old[o]] /\ IsFiniteSet(DOMAIN old)
      /\ DOMAIN old \subseteq Int
      /\ \A o \in DOMAIN old : old[o] # << >> /\ old[o] \in Queue
  BY DEF Shaped
<1> HIDE DEF old
<1>7. /\ new = [o \in DOMAIN new |-> new[o]] /\ IsFiniteSet(DOMAIN new)
      /\ DOMAIN new \subseteq Int
      /\ \A o \in DOMAIN new : new[o] # << >> /\ new[o] \in Queue
      /\ LevelAt(new, p) = q
      /\ \A o : o # p => LevelAt(new, o) = LevelAt(old, o)
  <2>1. CASE q = << >>
    <3>1. new = [o \in DOMAIN old \ {p} |-> old[o]]
      BY <2>1 DEF new, SetLevel, Without
    <3>2. DOMAIN new = DOMAIN old \ {p} /\ \A o \in DOMAIN new : new[o] = old[o]
      BY <3>1
    <3>3. IsFiniteSet(DOMAIN new)
      <4>1. IsFiniteSet(DOMAIN old \ {p})
        BY <1>4, FS_RemoveElement
      <4> QED BY <3>2, <4>1
    <3>4. new = [o \in DOMAIN new |-> new[o]]
      BY <3>1
    <3>5. LevelAt(new, p) = q /\ \A o : o # p => LevelAt(new, o) = LevelAt(old, o)
      BY <2>1, <3>2 DEF LevelAt
    <3> QED BY <1>4, <3>2, <3>3, <3>4, <3>5
  <2>2. CASE q # << >>
    <3>1. new = [o \in DOMAIN old \cup {p} |-> IF o = p THEN q ELSE old[o]]
      BY <2>2 DEF new, SetLevel, WithEntry
    <3>2. /\ DOMAIN new = DOMAIN old \cup {p} /\ new[p] = q
          /\ \A o \in DOMAIN old : o # p => new[o] = old[o]
      BY <3>1
    <3>3. IsFiniteSet(DOMAIN new)
      <4>1. IsFiniteSet(DOMAIN old \cup {p})
        BY <1>4, FS_AddElement
      <4> QED BY <3>2, <4>1
    <3>4. new = [o \in DOMAIN new |-> new[o]]
      BY <3>1
    <3>5. LevelAt(new, p) = q /\ \A o : o # p => LevelAt(new, o) = LevelAt(old, o)
      BY <3>2 DEF LevelAt
    <3> QED BY <1>4, <2>2, <3>2, <3>3, <3>4, <3>5
  <2> QED BY <2>1, <2>2
<1>8. Level(c, s, p) = q
  BY <1>3, <1>7 DEF Level
<1>9. ASSUME NEW r \in Side, NEW o, <<r, o>> # <<s, p>>
      PROVE  Level(c, r, o) = Level(b, r, o)
  <2>1. CASE r = s
    BY <1>3, <1>7, <1>9, <2>1 DEF Level, old
  <2>2. CASE r # s
    BY <1>3, <2>2 DEF Level
  <2> QED BY <2>1, <2>2
<1>10. Shaped(c)
  <2>1. ASSUME NEW r \in Side
        PROVE  /\ c.levels[r] = [o \in DOMAIN c.levels[r] |-> c.levels[r][o]]
               /\ IsFiniteSet(DOMAIN c.levels[r])
               /\ DOMAIN c.levels[r] \subseteq Int
               /\ \A o \in DOMAIN c.levels[r] : /\ c.levels[r][o] # << >>
                                                /\ c.levels[r][o] \in Queue
    <3>1. CASE r = s
      BY <1>3, <1>7, <3>1
    <3>2. CASE r # s
      BY <1>3, <3>2 DEF Shaped
    <3> QED BY <3>1, <3>2
  <2>2. /\ c.by_id = [i \in DOMAIN c.by_id |-> c.by_id[i]]
        /\ IsFiniteSet(DOMAIN c.by_id) /\ DOMAIN c.by_id \subseteq Id
    BY <1>1
  <2> QED BY <1>1, <1>3, <2>1, <2>2, ShapeParts
<1> QED BY <1>1, <1>8, <1>9, <1>10 DEF c

(* The index and the queues of a book, level by level. *)
LEMMA WholeByLevel ==
  ASSUME NEW c, Shaped(c),
         \A i \in DOMAIN c.by_id : \E s \in Side, p \in Int :
           c.by_id[i] = <<s, p>> /\ \E n \in DOMAIN Level(c, s, p) : Level(c, s, p)[n].id = i,
         \A s \in Side, p \in Int : \A n \in DOMAIN Level(c, s, p) :
           /\ Level(c, s, p)[n].id \in DOMAIN c.by_id
           /\ c.by_id[Level(c, s, p)[n].id] = <<s, p>>
  PROVE  Whole(c)
<1>1. ASSUME NEW s \in Side, NEW p
      PROVE  /\ p \in DOMAIN c.levels[s] => Level(c, s, p) = c.levels[s][p] /\ p \in Int
             /\ \A n \in DOMAIN Level(c, s, p) : p \in DOMAIN c.levels[s]
  BY NoQueue DEF Level, LevelAt, Shaped
<1>2. ASSUME NEW i \in DOMAIN c.by_id
      PROVE  \E s \in Side : \E p \in DOMAIN c.levels[s] :
               /\ c.by_id[i] = <<s, p>>
               /\ \E n \in DOMAIN c.levels[s][p] : c.levels[s][p][n].id = i
  <2>1. PICK s \in Side, p \in Int :
          c.by_id[i] = <<s, p>> /\ \E n \in DOMAIN Level(c, s, p) : Level(c, s, p)[n].id = i
    OBVIOUS
  <2>2. p \in DOMAIN c.levels[s] /\ Level(c, s, p) = c.levels[s][p]
    BY <1>1, <2>1
  <2> QED BY <2>1, <2>2
<1>3. ASSUME NEW s \in Side, NEW p \in DOMAIN c.levels[s], NEW n \in DOMAIN c.levels[s][p]
      PROVE  /\ c.levels[s][p][n].id \in DOMAIN c.by_id
             /\ c.by_id[c.levels[s][p][n].id] = <<s, p>>
  <2>1. Level(c, s, p) = c.levels[s][p] /\ p \in Int
    BY <1>1
  <2>2. n \in DOMAIN Level(c, s, p)
    BY <2>1
  <2>3. /\ Level(c, s, p)[n].id \in DOMAIN c.by_id
        /\ c.by_id[Level(c, s, p)[n].id] = <<s, p>>
    BY <2>1, <2>2, Zenon
  <2> QED BY <2>1, <2>3
<1> QED BY <1>2, <1>3 DEF Whole, Indexed

(* The orders J of book b are on book c as they were. *)
Kept(b, c, J) ==
  /\ J \subseteq DOMAIN b.by_id /\ J \subseteq DOMAIN c.by_id
  /\ \A i \in J : c.by_id[i] = b.by_id[i] /\ OpenOf(c, i) = OpenOf(b, i)
  /\ \A i, j \in J : StandsBefore(c, i, j) <=> StandsBefore(b, i, j)

(* An order pushed on a book goes to the tail of its level. *)
LEMMA InsertBook ==
  ASSUME NEW b, Whole(b), NEW s \in Side, NEW p \in Int, NEW x \in Item,
         x.id \notin DOMAIN b.by_id
  PROVE  LET c == Insert(b, s, p, x)
         IN /\ Whole(c) /\ DOMAIN c.by_id = DOMAIN b.by_id \cup {x.id}
            /\ c.by_id[x.id] = <<s, p>> /\ OpenOf(c, x.id) = x.open_qty
            /\ Kept(b, c, DOMAIN b.by_id)
            /\ \A j \in DOMAIN b.by_id : StandsBefore(c, j, x.id) <=> b.by_id[j] = <<s, p>>
            /\ \A j \in DOMAIN c.by_id : ~StandsBefore(c, x.id, j)
<1> DEFINE c == Insert(b, s, p, x)
           l == Level(b, s, p)
           q == Append(l, x)
           ids == WithEntry(b.by_id, x.id, <<s, p>>)
           m == Len(l) + 1
<1>1. Shaped(b) /\ l \in Queue /\ x.id \in Id
  BY LevelQueue DEF Whole, Item
<1>2. c = Replaced(b, s, p, q, ids)
  <2>1. b = [levels |-> b.levels, by_id |-> b.by_id]
    BY <1>1 DEF Shaped
  <2>2. c = [b EXCEPT !.levels = [b.levels EXCEPT ![s] = SetLevel(b.levels[s], p, q)],
                      !.by_id = ids]
    BY DEF Insert, Level
  <2> HIDE DEF c, q, ids
  <2> QED BY <2>1, <2>2 DEF Replaced
<1>3. /\ ids = [i \in DOMAIN ids |-> ids[i]] /\ DOMAIN ids = DOMAIN b.by_id \cup {x.id}
      /\ ids[x.id] = <<s, p>> /\ \A i \in DOMAIN b.by_id : ids[i] = b.by_id[i]
  BY DEF WithEntry
<1>4. IsFiniteSet(DOMAIN ids) /\ DOMAIN ids \subseteq Id
  <2>1. IsFiniteSet(DOMAIN b.by_id) /\ DOMAIN b.by_id \subseteq Id
    BY <1>1 DEF Shaped
  <2>2. IsFiniteSet(DOMAIN b.by_id \cup {x.id})
    BY <2>1, FS_AddElement
  <2> HIDE DEF ids
  <2> QED BY <1>1, <1>3, <2>1, <2>2
<1>5. \A n \in DOMAIN l : l[n].id # x.id
  BY LevelQueue
<1> HIDE DEF c, l, ids
<1>6. /\ q \in Queue /\ q[m] = x /\ m \in DOMAIN q
      /\ \A n \in DOMAIN l : n \in DOMAIN q /\ q[n] = l[n]
      /\ \A n \in DOMAIN q : n \in DOMAIN l \/ n = m
  BY <1>1, <1>5, Pushed
<1>7. DOMAIN l = 1 .. Len(l) /\ Len(l) \in Nat
  BY <1>1, QueueEntry
<1>8. \A n \in DOMAIN l : n < m
  BY <1>7
<1> HIDE DEF q, m
<1>9. /\ Shaped(c) /\ c.by_id = ids /\ Level(c, s, p) = q
      /\ \A r \in Side : \A o : <<r, o>> # <<s, p>> => Level(c, r, o) = Level(b, r, o)
  BY <1>1, <1>2, <1>3, <1>4, <1>6, ReplacedShape
<1>10. ASSUME NEW r \in Side, NEW o, NEW n \in DOMAIN Level(b, r, o)
       PROVE  n \in DOMAIN Level(c, r, o) /\ Level(c, r, o)[n] = Level(b, r, o)[n]
  <2>1. CASE <<r, o>> = <<s, p>>
    BY <1>6, <1>9, <2>1 DEF l
  <2>2. CASE <<r, o>> # <<s, p>>
    BY <1>9, <2>2
  <2> QED BY <2>1, <2>2
<1>11. Whole(c)
  <2>1. ASSUME NEW i \in DOMAIN c.by_id
        PROVE  \E r \in Side, o \in Int :
                 c.by_id[i] = <<r, o>> /\ \E n \in DOMAIN Level(c, r, o) : Level(c, r, o)[n].id = i
    <3>1. CASE i = x.id
      BY <1>3, <1>6, <1>9, <3>1
    <3>2. CASE i # x.id
      <4>1. i \in DOMAIN b.by_id /\ c.by_id[i] = b.by_id[i]
        BY <1>3, <1>9, <3>2
      <4>2. PICK r \in Side, o \in Int :
              /\ b.by_id[i] = <<r, o>>
              /\ PlaceOf(b, i) \in DOMAIN Level(b, r, o) /\ Level(b, r, o)[PlaceOf(b, i)].id = i
        BY <4>1, IndexPlace
      <4> QED BY <1>10, <4>1, <4>2
    <3> QED BY <3>1, <3>2
  <2>2. ASSUME NEW r \in Side, NEW o \in Int, NEW n \in DOMAIN Level(c, r, o)
        PROVE  /\ Level(c, r, o)[n].id \in DOMAIN c.by_id
               /\ c.by_id[Level(c, r, o)[n].id] = <<r, o>>
    <3>1. CASE n \in DOMAIN Level(b, r, o)
      <4>1. Level(c, r, o)[n] = Level(b, r, o)[n]
        BY <1>10, <3>1
      <4>2. /\ Level(b, r, o)[n].id \in DOMAIN b.by_id
            /\ b.by_id[Level(b, r, o)[n].id] = <<r, o>>
        BY <3>1, LevelQueue
      <4> QED BY <1>3, <1>9, <4>1, <4>2
    <3>2. CASE n \notin DOMAIN Level(b, r, o)
      <4>1. <<r, o>> = <<s, p>>
        BY <1>9, <2>2, <3>2
      <4>2. n = m /\ Level(c, r, o)[n] = x
        BY <1>6, <1>9, <2>2, <3>2, <4>1 DEF l
      <4> QED BY <1>3, <1>9, <4>1, <4>2
    <3> QED BY <3>1, <3>2
  <2> QED BY <1>9, <2>1, <2>2, WholeByLevel
<1>12. /\ x.id \in DOMAIN c.by_id /\ c.by_id[x.id] = <<s, p>>
       /\ PlaceOf(c, x.id) = m /\ OpenOf(c, x.id) = x.open_qty
  <2>1. m \in DOMAIN Level(c, s, p) /\ Level(c, s, p)[m] = x
    BY <1>6, <1>9
  <2> QED BY <1>11, <2>1, PlaceIndex
<1>13. ASSUME NEW i \in DOMAIN b.by_id
       PROVE  /\ i \in DOMAIN c.by_id /\ c.by_id[i] = b.by_id[i]
              /\ PlaceOf(c, i) = PlaceOf(b, i) /\ OpenOf(c, i) = OpenOf(b, i)
              /\ PlaceOf(b, i) \in Nat
              /\ b.by_id[i] = <<s, p>> => PlaceOf(b, i) < m
  <2>1. PICK r \in Side, o \in Int :
              /\ b.by_id[i] = <<r, o>> /\ PlaceOf(b, i) \in Nat
              /\ PlaceOf(b, i) \in DOMAIN Level(b, r, o) /\ Level(b, r, o)[PlaceOf(b, i)].id = i
              /\ OpenOf(b, i) = Level(b, r, o)[PlaceOf(b, i)].open_qty
    BY IndexPlace
  <2> DEFINE n == PlaceOf(b, i)
  <2>2. n \in DOMAIN Level(c, r, o) /\ Level(c, r, o)[n] = Level(b, r, o)[n]
    BY <1>10, <2>1
  <2>3. /\ PlaceOf(c, i) = n /\ OpenOf(c, i) = Level(c, r, o)[n].open_qty
        /\ i \in DOMAIN c.by_id
    BY <1>11, <2>1, <2>2, PlaceIndex
  <2>4. b.by_id[i] = <<s, p>> => n < m
    BY <1>8, <2>1 DEF l
  <2> QED BY <1>3, <1>9, <2>1, <2>2, <2>3, <2>4
<1>14. m \in Nat
  BY <1>7 DEF m
<1>15. Kept(b, c, DOMAIN b.by_id)
  BY <1>13 DEF Kept, StandsBefore
<1>16. \A j \in DOMAIN b.by_id : StandsBefore(c, j, x.id) <=> b.by_id[j] = <<s, p>>
  BY <1>12, <1>13 DEF StandsBefore
<1>17. \A j \in DOMAIN c.by_id : ~StandsBefore(c, x.id, j)
  <2>1. \A j \in DOMAIN c.by_id : j \in DOMAIN b.by_id \/ j = x.id
    BY <1>3, <1>9
  <2> QED BY <1>12, <1>13, <1>14, <2>1 DEF StandsBefore
<1> QED BY <1>3, <1>9, <1>11, <1>12, <1>15, <1>16, <1>17 DEF c

(* An order taken off a book leaves the others as they were.               *)
LEMMA CancelBook ==
  ASSUME NEW b, Whole(b), NEW x \in DOMAIN b.by_id
  PROVE  LET c == Cancel(b, x)
         IN /\ Whole(c) /\ DOMAIN c.by_id = DOMAIN b.by_id \ {x}
            /\ Kept(b, c, DOMAIN b.by_id \ {x})
<1> DEFINE c == Cancel(b, x)
           k == PlaceOf(b, x)
<1>1. PICK s \in Side, p \in Int :
           /\ b.by_id[x] = <<s, p>> /\ p \in DOMAIN b.levels[s]
           /\ QueueOf(b, x) = Level(b, s, p) /\ Level(b, s, p) \in Queue
           /\ k \in DOMAIN Level(b, s, p)
           /\ Level(b, s, p)[k].id = x /\ k \in Nat
  BY IndexPlace
<1> DEFINE l == Level(b, s, p)
           q == RemoveAt(l, k)
           ids == Without(b.by_id, {x})
<1>2. Shaped(b) /\ l \in Queue
  BY <1>1 DEF Whole
<1>3. c = Replaced(b, s, p, q, ids)
  <2>1. b = [levels |-> b.levels, by_id |-> b.by_id]
    BY <1>2 DEF Shaped
  <2>2. b.levels[s][p] = l /\ PlaceIn(l, x) = k
    BY <1>1, LevelQueue DEF PlaceOf
  <2>3. b.by_id[x][1] = s /\ b.by_id[x][2] = p
    BY <1>1
  <2> HIDE DEF l, k
  <2>4. c = [b EXCEPT !.levels = [b.levels EXCEPT ![s] = SetLevel(b.levels[s], p, q)],
                      !.by_id = ids]
    BY <2>2, <2>3 DEF Cancel
  <2> HIDE DEF c, q, ids
  <2> QED BY <2>1, <2>4 DEF Replaced
<1>4. /\ ids = [i \in DOMAIN ids |-> ids[i]] /\ DOMAIN ids = DOMAIN b.by_id \ {x}
      /\ \A i \in DOMAIN ids : ids[i] = b.by_id[i]
  BY DEF Without
<1>5. IsFiniteSet(DOMAIN ids) /\ DOMAIN ids \subseteq Id
  <2>1. IsFiniteSet(DOMAIN b.by_id) /\ DOMAIN b.by_id \subseteq Id
    BY <1>2 DEF Shaped
  <2>2. IsFiniteSet(DOMAIN b.by_id \ {x})
    BY <2>1, FS_RemoveElement
  <2> HIDE DEF ids
  <2> QED BY <1>4, <2>1, <2>2
<1>6. \A n \in DOMAIN l : l[n].id = x => n = k
  BY <1>1, QueueEntry
<1> HIDE DEF c, l, ids, k
<1>7. /\ q \in Queue
      /\ \A m \in DOMAIN q : /\ m \in Nat /\ Source(k, m) \in DOMAIN l /\ Source(k, m) # k
                             /\ q[m] = l[Source(k, m)]
      /\ \A n \in DOMAIN l : n # k => \E m \in DOMAIN q : n = Source(k, m)
  <2>1. k \in DOMAIN l
    BY <1>1 DEF l
  <2> QED BY <1>2, <2>1, Removed
<1> HIDE DEF q
<1>8. /\ Shaped(c) /\ c.by_id = ids /\ Level(c, s, p) = q
      /\ \A r \in Side : \A o : <<r, o>> # <<s, p>> => Level(c, r, o) = Level(b, r, o)
  BY <1>2, <1>3, <1>4, <1>5, <1>7, ReplacedShape
<1>9. ASSUME NEW i \in DOMAIN b.by_id, i # x
      PROVE  \E r \in Side, o \in Int : \E m \in DOMAIN Level(c, r, o) :
               /\ b.by_id[i] = <<r, o>> /\ m \in Nat /\ PlaceOf(b, i) \in Nat
               /\ Level(c, r, o)[m].id = i
               /\ Level(c, r, o)[m].open_qty = OpenOf(b, i)
               /\ PlaceOf(b, i) = IF <<r, o>> = <<s, p>> THEN Source(k, m) ELSE m
  <2>1. PICK r \in Side, o \in Int :
           /\ b.by_id[i] = <<r, o>>
           /\ PlaceOf(b, i) \in DOMAIN Level(b, r, o)
           /\ Level(b, r, o)[PlaceOf(b, i)].id = i
           /\ OpenOf(b, i) = Level(b, r, o)[PlaceOf(b, i)].open_qty
           /\ PlaceOf(b, i) \in Nat
    BY IndexPlace
  <2>2. CASE <<r, o>> = <<s, p>>
    <3>1. PlaceOf(b, i) # k
      BY <1>1, <1>9, <2>1, <2>2
    <3>2. PICK m \in DOMAIN q : PlaceOf(b, i) = Source(k, m)
      BY <1>7, <2>1, <2>2, <3>1 DEF l
    <3>3. m \in Nat /\ q[m] = Level(b, r, o)[PlaceOf(b, i)]
      BY <1>7, <2>2, <3>2 DEF l
    <3>4. Level(c, r, o) = q
      BY <1>8, <2>2
    <3> QED BY <2>1, <2>2, <3>2, <3>3, <3>4
  <2>3. CASE <<r, o>> # <<s, p>>
    <3>1. Level(c, r, o) = Level(b, r, o)
      BY <1>8, <2>3
    <3> QED BY <2>1, <2>3, <3>1
  <2> QED BY <2>2, <2>3
<1>10. Whole(c)
  <2>1. ASSUME NEW i \in DOMAIN c.by_id
        PROVE  \E r \in Side, o \in Int :
                 c.by_id[i] = <<r, o>> /\ \E n \in DOMAIN Level(c, r, o) : Level(c, r, o)[n].id = i
    <3>1. i \in DOMAIN b.by_id /\ i # x /\ c.by_id[i] = b.by_id[i]
      BY <1>4, <1>8
    <3> QED BY <1>9, <3>1
  <2>2. ASSUME NEW r \in Side, NEW o \in Int, NEW n \in DOMAIN Level(c, r, o)
        PROVE  /\ Level(c, r, o)[n].id \in DOMAIN c.by_id
               /\ c.by_id[Level(c, r, o)[n].id] = <<r, o>>
    <3>1. \E m \in DOMAIN Level(b, r, o) :
            Level(c, r, o)[n] = Level(b, r, o)[m] /\ (<<r, o>> = <<s, p>> => m # k)
      <4>1. CASE <<r, o>> = <<s, p>>
        BY <1>7, <1>8, <2>2, <4>1 DEF l
      <4>2. CASE <<r, o>> # <<s, p>>
        BY <1>8, <2>2, <4>2
      <4> QED BY <4>1, <4>2
    <3>2. PICK m \in DOMAIN Level(b, r, o) :
            Level(c, r, o)[n] = Level(b, r, o)[m] /\ (<<r, o>> = <<s, p>> => m # k)
      BY <3>1
    <3>3. /\ Level(b, r, o)[m].id \in DOMAIN b.by_id
          /\ b.by_id[Level(b, r, o)[m].id] = <<r, o>>
      BY LevelQueue
    <3>4. Level(b, r, o)[m].id # x
      BY <1>1, <1>6, <3>2, <3>3 DEF l
    <3> QED BY <1>4, <1>8, <3>2, <3>3, <3>4
  <2> QED BY <1>8, <2>1, <2>2, WholeByLevel
<1>11. ASSUME NEW i \in DOMAIN b.by_id, i # x
       PROVE  /\ i \in DOMAIN c.by_id /\ c.by_id[i] = b.by_id[i] /\ OpenOf(c, i) = OpenOf(b, i)
              /\ PlaceOf(c, i) \in Nat /\ PlaceOf(b, i) \in Nat
              /\ PlaceOf(b, i) = IF b.by_id[i] = <<s, p>> THEN Source(k, PlaceOf(c, i))
                                 ELSE PlaceOf(c, i)
  <2>1. PICK r \in Side, o \in Int : \E m \in DOMAIN Level(c, r, o) :
               /\ b.by_id[i] = <<r, o>> /\ m \in Nat /\ PlaceOf(b, i) \in Nat
               /\ Level(c, r, o)[m].id = i
               /\ Level(c, r, o)[m].open_qty = OpenOf(b, i)
               /\ PlaceOf(b, i) = IF <<r, o>> = <<s, p>> THEN Source(k, m) ELSE m
    BY <1>9, <1>11
  <2>2. PICK m \in DOMAIN Level(c, r, o) :
               /\ b.by_id[i] = <<r, o>> /\ m \in Nat /\ PlaceOf(b, i) \in Nat
               /\ Level(c, r, o)[m].id = i
               /\ Level(c, r, o)[m].open_qty = OpenOf(b, i)
               /\ PlaceOf(b, i) = IF <<r, o>> = <<s, p>> THEN Source(k, m) ELSE m
    BY <2>1
  <2>3. /\ i \in DOMAIN c.by_id /\ PlaceOf(c, i) = m
        /\ OpenOf(c, i) = Level(c, r, o)[m].open_qty
    BY <1>10, <2>2, PlaceIndex
  <2>4. c.by_id[i] = b.by_id[i]
    BY <1>4, <1>8, <2>3
  <2> QED BY <2>2, <2>3, <2>4
<1>12. k \in Nat
  BY <1>1 DEF k
<1>13. ASSUME NEW i \in DOMAIN b.by_id \ {x}, NEW j \in DOMAIN b.by_id \ {x}
       PROVE  StandsBefore(c, i, j) <=> StandsBefore(b, i, j)
  <2> DEFINE ci == PlaceOf(c, i)
             cj == PlaceOf(c, j)
  <2>1. /\ c.by_id[i] = b.by_id[i] /\ c.by_id[j] = b.by_id[j]
        /\ ci \in Nat /\ cj \in Nat
        /\ PlaceOf(b, i) = IF b.by_id[i] = <<s, p>> THEN Source(k, ci) ELSE ci
        /\ PlaceOf(b, j) = IF b.by_id[j] = <<s, p>> THEN Source(k, cj) ELSE cj
    BY <1>11
  <2>2. ci < cj <=> Source(k, ci) < Source(k, cj)
    BY <1>12, <2>1, SourceOrder
  <2> HIDE DEF ci, cj
  <2>3. CASE b.by_id[i] = b.by_id[j]
    <3>1. ci < cj <=> PlaceOf(b, i) < PlaceOf(b, j)
      BY <2>1, <2>2, <2>3
    <3> QED BY <2>1, <2>3, <3>1 DEF StandsBefore, ci, cj
  <2>4. CASE b.by_id[i] # b.by_id[j]
    BY <2>1, <2>4 DEF StandsBefore
  <2> QED BY <2>3, <2>4
<1>14. Kept(b, c, DOMAIN b.by_id \ {x})
  BY <1>11, <1>13 DEF Kept
<1> QED BY <1>4, <1>8, <1>10, <1>14 DEF c

(* A book whose head of a level gives a part of what it offers.            *)
Reduced(b, s, p, y) ==
  Replaced(b, s, p,
           <<[Head(Level(b, s, p)) EXCEPT !.open_qty = y]>> \o Tail(Level(b, s, p)),
           b.by_id)

(* Nothing else changes on it.                                             *)
LEMMA ReduceBook ==
  ASSUME NEW b, Whole(b), NEW s \in Side, NEW p \in DOMAIN b.levels[s],
         NEW y \in 1 .. MaxQuantity
  PROVE  LET c == Reduced(b, s, p, y)
             x == Head(Level(b, s, p)).id
         IN /\ Whole(c) /\ c.by_id = b.by_id /\ x \in DOMAIN b.by_id
            /\ OpenOf(c, x) = y
            /\ \A i \in DOMAIN b.by_id \ {x} : OpenOf(c, i) = OpenOf(b, i)
            /\ \A i, j \in DOMAIN b.by_id : StandsBefore(c, i, j) <=> StandsBefore(b, i, j)
<1> DEFINE c == Reduced(b, s, p, y)
           l == Level(b, s, p)
           x == Head(l).id
           q == <<[Head(l) EXCEPT !.open_qty = y]>> \o Tail(l)
<1>1. Shaped(b) /\ l \in Queue /\ l # << >> /\ p \in Int
  BY LevelQueue DEF Whole
<1>2. c = Replaced(b, s, p, q, b.by_id)
  BY DEF Reduced
<1>3. /\ b.by_id = [i \in DOMAIN b.by_id |-> b.by_id[i]] /\ IsFiniteSet(DOMAIN b.by_id)
      /\ DOMAIN b.by_id \subseteq Id
  BY <1>1 DEF Shaped
<1>4. /\ 1 \in DOMAIN l /\ Head(l) = l[1] /\ l[1] \in Item
  BY <1>1, QueueEntry, TailRemoves
<1> HIDE DEF l
<1>5. /\ q \in Queue /\ DOMAIN q = DOMAIN l
      /\ q[1] = [l[1] EXCEPT !.open_qty = y]
      /\ \A n \in DOMAIN l : n # 1 => q[n] = l[n]
      /\ \A n \in DOMAIN l : q[n].id = l[n].id
  BY <1>1, HeadReduced
<1> HIDE DEF c, q
<1>6. /\ Shaped(c) /\ c.by_id = b.by_id /\ Level(c, s, p) = q
      /\ \A r \in Side : \A o : <<r, o>> # <<s, p>> => Level(c, r, o) = Level(b, r, o)
  <2>1. LET d == Replaced(b, s, p, q, b.by_id)
        IN /\ Shaped(d) /\ d.by_id = b.by_id
           /\ Level(d, s, p) = q
           /\ \A r \in Side : \A o : <<r, o>> # <<s, p>> => Level(d, r, o) = Level(b, r, o)
    BY <1>1, <1>3, <1>5, ReplacedShape
  <2> QED BY <1>2, <2>1
<1>7. ASSUME NEW r \in Side, NEW o
      PROVE  /\ DOMAIN Level(c, r, o) = DOMAIN Level(b, r, o)
             /\ \A n \in DOMAIN Level(b, r, o) :
                  /\ Level(c, r, o)[n].id = Level(b, r, o)[n].id
                  /\ ~(<<r, o>> = <<s, p>> /\ n = 1) => Level(c, r, o)[n] = Level(b, r, o)[n]
  <2>1. CASE <<r, o>> = <<s, p>>
    BY <1>5, <1>6, <2>1 DEF l
  <2>2. CASE <<r, o>> # <<s, p>>
    BY <1>6, <2>2
  <2> QED BY <2>1, <2>2
<1>8. Whole(c)
  <2>1. ASSUME NEW i \in DOMAIN c.by_id
        PROVE  \E r \in Side, o \in Int :
                 c.by_id[i] = <<r, o>> /\ \E n \in DOMAIN Level(c, r, o) : Level(c, r, o)[n].id = i
    <3>1. PICK r \in Side, o \in Int :
            /\ b.by_id[i] = <<r, o>>
            /\ PlaceOf(b, i) \in DOMAIN Level(b, r, o) /\ Level(b, r, o)[PlaceOf(b, i)].id = i
      BY <1>6, IndexPlace
    <3> QED BY <1>6, <1>7, <3>1
  <2>2. ASSUME NEW r \in Side, NEW o \in Int, NEW n \in DOMAIN Level(c, r, o)
        PROVE  /\ Level(c, r, o)[n].id \in DOMAIN c.by_id
               /\ c.by_id[Level(c, r, o)[n].id] = <<r, o>>
    <3>1. n \in DOMAIN Level(b, r, o) /\ Level(c, r, o)[n].id = Level(b, r, o)[n].id
      BY <1>7, <2>2
    <3>2. /\ Level(b, r, o)[n].id \in DOMAIN b.by_id
          /\ b.by_id[Level(b, r, o)[n].id] = <<r, o>>
      BY <3>1, LevelQueue
    <3> QED BY <1>6, <3>1, <3>2
  <2> QED BY <1>6, <2>1, <2>2, WholeByLevel
<1>9. x \in DOMAIN b.by_id /\ OpenOf(c, x) = y
  <2>1. /\ 1 \in DOMAIN Level(c, s, p) /\ Level(c, s, p)[1].id = x
        /\ Level(c, s, p)[1].open_qty = y
    BY <1>4, <1>5, <1>6 DEF Item
  <2> HIDE DEF x
  <2>2. x \in DOMAIN c.by_id /\ OpenOf(c, x) = Level(c, s, p)[1].open_qty
    BY <1>8, <2>1, PlaceIndex
  <2> QED BY <1>6, <2>1, <2>2
<1>10. ASSUME NEW i \in DOMAIN b.by_id
       PROVE  /\ PlaceOf(c, i) = PlaceOf(b, i)
              /\ i # x => OpenOf(c, i) = OpenOf(b, i)
  <2>1. PICK r \in Side, o \in Int :
           /\ PlaceOf(b, i) \in DOMAIN Level(b, r, o)
           /\ Level(b, r, o)[PlaceOf(b, i)].id = i
           /\ OpenOf(b, i) = Level(b, r, o)[PlaceOf(b, i)].open_qty
    BY IndexPlace
  <2> DEFINE n == PlaceOf(b, i)
  <2>2. n \in DOMAIN Level(c, r, o) /\ Level(c, r, o)[n].id = i
    BY <1>7, <2>1
  <2>3. PlaceOf(c, i) = n /\ OpenOf(c, i) = Level(c, r, o)[n].open_qty
    BY <1>8, <2>2, PlaceIndex
  <2>4. i # x => Level(c, r, o)[n] = Level(b, r, o)[n]
    BY <1>4, <1>7, <2>1 DEF l
  <2> QED BY <2>1, <2>3, <2>4
<1>11. \A i, j \in DOMAIN b.by_id : StandsBefore(c, i, j) <=> StandsBefore(b, i, j)
  BY <1>6, <1>10 DEF StandsBefore
<1> QED BY <1>6, <1>8, <1>9, <1>10, <1>11 DEF c, l

(* Of some prices one is the best. *)
LEMMA BestPrice ==
  ASSUME NEW S, IsFiniteSet(S), S \subseteq Int, S # {}, NEW side \in Side
  PROVE  \E p \in S : \A q \in S : ~Better(side, q, p)
<1> DEFINE B(p) == { q \in S : Better(side, q, p) }
           T == { Cardinality(B(p)) : p \in S }
<1>1. \A p \in S : IsFiniteSet(B(p)) /\ Cardinality(B(p)) \in Nat
  <2>1. \A p \in S : B(p) \subseteq S
    OBVIOUS
  <2> HIDE DEF B
  <2> QED BY <2>1, FS_Subset, FS_CardinalityType
<1>2. T \subseteq Nat /\ T # {}
  BY <1>1
<1>3. PICK n \in T : \A m \in T : n <= m
  <2> HIDE DEF T
  <2> QED BY <1>2, LeastNat
<1>4. PICK p \in S : n = Cardinality(B(p))
  BY <1>3
<1>5. ASSUME NEW q \in S, Better(side, q, p) PROVE FALSE
  <2>1. \A r \in S : Better(side, r, q) => Better(side, r, p)
    BY <1>5 DEF Better, Side
  <2>2. ~Better(side, q, q)
    BY DEF Better, Side
  <2>3. B(q) \subseteq B(p) /\ q \in B(p) /\ q \notin B(q)
    BY <1>5, <2>1, <2>2
  <2>4. B(q) # B(p)
    BY <2>3
  <2>5. Cardinality(B(q)) \in T
    OBVIOUS
  <2> HIDE DEF B, T
  <2>6. Cardinality(B(q)) <= Cardinality(B(p)) /\ Cardinality(B(q)) # Cardinality(B(p))
    BY <1>1, <2>3, <2>4, FS_Subset
  <2> QED BY <1>1, <1>3, <1>4, <2>5, <2>6
<1> QED BY <1>5

(* The head of the best opposite level gives what the taker wants of it:   *)
(* all it offers, and then it is off the book, or a part.                  *)
LEMMA FrontMaker ==
  ASSUME NEW b, Whole(b), NEW side \in Side, ~OppositeIsEmpty(b, side), NEW m \in Nat \ {0}
  PROVE  LET c == ConsumeFront(b, side, m)
             s == Opposite(side)
             p == PeekOpposite(b, side)
             x == Head(Level(b, s, p)).id
         IN /\ s \in Side /\ p \in DOMAIN b.levels[s] /\ p \in Int
            /\ \A q \in DOMAIN b.levels[s] : ~Better(side, q, p)
            /\ x \in DOMAIN b.by_id /\ b.by_id[x] = <<s, p>>
            /\ \A j \in DOMAIN b.by_id : ~StandsBefore(b, j, x)
            /\ c.maker = x /\ c.taken = SmallerOf(m, OpenOf(b, x))
            /\ OpenOf(b, x) \in 1 .. MaxQuantity
            /\ c.taken = OpenOf(b, x) => c.book = Cancel(b, x)
            /\ c.taken # OpenOf(b, x) =>
                 /\ OpenOf(b, x) - c.taken \in 1 .. MaxQuantity
                 /\ c.book = Reduced(b, s, p, OpenOf(b, x) - c.taken)
<1> DEFINE c == ConsumeFront(b, side, m)
           s == Opposite(side)
           p == PeekOpposite(b, side)
           l == Level(b, s, p)
           x == Head(l).id
           y == SmallerOf(m, Head(l).open_qty)
<1>1. s \in Side
  BY DEF Opposite, Side
<1>2. Shaped(b)
  BY DEF Whole
<1>3. p \in DOMAIN b.levels[s] /\ \A q \in DOMAIN b.levels[s] : ~Better(side, q, p)
  <2>1. \E o \in DOMAIN b.levels[s] : \A q \in DOMAIN b.levels[s] : ~Better(side, q, o)
    <3>1. /\ IsFiniteSet(DOMAIN b.levels[s]) /\ DOMAIN b.levels[s] \subseteq Int
          /\ DOMAIN b.levels[s] # {}
      BY <1>1, <1>2 DEF Shaped, OppositeIsEmpty
    <3> HIDE DEF s
    <3> QED BY <3>1, BestPrice
  <2> QED BY <2>1 DEF PeekOpposite
<1>4. /\ l \in Queue /\ l # << >> /\ p \in Int /\ l = b.levels[s][p]
  BY <1>1, <1>3, LevelQueue
<1>5. /\ 1 \in DOMAIN l /\ Head(l) = l[1] /\ l[1] \in Item /\ Tail(l) = RemoveAt(l, 1)
  <2> HIDE DEF l
  <2> QED BY <1>4, QueueEntry, TailRemoves
<1>6. /\ x \in DOMAIN b.by_id /\ b.by_id[x] = <<s, p>> /\ PlaceOf(b, x) = 1
      /\ OpenOf(b, x) = Head(l).open_qty /\ QueueOf(b, x) = l
  <2> HIDE DEF s, p
  <2>1. LET i == l[1].id
        IN /\ i \in DOMAIN b.by_id /\ b.by_id[i] = <<s, p>>
            /\ QueueOf(b, i) = l /\ PlaceOf(b, i) = 1
            /\ OpenOf(b, i) = l[1].open_qty
    BY <1>1, <1>5, PlaceIndex
  <2> QED BY <1>5, <2>1
<1>7. OpenOf(b, x) \in 1 .. MaxQuantity /\ MaxQuantity \in Nat
  BY <1>5, <1>6, MatchingAssumption DEF Item
<1>8. \A j \in DOMAIN b.by_id : ~StandsBefore(b, j, x)
  <2>1. ASSUME NEW j \in DOMAIN b.by_id, b.by_id[j] = <<s, p>> PROVE PlaceOf(b, j) >= 1
    <3>1. PICK r \in Side, o \in Int :
           /\ PlaceOf(b, j) \in DOMAIN Level(b, r, o) /\ Level(b, r, o) \in Queue
      BY IndexPlace
    <3>2. DOMAIN Level(b, r, o) = 1 .. Len(Level(b, r, o)) /\ Len(Level(b, r, o)) \in Nat
      BY <3>1, QueueEntry
    <3> QED BY <3>1, <3>2
  <2>2. \A j \in DOMAIN b.by_id : PlaceOf(b, j) \in Nat
    BY IndexPlace
  <2> HIDE DEF s, p, x
  <2> QED BY <1>6, <2>1, <2>2 DEF StandsBefore
<1>9. /\ c.maker = x /\ c.taken = y
      /\ c.book = [b EXCEPT !.levels[s] =
                     SetLevel(@, p, IF y = Head(l).open_qty THEN Tail(l)
                                    ELSE <<[Head(l) EXCEPT !.open_qty = Head(l).open_qty - y]>>
                                           \o Tail(l)),
                   !.by_id = IF y = Head(l).open_qty THEN Without(b.by_id, {x}) ELSE b.by_id]
  BY <1>4 DEF ConsumeFront
<1>10. b = [levels |-> b.levels, by_id |-> b.by_id]
  BY <1>2 DEF Shaped
<1>11. y = OpenOf(b, x) => c.book = Cancel(b, x)
  <2>1. PlaceIn(l, x) = 1
    BY <1>6 DEF PlaceOf
  <2>2. b.by_id[x][1] = s /\ b.by_id[x][2] = p
    BY <1>6
  <2> HIDE DEF l, x, c, y, s, p
  <2>3. Cancel(b, x) = [b EXCEPT !.levels[s] = SetLevel(@, p, RemoveAt(l, 1)),
                                 !.by_id = Without(b.by_id, {x})]
    BY <1>4, <1>6, <2>1, <2>2 DEF Cancel
  <2>4. RemoveAt(l, 1) = Tail(l)
    BY <1>5
  <2> QED BY <1>6, <1>9, <2>3, <2>4
<1>12. ASSUME y # OpenOf(b, x)
       PROVE  /\ OpenOf(b, x) - y \in 1 .. MaxQuantity
              /\ c.book = Reduced(b, s, p, OpenOf(b, x) - y)
  <2> DEFINE v == OpenOf(b, x)
  <2>1. y = SmallerOf(m, v)
    BY <1>6
  <2>2. y # v
    BY <1>12
  <2>3. v - y \in 1 .. MaxQuantity
    <3> HIDE DEF v, y
    <3> QED BY <1>7, <2>1, <2>2 DEF SmallerOf, v
  <2> DEFINE q == <<[Head(l) EXCEPT !.open_qty = v - y]>> \o Tail(l)
  <2>4. y # Head(l).open_qty /\ Head(l).open_qty - y = v - y
    BY <1>6, <1>12
  <2> HIDE DEF y, v, c, p, s, l, x
  <2>5. c.book = [b EXCEPT !.levels[s] = SetLevel(@, p, q), !.by_id = b.by_id]
    BY <1>9, <2>4
  <2>6. Reduced(b, s, p, v - y) = Replaced(b, s, p, q, b.by_id)
    BY DEF Reduced, l
  <2>7. Replaced(b, s, p, q, b.by_id)
          = [levels |-> [b.levels EXCEPT ![s] = SetLevel(b.levels[s], p, q)], by_id |-> b.by_id]
    BY DEF Replaced
  <2> HIDE DEF q
  <2>8. c.book = Replaced(b, s, p, q, b.by_id)
    BY <1>10, <2>5, <2>7
  <2> QED BY <2>3, <2>6, <2>8 DEF v
<1> QED BY <1>1, <1>3, <1>4, <1>6, <1>7, <1>8, <1>9, <1>11, <1>12 DEF c

-----------------------------------------------------------------------------
(* All books.  Each is whole, and no order is on two.                      *)
Good(bs) ==
  /\ bs = [a \in Area |-> bs[a]]
  /\ \A a \in Area : Whole(bs[a])
  /\ \A a, c \in Area : a # c => DOMAIN bs[a].by_id \cap DOMAIN bs[c].by_id = {}

(* Where an order rests and what it is there. *)
LEMMA AtHome ==
  ASSUME NEW bs, Good(bs), NEW a \in Area, NEW i \in DOMAIN bs[a].by_id
  PROVE  /\ i \in Resting(bs) /\ HomeOf(bs, i) = a
         /\ \E s \in Side, p \in Int :
              /\ bs[a].by_id[i] = <<s, p>>
              /\ Entries(bs)[i] = [area |-> a, period |-> Delivery, side |-> s,
                                   price |-> p, qty |-> OpenOf(bs[a], i)]
         /\ OpenOf(bs[a], i) \in 1 .. MaxQuantity
<1>1. i \in Resting(bs)
  BY DEF Resting
<1>2. HomeOf(bs, i) = a
  <2>1. \A c \in Area : i \in DOMAIN bs[c].by_id => c = a
    BY DEF Good
  <2> QED BY <2>1 DEF HomeOf
<1>3. PICK s \in Side, p \in Int :
        bs[a].by_id[i] = <<s, p>> /\ OpenOf(bs[a], i) \in 1 .. MaxQuantity
  BY IndexPlace DEF Good
<1>4. bs[a].by_id[i][1] = s /\ bs[a].by_id[i][2] = p
  BY <1>3
<1>5. Entries(bs)[i] = EntryAt(bs, i)
  BY <1>1 DEF Entries
<1>6. EntryAt(bs, i) = [area |-> a, period |-> Delivery, side |-> s,
                        price |-> p, qty |-> OpenOf(bs[a], i)]
  BY <1>2, <1>4 DEF EntryAt
<1> QED BY <1>1, <1>2, <1>3, <1>5, <1>6

(* Every resting order has a home. *)
LEMMA Housed ==
  ASSUME NEW bs, Good(bs), NEW i \in Resting(bs)
  PROVE  HomeOf(bs, i) \in Area /\ i \in DOMAIN bs[HomeOf(bs, i)].by_id
<1>1. PICK a \in Area : i \in DOMAIN bs[a].by_id
  BY DEF Resting
<1> QED BY <1>1, AtHome

(* Who stands before whom. *)
LEMMA InQueues ==
  ASSUME NEW bs, NEW i, NEW j
  PROVE  <<i, j>> \in Queues(bs) <=>
           /\ i \in Resting(bs) /\ j \in Resting(bs)
           /\ HomeOf(bs, i) = HomeOf(bs, j)
           /\ StandsBefore(bs[HomeOf(bs, i)], i, j)
<1> DEFINE x == <<i, j>>
<1>1. x[1] = i /\ x[2] = j
  OBVIOUS
<1>2. x \in Queues(bs) <=> /\ x \in Resting(bs) \X Resting(bs)
                           /\ HomeOf(bs, x[1]) = HomeOf(bs, x[2])
                           /\ StandsBefore(bs[HomeOf(bs, x[1])], x[1], x[2])
  BY Zenon DEF Queues
<1>3. x \in Resting(bs) \X Resting(bs) <=> i \in Resting(bs) /\ j \in Resting(bs)
  OBVIOUS
<1> HIDE DEF x
<1>4. x \in Queues(bs) <=> /\ i \in Resting(bs) /\ j \in Resting(bs)
                           /\ HomeOf(bs, i) = HomeOf(bs, j)
                           /\ StandsBefore(bs[HomeOf(bs, i)], i, j)
  BY <1>1, <1>2, <1>3, Zenon
<1> QED BY <1>4 DEF x

(* The orders at rest are finitely many. *)
LEMMA RestingFinite ==
  ASSUME NEW bs, Good(bs)
  PROVE  IsFiniteSet(Resting(bs)) /\ DOMAIN Entries(bs) = Resting(bs)
         /\ Resting(bs) \subseteq Id
<1> DEFINE D == { DOMAIN bs[a].by_id : a \in Area }
<1>1. IsFiniteSet(D)
  <2> DEFINE f == [a \in Area |-> DOMAIN bs[a].by_id]
  <2>1. f \in [Area -> D] /\ \A d \in D : \E a \in Area : f[a] = d
    OBVIOUS
  <2> HIDE DEF f, D
  <2>2. f \in Surjection(Area, D)
    BY <2>1, Fun_IsSurj
  <2> QED BY <2>2, MatchLoopAssumption, FS_Surjection
<1>2. \A a \in Area : IsFiniteSet(DOMAIN bs[a].by_id) /\ DOMAIN bs[a].by_id \subseteq Id
  BY DEF Good, Whole, Shaped
<1>3. \A x \in D : IsFiniteSet(x)
  BY <1>2
<1>4. IsFiniteSet(UNION D)
  <2> HIDE DEF D
  <2> QED BY <1>1, <1>3, FS_UNION
<1>5. Resting(bs) = UNION D
  BY DEF Resting
<1>6. Resting(bs) \subseteq Id
  BY <1>2, <1>5
<1> QED BY <1>4, <1>5, <1>6 DEF Entries

(* What the queues say is what priority asks for.                          *)
LEMMA GoodOrderly ==
  ASSUME NEW bs, Good(bs), NEW t, t.area \in Area
  PROVE  Orderly(Entries(bs), Queues(bs), t)
<1> DEFINE B == Entries(bs)
           O == Queues(bs)
           R == Resting(bs)
           H(i) == HomeOf(bs, i)
<1>1. IsFiniteSet(R) /\ DOMAIN B = R
  BY RestingFinite
<1>2. ASSUME NEW i \in R
      PROVE  /\ H(i) \in Area /\ i \in DOMAIN bs[H(i)].by_id /\ Whole(bs[H(i)])
             /\ B[i].area = H(i) /\ B[i].period = Delivery
             /\ B[i].price \in Int /\ B[i].qty \in 1 .. MaxQuantity
             /\ bs[H(i)].by_id[i] = <<B[i].side, B[i].price>>
             /\ PlaceOf(bs[H(i)], i) \in Nat
  <2>1. H(i) \in Area /\ i \in DOMAIN bs[H(i)].by_id
    BY Housed
  <2>2. /\ \E s \in Side, p \in Int :
              /\ bs[H(i)].by_id[i] = <<s, p>>
              /\ B[i] = [area |-> H(i), period |-> Delivery, side |-> s,
                         price |-> p, qty |-> OpenOf(bs[H(i)], i)]
         /\ OpenOf(bs[H(i)], i) \in 1 .. MaxQuantity
    BY <2>1, AtHome
  <2>3. Whole(bs[H(i)])
    BY <2>1 DEF Good
  <2>4. PlaceOf(bs[H(i)], i) \in Nat
    BY <2>1, <2>3, IndexPlace
  <2> HIDE DEF B, H
  <2> QED BY <2>1, <2>2, <2>3, <2>4
<1>3. ASSUME NEW i \in R, NEW j \in R
      PROVE  <<i, j>> \in O <=>
               /\ H(i) = H(j) /\ bs[H(i)].by_id[i] = bs[H(i)].by_id[j]
               /\ PlaceOf(bs[H(i)], i) < PlaceOf(bs[H(i)], j)
  BY InQueues DEF StandsBefore
<1>4. ASSUME NEW i \in R, NEW j \in R, i # j, H(i) = H(j),
             bs[H(i)].by_id[i] = bs[H(i)].by_id[j]
      PROVE  PlaceOf(bs[H(i)], i) # PlaceOf(bs[H(i)], j)
  <2> DEFINE b == bs[H(i)]
  <2>1. Whole(b) /\ i \in DOMAIN b.by_id /\ j \in DOMAIN b.by_id
    BY <1>2, <1>4
  <2>2. b.by_id[i] = b.by_id[j]
    BY <1>4
  <2> HIDE DEF b
  <2>3. QueueOf(b, i) = QueueOf(b, j)
    BY <2>2 DEF QueueOf
  <2>4. QueueOf(b, i)[PlaceOf(b, i)].id = i
    BY <2>1, IndexPlace
  <2>5. QueueOf(b, j)[PlaceOf(b, j)].id = j
    BY <2>1, IndexPlace
  <2> QED BY <1>4, <2>3, <2>4, <2>5 DEF b
<1> HIDE DEF B, O, R, H
<1>5. WellFormed(B, O)
  <2>1. \A i \in R : <<i, i>> \notin O
    BY <1>2, <1>3
  <2> QED BY <1>1, <1>2, <2>1 DEF WellFormed
<1>6. \A i, j \in R : <<i, j>> \in O => SameLevel(B[i], B[j])
  <2> SUFFICES ASSUME NEW i \in R, NEW j \in R, <<i, j>> \in O PROVE SameLevel(B[i], B[j])
    OBVIOUS
  <2>1. H(i) = H(j) /\ bs[H(i)].by_id[i] = bs[H(j)].by_id[j]
    BY <1>3
  <2>2. <<B[i].side, B[i].price>> = <<B[j].side, B[j].price>>
    BY <1>2, <2>1
  <2>3. B[i].side = B[j].side /\ B[i].price = B[j].price
    BY <2>2
  <2> QED BY <1>2, <2>1, <2>3 DEF SameLevel
<1>7. \A i, j \in R : i # j /\ SameLevel(B[i], B[j]) => <<i, j>> \in O \/ <<j, i>> \in O
  <2> SUFFICES ASSUME NEW i \in R, NEW j \in R, i # j, SameLevel(B[i], B[j])
               PROVE  <<i, j>> \in O \/ <<j, i>> \in O
    OBVIOUS
  <2>1. H(i) = H(j)
    BY <1>2 DEF SameLevel
  <2>2. bs[H(i)].by_id[i] = bs[H(i)].by_id[j]
    BY <1>2, <2>1 DEF SameLevel
  <2>3. PlaceOf(bs[H(i)], i) # PlaceOf(bs[H(i)], j)
    BY <1>4, <2>1, <2>2
  <2> DEFINE m == PlaceOf(bs[H(i)], i)
             n == PlaceOf(bs[H(i)], j)
  <2>4. m \in Nat /\ n \in Nat /\ m # n
    BY <1>2, <2>1, <2>3
  <2>5. m < n \/ n < m
    <3> HIDE DEF m, n
    <3> QED BY <2>4
  <2> QED BY <1>3, <2>1, <2>2, <2>5
<1>8. \A i, j, k \in R : <<i, j>> \in O /\ <<j, k>> \in O => <<i, k>> \in O
  <2> SUFFICES ASSUME NEW i \in R, NEW j \in R, NEW k \in R, <<i, j>> \in O, <<j, k>> \in O
               PROVE  <<i, k>> \in O
    OBVIOUS
  <2>1. H(i) = H(j) /\ H(j) = H(k)
    BY <1>3
  <2> DEFINE b == bs[H(i)]
  <2>2. /\ b.by_id[i] = b.by_id[j] /\ PlaceOf(b, i) < PlaceOf(b, j)
        /\ b.by_id[j] = b.by_id[k] /\ PlaceOf(b, j) < PlaceOf(b, k)
    BY <1>3, <2>1
  <2>3. PlaceOf(b, i) \in Nat /\ PlaceOf(b, j) \in Nat /\ PlaceOf(b, k) \in Nat
    BY <1>2, <2>1
  <2>4. PlaceOf(b, i) < PlaceOf(b, k)
    <3> DEFINE l == PlaceOf(b, i)
               m == PlaceOf(b, j)
               n == PlaceOf(b, k)
    <3>1. l \in Nat /\ m \in Nat /\ n \in Nat /\ l < m /\ m < n
      BY <2>2, <2>3
    <3> HIDE DEF l, m, n
    <3>2. l < n
      BY <3>1
    <3> QED BY <3>2 DEF l, n
  <2> QED BY <1>3, <2>1, <2>2, <2>4
<1>9. Queued(B, O)
  BY <1>1, <1>6, <1>7, <1>8 DEF Queued
<1> QED BY <1>5, <1>9 DEF Orderly, B, O

(* Book c can be that of area a: its orders are on no other.               *)
MayHouse(bs, a, c) ==
  Whole(c) /\ \A e \in Area \ {a} : DOMAIN c.by_id \cap DOMAIN bs[e].by_id = {}

(* The books bs with the book c for area a. *)
WithBook(bs, a, c) == [bs EXCEPT ![a] = c]

(* One book changes. *)
LEMMA Rehoused ==
  ASSUME NEW bs, Good(bs), NEW a \in Area, NEW c, MayHouse(bs, a, c),
         NEW ds, ds = WithBook(bs, a, c)
  PROVE  /\ Good(ds) /\ ds[a] = c
         /\ \A e \in Area \ {a} : ds[e] = bs[e]
         /\ Resting(ds) = (Resting(bs) \ DOMAIN bs[a].by_id) \cup DOMAIN c.by_id
<1>1. bs = [e \in Area |-> bs[e]]
  BY DEF Good
<1>2. /\ ds = [e \in Area |-> ds[e]] /\ ds[a] = c
      /\ \A e \in Area \ {a} : ds[e] = bs[e]
  BY <1>1 DEF WithBook
<1>3. Good(ds)
  <2>1. \A e \in Area : Whole(ds[e])
    BY <1>2 DEF Good, MayHouse
  <2>2. ASSUME NEW d \in Area, NEW e \in Area, d # e
        PROVE  DOMAIN ds[d].by_id \cap DOMAIN ds[e].by_id = {}
    <3>1. CASE d = a
      BY <1>2, <2>2, <3>1 DEF MayHouse
    <3>2. CASE e = a
      BY <1>2, <2>2, <3>2 DEF MayHouse
    <3>3. CASE d # a /\ e # a
      BY <1>2, <2>2, <3>3 DEF Good
    <3> QED BY <3>1, <3>2, <3>3
  <2> QED BY <1>2, <2>1, <2>2 DEF Good
<1>4. Resting(ds) = (Resting(bs) \ DOMAIN bs[a].by_id) \cup DOMAIN c.by_id
  <2>1. ASSUME NEW i \in Resting(ds)
        PROVE  i \in (Resting(bs) \ DOMAIN bs[a].by_id) \cup DOMAIN c.by_id
    <3>1. PICK e \in Area : i \in DOMAIN ds[e].by_id
      BY DEF Resting
    <3>2. CASE e = a
      BY <1>2, <3>1, <3>2
    <3>3. CASE e # a
      <4>1. i \in DOMAIN bs[e].by_id
        BY <1>2, <3>1, <3>3
      <4>2. i \notin DOMAIN bs[a].by_id
        BY <3>3, <4>1 DEF Good
      <4> QED BY <4>1, <4>2 DEF Resting
    <3> QED BY <3>2, <3>3
  <2>2. ASSUME NEW i \in (Resting(bs) \ DOMAIN bs[a].by_id) \cup DOMAIN c.by_id
        PROVE  i \in Resting(ds)
    <3>1. CASE i \in DOMAIN c.by_id
      BY <1>2, <3>1 DEF Resting
    <3>2. CASE i \in Resting(bs) \ DOMAIN bs[a].by_id
      <4>1. PICK e \in Area : i \in DOMAIN bs[e].by_id
        BY <3>2 DEF Resting
      <4>2. e # a
        BY <3>2, <4>1
      <4> QED BY <1>2, <4>1, <4>2 DEF Resting
    <3> QED BY <2>2, <3>1, <3>2
  <2> QED BY <2>1, <2>2
<1> QED BY <1>2, <1>3, <1>4

(* The books differ only in area a; there J stays where it was. *)
ChangeAt(a, bs, ds, J) ==
  /\ \A e \in Area \ {a} : ds[e] = bs[e]
  /\ J \subseteq DOMAIN bs[a].by_id /\ J \subseteq DOMAIN ds[a].by_id
  /\ \A i \in J : ds[a].by_id[i] = bs[a].by_id[i]

(* The orders kept on the book that changes are what they were, and so are *)
(* all on the others.                                                      *)
LEMMA BooksKept ==
  ASSUME NEW bs, Good(bs), NEW ds, Good(ds), NEW a \in Area, NEW J, ChangeAt(a, bs, ds, J)
  PROVE  LET K == (Resting(bs) \ DOMAIN bs[a].by_id) \cup J
         IN /\ \A i \in K : /\ i \in Resting(bs) /\ i \in Resting(ds)
                            /\ HomeOf(ds, i) = HomeOf(bs, i)
                            /\ (i \in J => OpenOf(ds[a], i) = OpenOf(bs[a], i))
                               => Entries(ds)[i] = Entries(bs)[i]
            /\ (\A i, j \in J : StandsBefore(ds[a], i, j) <=> StandsBefore(bs[a], i, j))
               => \A i, j \in K : <<i, j>> \in Queues(ds) <=> <<i, j>> \in Queues(bs)
<1> DEFINE K == (Resting(bs) \ DOMAIN bs[a].by_id) \cup J
<1> USE DEF ChangeAt
<1>1. ASSUME NEW i \in K
      PROVE  \E e \in Area : /\ HomeOf(bs, i) = e /\ HomeOf(ds, i) = e
                             /\ i \in DOMAIN bs[e].by_id /\ i \in DOMAIN ds[e].by_id
                             /\ ds[e].by_id[i] = bs[e].by_id[i]
                             /\ i \in J <=> e = a
  <2>1. CASE i \in J
    <3>1. i \in DOMAIN bs[a].by_id /\ i \in DOMAIN ds[a].by_id
      BY <2>1
    <3> QED BY <2>1, <3>1, AtHome
  <2>2. CASE i \notin J
    <3>1. i \in Resting(bs) /\ i \notin DOMAIN bs[a].by_id
      BY <2>2
    <3>2. HomeOf(bs, i) \in Area /\ i \in DOMAIN bs[HomeOf(bs, i)].by_id
      BY <3>1, Housed
    <3>3. HomeOf(bs, i) # a /\ ds[HomeOf(bs, i)] = bs[HomeOf(bs, i)]
      BY <3>1, <3>2
    <3>4. HomeOf(ds, i) = HomeOf(bs, i)
      BY <3>2, <3>3, AtHome
    <3> QED BY <2>2, <3>2, <3>3, <3>4
  <2> QED BY <2>1, <2>2
<1>2. ASSUME NEW i \in K
      PROVE  /\ i \in Resting(bs) /\ i \in Resting(ds)
             /\ HomeOf(ds, i) = HomeOf(bs, i)
             /\ (i \in J => OpenOf(ds[a], i) = OpenOf(bs[a], i))
                   => Entries(ds)[i] = Entries(bs)[i]
  <2>1. PICK e \in Area : /\ HomeOf(bs, i) = e /\ HomeOf(ds, i) = e
                          /\ i \in DOMAIN bs[e].by_id /\ i \in DOMAIN ds[e].by_id
                          /\ ds[e].by_id[i] = bs[e].by_id[i]
                          /\ i \in J <=> e = a
    BY <1>1
  <2>2. i \in Resting(bs) /\ i \in Resting(ds)
    BY <2>1 DEF Resting
  <2>3. ASSUME i \in J => OpenOf(ds[a], i) = OpenOf(bs[a], i)
        PROVE  Entries(ds)[i] = Entries(bs)[i]
    <3>1. OpenOf(ds[e], i) = OpenOf(bs[e], i)
      BY <2>1, <2>3
    <3>2. EntryAt(ds, i) = EntryAt(bs, i)
      BY <2>1, <3>1 DEF EntryAt
    <3> QED BY <2>2, <3>2 DEF Entries
  <2> QED BY <2>1, <2>2, <2>3
<1>3. ASSUME \A i, j \in J : StandsBefore(ds[a], i, j) <=> StandsBefore(bs[a], i, j),
             NEW i \in K, NEW j \in K
      PROVE  <<i, j>> \in Queues(ds) <=> <<i, j>> \in Queues(bs)
  <2>1. PICK e \in Area : /\ HomeOf(bs, i) = e /\ HomeOf(ds, i) = e
                          /\ i \in J <=> e = a
    BY <1>1
  <2>2. PICK d \in Area : /\ HomeOf(bs, j) = d /\ HomeOf(ds, j) = d
                          /\ j \in J <=> d = a
    BY <1>1
  <2>3. ASSUME e = d PROVE StandsBefore(ds[e], i, j) <=> StandsBefore(bs[e], i, j)
    <3>1. CASE e = a
      BY <1>3, <2>1, <2>2, <2>3, <3>1
    <3>2. CASE e # a
      BY <3>2
    <3> QED BY <3>1, <3>2
  <2>4. <<i, j>> \in Queues(ds) <=> /\ i \in Resting(ds) /\ j \in Resting(ds)
                                    /\ HomeOf(ds, i) = HomeOf(ds, j)
                                    /\ StandsBefore(ds[HomeOf(ds, i)], i, j)
    BY InQueues
  <2>5. <<i, j>> \in Queues(bs) <=> /\ i \in Resting(bs) /\ j \in Resting(bs)
                                    /\ HomeOf(bs, i) = HomeOf(bs, j)
                                    /\ StandsBefore(bs[HomeOf(bs, i)], i, j)
    BY InQueues
  <2>6. i \in Resting(ds) /\ j \in Resting(ds) /\ i \in Resting(bs) /\ j \in Resting(bs)
    BY <1>2
  <2> QED BY <2>1, <2>2, <2>3, <2>4, <2>5, <2>6
<1> QED BY <1>2, <1>3 DEF K

(* Pairs tell relations apart. *)
LEMMA SamePairs ==
  ASSUME NEW X, NEW P, NEW Q, P \subseteq X \X X, Q \subseteq X \X X,
         \A i, j \in X : <<i, j>> \in P <=> <<i, j>> \in Q
  PROVE  P = Q
<1>1. ASSUME NEW x \in X \X X PROVE x \in P <=> x \in Q
  <2>1. PICK i \in X, j \in X : x = <<i, j>>
    OBVIOUS
  <2> QED BY <2>1
<1> QED BY <1>1

(* The queues are of resting orders. *)
LEMMA QueuesOfResting ==
  ASSUME NEW bs
  PROVE  Queues(bs) \subseteq Resting(bs) \X Resting(bs)
BY DEF Queues

(* An order that is pushed on a book is a new entry, younger than those of *)
(* its level.                                                              *)
LEMMA InsertBooks ==
  ASSUME NEW bs, Good(bs), NEW a \in Area, NEW s \in Side, NEW p \in Int, NEW x \in Item,
         x.id \notin Resting(bs)
  PROVE  LET ds == [bs EXCEPT ![a] = Insert(bs[a], s, p, x)]
             e == [area |-> a, period |-> Delivery, side |-> s, price |-> p, qty |-> x.open_qty]
         IN /\ Good(ds)
            /\ Entries(ds) = WithEntry(Entries(bs), x.id, e)
            /\ Queues(ds) = OlderWith(Entries(bs), Queues(bs), x.id, e)
<1> DEFINE c == Insert(bs[a], s, p, x)
           ds == [bs EXCEPT ![a] = c]
           e == [area |-> a, period |-> Delivery, side |-> s, price |-> p, qty |-> x.open_qty]
           b == bs[a]
           J == DOMAIN b.by_id
           R == Resting(bs)
           n == x.id
<1>1. Whole(b) /\ n \notin J /\ J \subseteq R
  BY DEF Good, Resting
<1>2. /\ Whole(c) /\ DOMAIN c.by_id = J \cup {n}
      /\ c.by_id[n] = <<s, p>> /\ OpenOf(c, n) = x.open_qty
      /\ Kept(b, c, J)
      /\ \A j \in J : StandsBefore(c, j, n) <=> b.by_id[j] = <<s, p>>
      /\ \A j \in DOMAIN c.by_id : ~StandsBefore(c, n, j)
  <2> HIDE DEF b
  <2> QED BY <1>1, InsertBook DEF b
<1> HIDE DEF c
<1>3. MayHouse(bs, a, c)
  BY <1>2 DEF Good, Resting, MayHouse
<1>4. /\ Good(ds) /\ ds[a] = c /\ \A d \in Area \ {a} : ds[d] = bs[d]
      /\ Resting(ds) = R \cup {n}
  <2>0. ds = WithBook(bs, a, c)
    BY DEF WithBook
  <2> HIDE DEF ds
  <2>1. /\ Good(ds) /\ ds[a] = c /\ \A d \in Area \ {a} : ds[d] = bs[d]
        /\ Resting(ds) = (Resting(bs) \ DOMAIN bs[a].by_id) \cup DOMAIN c.by_id
    BY <1>3, <2>0, Rehoused
  <2> HIDE DEF ds
  <2> QED BY <1>1, <1>2, <2>1
<1> HIDE DEF ds
<1>5. /\ \A i \in R : HomeOf(ds, i) = HomeOf(bs, i) /\ Entries(ds)[i] = Entries(bs)[i]
      /\ \A i, j \in R : <<i, j>> \in Queues(ds) <=> <<i, j>> \in Queues(bs)
  <2>1. /\ J \subseteq DOMAIN bs[a].by_id /\ J \subseteq DOMAIN ds[a].by_id
        /\ \A i \in J : ds[a].by_id[i] = bs[a].by_id[i]
        /\ \A i \in J : OpenOf(ds[a], i) = OpenOf(bs[a], i)
        /\ \A i, j \in J : StandsBefore(ds[a], i, j) <=> StandsBefore(bs[a], i, j)
    BY <1>2, <1>4 DEF Kept
  <2>2. (Resting(bs) \ DOMAIN bs[a].by_id) \cup J = R
    BY <1>1
  <2> HIDE DEF J, b, R
  <2>3. LET K == (Resting(bs) \ DOMAIN bs[a].by_id) \cup J
         IN /\ \A i \in K : /\ i \in Resting(bs) /\ i \in Resting(ds)
                            /\ HomeOf(ds, i) = HomeOf(bs, i)
                            /\ (i \in J => OpenOf(ds[a], i) = OpenOf(bs[a], i))
                               => Entries(ds)[i] = Entries(bs)[i]
            /\ (\A i, j \in J : StandsBefore(ds[a], i, j) <=> StandsBefore(bs[a], i, j))
               => \A i, j \in K : <<i, j>> \in Queues(ds) <=> <<i, j>> \in Queues(bs)
    <3>1. Good(ds) /\ ChangeAt(a, bs, ds, J)
      BY <1>4, <2>1 DEF ChangeAt
    <3> HIDE DEF e, n
    <3> QED BY <3>1, BooksKept
  <2> QED BY <2>1, <2>2, <2>3
<1>6. /\ n \in DOMAIN ds[a].by_id /\ HomeOf(ds, n) = a
      /\ Entries(ds)[n] = e
  <2>1. n \in DOMAIN ds[a].by_id
    BY <1>2, <1>4
  <2>2. /\ HomeOf(ds, n) = a
        /\ \E r \in Side, o \in Int :
              /\ ds[a].by_id[n] = <<r, o>>
              /\ Entries(ds)[n] = [area |-> a, period |-> Delivery, side |-> r,
                                   price |-> o, qty |-> OpenOf(ds[a], n)]
    <3> HIDE DEF n, e, b, J, R
    <3>1. Good(ds)
      BY <1>4
    <3>2. HomeOf(ds, n) = a
      BY <2>1, <3>1, AtHome
    <3>3. \E r \in Side, o \in Int :
            /\ ds[a].by_id[n] = <<r, o>>
            /\ Entries(ds)[n] = [area |-> a, period |-> Delivery, side |-> r,
                                 price |-> o, qty |-> OpenOf(ds[a], n)]
      BY <2>1, <3>1, AtHome
    <3> QED BY <3>2, <3>3
  <2> QED BY <1>2, <1>4, <2>1, <2>2
<1>7. Entries(ds) = WithEntry(Entries(bs), n, e)
  <2>1. Entries(ds) = [i \in R \cup {n} |-> Entries(ds)[i]]
    BY <1>4 DEF Entries
  <2>2. DOMAIN Entries(bs) = R
    BY DEF Entries
  <2>3. n \notin R
    OBVIOUS
  <2>4. \A i \in R \cup {n} : Entries(ds)[i] = IF i = n THEN e ELSE Entries(bs)[i]
    BY <1>5, <1>6
  <2> HIDE DEF e, n, R
  <2> QED BY <2>1, <2>2, <2>4 DEF WithEntry
<1>8. Queues(ds) = OlderWith(Entries(bs), Queues(bs), n, e)
  <2> DEFINE X == R \cup {n}
             Q == OlderWith(Entries(bs), Queues(bs), n, e)
  <2>1. Queues(bs) \subseteq R \X R /\ DOMAIN Entries(bs) = R
    BY QueuesOfResting DEF Entries
  <2>2. Queues(ds) \subseteq X \X X
    BY <1>4, QueuesOfResting
  <2>3. Q = Queues(bs) \cup { <<j, n>> : j \in { k \in R \ {n} : SameLevel(Entries(bs)[k], e) } }
    BY <2>1 DEF OlderWith
  <2>4. n \notin R
    OBVIOUS
  <2>5. ASSUME NEW i \in R
        PROVE  /\ <<i, n>> \in Queues(ds) <=> SameLevel(Entries(bs)[i], e)
               /\ ~(<<n, i>> \in Queues(ds))
    <3> DEFINE h == HomeOf(bs, i)
    <3>1. h \in Area /\ i \in DOMAIN bs[h].by_id
      BY Housed
    <3>2. PICK r \in Side, o \in Int :
            /\ bs[h].by_id[i] = <<r, o>>
            /\ Entries(bs)[i] = [area |-> h, period |-> Delivery, side |-> r,
                                 price |-> o, qty |-> OpenOf(bs[h], i)]
      <4> HIDE DEF h
      <4> QED BY <3>1, AtHome
    <3>3. HomeOf(ds, i) = h
      BY <1>5
    <3>4. i \in Resting(ds) /\ n \in Resting(ds)
      BY <1>4
    <3>5. <<i, n>> \in Queues(ds) <=> h = a /\ StandsBefore(ds[h], i, n)
      BY <1>6, <3>3, <3>4, InQueues
    <3>6. <<n, i>> \in Queues(ds) <=> a = h /\ StandsBefore(ds[a], n, i)
      BY <1>6, <3>3, <3>4, InQueues
    <3>7. SameLevel(Entries(bs)[i], e) <=> h = a /\ r = s /\ o = p
      BY <3>2 DEF SameLevel
    <3>8. h = a => (StandsBefore(ds[h], i, n) <=> b.by_id[i] = <<s, p>>)
      BY <1>2, <1>4, <3>1
    <3>9. h = a => ~StandsBefore(ds[a], n, i)
      BY <1>2, <1>4, <3>1
    <3> HIDE DEF h, n, e, R
    <3> QED BY <3>2, <3>5, <3>6, <3>7, <3>8, <3>9
  <2>6. ~(<<n, n>> \in Queues(ds))
    BY <1>2, <1>4, <1>6, InQueues
  <2> HIDE DEF n, e, R
  <2>7. Q \subseteq X \X X
    BY <2>1, <2>3
  <2>8. ASSUME NEW i \in R, NEW j \in R
        PROVE  <<i, j>> \in Queues(ds) <=> <<i, j>> \in Q
    BY <1>5, <2>3, <2>4
  <2>9. ASSUME NEW i \in R
        PROVE  /\ <<i, n>> \in Queues(ds) <=> <<i, n>> \in Q
               /\ <<n, i>> \in Queues(ds) <=> <<n, i>> \in Q
    <3>1. <<i, n>> \in Q <=> SameLevel(Entries(bs)[i], e)
      BY <2>1, <2>3, <2>4
    <3>2. ~(<<n, i>> \in Q)
      BY <2>1, <2>3, <2>4
    <3> QED BY <2>5, <3>1, <3>2
  <2>10. ~(<<n, n>> \in Q)
    BY <2>1, <2>3, <2>4
  <2>11. \A i, j \in X : <<i, j>> \in Queues(ds) <=> <<i, j>> \in Q
    BY <2>6, <2>8, <2>9, <2>10
  <2> HIDE DEF Q, X
  <2>12. Queues(ds) = Q
    BY <2>2, <2>7, <2>11, SamePairs
  <2> QED BY <2>12 DEF Q
<1> QED BY <1>4, <1>7, <1>8 DEF ds, c, n, e

(* An order that is taken off its book leaves the entries and the queues.  *)
LEMMA CancelBooks ==
  ASSUME NEW bs, Good(bs), NEW a \in Area, NEW x \in DOMAIN bs[a].by_id
  PROVE  LET ds == [bs EXCEPT ![a] = Cancel(bs[a], x)]
         IN /\ Good(ds)
            /\ Entries(ds) = Without(Entries(bs), {x})
            /\ Queues(ds) = OlderWithin(Queues(bs), Resting(bs) \ {x})
<1> DEFINE c == Cancel(bs[a], x)
           ds == [bs EXCEPT ![a] = c]
           b == bs[a]
           J == DOMAIN b.by_id \ {x}
           R == Resting(bs)
<1>1. Whole(b) /\ x \in R /\ DOMAIN b.by_id \subseteq R
  BY DEF Good, Resting
<1>2. /\ Whole(c) /\ DOMAIN c.by_id = J /\ Kept(b, c, J)
  <2> HIDE DEF b
  <2>1. x \in DOMAIN b.by_id
    BY DEF b
  <2> QED BY <1>1, <2>1, CancelBook DEF b
<1> HIDE DEF c
<1>3. MayHouse(bs, a, c)
  BY <1>2 DEF Good, MayHouse
<1>4. /\ Good(ds) /\ ds[a] = c /\ \A d \in Area \ {a} : ds[d] = bs[d]
      /\ Resting(ds) = R \ {x}
  <2>0. ds = WithBook(bs, a, c)
    BY DEF WithBook
  <2> HIDE DEF ds
  <2>1. /\ Good(ds) /\ ds[a] = c /\ \A d \in Area \ {a} : ds[d] = bs[d]
        /\ Resting(ds) = (Resting(bs) \ DOMAIN bs[a].by_id) \cup DOMAIN c.by_id
    BY <1>3, <2>0, Rehoused
  <2>2. (R \ DOMAIN b.by_id) \cup J = R \ {x}
    BY <1>1
  <2> HIDE DEF ds, J
  <2> QED BY <1>2, <2>1, <2>2
<1> HIDE DEF ds
<1>5. /\ \A i \in R \ {x} : Entries(ds)[i] = Entries(bs)[i]
      /\ \A i, j \in R \ {x} : <<i, j>> \in Queues(ds) <=> <<i, j>> \in Queues(bs)
  <2>1. /\ J \subseteq DOMAIN bs[a].by_id /\ J \subseteq DOMAIN ds[a].by_id
        /\ \A i \in J : ds[a].by_id[i] = bs[a].by_id[i]
        /\ \A i \in J : OpenOf(ds[a], i) = OpenOf(bs[a], i)
        /\ \A i, j \in J : StandsBefore(ds[a], i, j) <=> StandsBefore(bs[a], i, j)
    BY <1>2, <1>4 DEF Kept
  <2>2. (Resting(bs) \ DOMAIN bs[a].by_id) \cup J = R \ {x}
    BY <1>1
  <2> HIDE DEF J, b, R
  <2>3. LET K == (Resting(bs) \ DOMAIN bs[a].by_id) \cup J
         IN /\ \A i \in K : /\ i \in Resting(bs) /\ i \in Resting(ds)
                            /\ HomeOf(ds, i) = HomeOf(bs, i)
                            /\ (i \in J => OpenOf(ds[a], i) = OpenOf(bs[a], i))
                               => Entries(ds)[i] = Entries(bs)[i]
            /\ (\A i, j \in J : StandsBefore(ds[a], i, j) <=> StandsBefore(bs[a], i, j))
               => \A i, j \in K : <<i, j>> \in Queues(ds) <=> <<i, j>> \in Queues(bs)
    <3>1. Good(ds) /\ ChangeAt(a, bs, ds, J)
      BY <1>4, <2>1 DEF ChangeAt
    <3> QED BY <3>1, BooksKept
  <2> QED BY <2>1, <2>2, <2>3
<1>6. Entries(ds) = Without(Entries(bs), {x})
  <2>1. Entries(ds) = [i \in R \ {x} |-> Entries(ds)[i]]
    BY <1>4 DEF Entries
  <2>2. DOMAIN Entries(bs) = R
    BY DEF Entries
  <2> HIDE DEF R
  <2> QED BY <1>5, <2>1, <2>2 DEF Without
<1>7. Queues(ds) = OlderWithin(Queues(bs), R \ {x})
  <2> DEFINE X == R \ {x}
  <2>1. Queues(ds) \subseteq X \X X
    BY <1>4, QueuesOfResting
  <2>2. OlderWithin(Queues(bs), X) = Queues(bs) \cap (X \X X)
    BY DEF OlderWithin
  <2>3. \A i, j \in X : <<i, j>> \in Queues(ds) <=> <<i, j>> \in Queues(bs)
    BY <1>5
  <2> HIDE DEF X
  <2>4. OlderWithin(Queues(bs), X) \subseteq X \X X
    BY <2>2
  <2>5. \A i, j \in X : <<i, j>> \in Queues(ds) <=> <<i, j>> \in OlderWithin(Queues(bs), X)
    BY <2>2, <2>3
  <2>6. Queues(ds) = OlderWithin(Queues(bs), X)
    BY <2>1, <2>4, <2>5, SamePairs
  <2> QED BY <2>6 DEF X
<1> QED BY <1>4, <1>6, <1>7 DEF ds, c

(* Entry x offers y. *)
WithOffer(B, x, y) == [B EXCEPT ![x].qty = y]

(* A head that gives a part of what it offers is an entry with less.       *)
LEMMA ReduceBooks ==
  ASSUME NEW bs, Good(bs), NEW a \in Area, NEW s \in Side, NEW p \in DOMAIN bs[a].levels[s],
         NEW y \in 1 .. MaxQuantity
  PROVE  LET ds == [bs EXCEPT ![a] = Reduced(bs[a], s, p, y)]
             x == Head(Level(bs[a], s, p)).id
         IN /\ Good(ds)
            /\ Entries(ds) = WithOffer(Entries(bs), x, y)
            /\ Queues(ds) = Queues(bs)
<1> DEFINE c == Reduced(bs[a], s, p, y)
           ds == [bs EXCEPT ![a] = c]
           b == bs[a]
           J == DOMAIN b.by_id
           R == Resting(bs)
           x == Head(Level(bs[a], s, p)).id
<1>1. Whole(b) /\ J \subseteq R
  BY DEF Good, Resting
<1>2. /\ Whole(c) /\ c.by_id = b.by_id /\ x \in J /\ OpenOf(c, x) = y
      /\ \A i \in J \ {x} : OpenOf(c, i) = OpenOf(b, i)
      /\ \A i, j \in J : StandsBefore(c, i, j) <=> StandsBefore(b, i, j)
  <2>1. p \in DOMAIN b.levels[s]
    OBVIOUS
  <2> HIDE DEF b
  <2> QED BY <1>1, <2>1, ReduceBook DEF b
<1> HIDE DEF c, x
<1>3. MayHouse(bs, a, c)
  BY <1>2 DEF Good, MayHouse
<1>4. /\ Good(ds) /\ ds[a] = c /\ \A d \in Area \ {a} : ds[d] = bs[d]
      /\ Resting(ds) = R
  <2>0. ds = WithBook(bs, a, c)
    BY DEF WithBook
  <2> HIDE DEF ds
  <2>1. /\ Good(ds) /\ ds[a] = c /\ \A d \in Area \ {a} : ds[d] = bs[d]
        /\ Resting(ds) = (Resting(bs) \ DOMAIN bs[a].by_id) \cup DOMAIN c.by_id
    BY <1>3, <2>0, Rehoused
  <2> HIDE DEF ds
  <2> QED BY <1>1, <1>2, <2>1
<1> HIDE DEF ds
<1>5. /\ \A i \in R : HomeOf(ds, i) = HomeOf(bs, i)
      /\ \A i \in R \ {x} : Entries(ds)[i] = Entries(bs)[i]
      /\ \A i, j \in R : <<i, j>> \in Queues(ds) <=> <<i, j>> \in Queues(bs)
  <2>1. /\ J \subseteq DOMAIN bs[a].by_id /\ J \subseteq DOMAIN ds[a].by_id
        /\ \A i \in J : ds[a].by_id[i] = bs[a].by_id[i]
        /\ \A i \in J \ {x} : OpenOf(ds[a], i) = OpenOf(bs[a], i)
        /\ \A i, j \in J : StandsBefore(ds[a], i, j) <=> StandsBefore(bs[a], i, j)
    BY <1>2, <1>4
  <2>2. (Resting(bs) \ DOMAIN bs[a].by_id) \cup J = R
    BY <1>1
  <2> HIDE DEF J, b, R
  <2>3. LET K == (Resting(bs) \ DOMAIN bs[a].by_id) \cup J
         IN /\ \A i \in K : /\ i \in Resting(bs) /\ i \in Resting(ds)
                            /\ HomeOf(ds, i) = HomeOf(bs, i)
                            /\ (i \in J => OpenOf(ds[a], i) = OpenOf(bs[a], i))
                               => Entries(ds)[i] = Entries(bs)[i]
            /\ (\A i, j \in J : StandsBefore(ds[a], i, j) <=> StandsBefore(bs[a], i, j))
               => \A i, j \in K : <<i, j>> \in Queues(ds) <=> <<i, j>> \in Queues(bs)
    <3>1. Good(ds) /\ ChangeAt(a, bs, ds, J)
      BY <1>4, <2>1 DEF ChangeAt
    <3> QED BY <3>1, BooksKept
  <2> QED BY <2>1, <2>2, <2>3
<1>6. Entries(ds)[x] = [Entries(bs)[x] EXCEPT !.qty = y] /\ x \in R
  <2>1. x \in DOMAIN bs[a].by_id /\ x \in DOMAIN ds[a].by_id
    BY <1>2, <1>4
  <2>2. PICK r \in Side, o \in Int :
              /\ ds[a].by_id[x] = <<r, o>>
              /\ Entries(ds)[x] = [area |-> a, period |-> Delivery, side |-> r,
                                   price |-> o, qty |-> OpenOf(ds[a], x)]
    BY <1>4, <2>1, AtHome
  <2>3. PICK v \in Side, w \in Int :
              /\ bs[a].by_id[x] = <<v, w>>
              /\ Entries(bs)[x] = [area |-> a, period |-> Delivery, side |-> v,
                                   price |-> w, qty |-> OpenOf(bs[a], x)]
    BY <2>1, AtHome
  <2>4. r = v /\ o = w /\ OpenOf(ds[a], x) = y
    BY <1>2, <1>4, <2>2, <2>3
  <2> QED BY <1>1, <1>2, <2>2, <2>3, <2>4
<1>7. Entries(ds) = [Entries(bs) EXCEPT ![x].qty = y]
  <2>1. Entries(ds) = [i \in R |-> Entries(ds)[i]]
    BY <1>4 DEF Entries
  <2>2. Entries(bs) = [i \in R |-> Entries(bs)[i]]
    BY DEF Entries
  <2> DEFINE B == Entries(bs)
             D == Entries(ds)
  <2>3. [B EXCEPT ![x].qty = y] = [B EXCEPT ![x] = [B[x] EXCEPT !.qty = y]]
    OBVIOUS
  <2>4. [B EXCEPT ![x] = D[x]] = D
    <3> HIDE DEF B, D, R
    <3>1. B = [i \in R |-> B[i]] /\ D = [i \in R |-> D[i]]
      BY <2>1, <2>2 DEF B, D
    <3>2. \A i \in R \ {x} : D[i] = B[i]
      BY <1>5 DEF B, D
    <3> QED BY <1>6, <3>1, <3>2
  <2> QED BY <1>6, <2>3, <2>4
<1>8. Queues(ds) = Queues(bs)
  <2>1. Queues(ds) \subseteq R \X R /\ Queues(bs) \subseteq R \X R
    BY <1>4, QueuesOfResting
  <2> HIDE DEF R
  <2> QED BY <1>5, <2>1, SamePairs
<1> QED BY <1>4, <1>7, <1>8 DEF ds, c, x, WithOffer

-----------------------------------------------------------------------------
(* A sweep under way.  F are its fills so far: of some of the first makers *)
(* by priority, each what the sweep would take of it; `left' is what the   *)
(* taker has left.                                                         *)
Prefix(b, older, t, areas, F, left) ==
  /\ DOMAIN F \subseteq Makers(b, t, areas)
  /\ F = [i \in DOMAIN F |-> F[i]]
  /\ \A i \in DOMAIN F, j \in Makers(b, t, areas) :
       Precedes(b, older, t, j, i) => j \in DOMAIN F
  /\ \A i \in DOMAIN F :
       /\ Depth(b, Ahead(b, older, t, areas, i)) < t.quantity
       /\ F[i] = SmallerOf(b[i].qty, t.quantity - Depth(b, Ahead(b, older, t, areas, i)))
  /\ left = t.quantity - SmallerOf(t.quantity, Depth(b, DOMAIN F))

(* A sweep starts with no fills. *)
LEMMA PrefixStarts ==
  ASSUME NEW b, NEW older, NEW t, NEW areas, t.quantity \in Nat
  PROVE  Prefix(b, older, t, areas, NoFills, t.quantity)
<1>1. DOMAIN NoFills = {} /\ NoFills = [i \in DOMAIN NoFills |-> NoFills[i]]
  BY DEF NoFills
<1>2. Depth(b, DOMAIN NoFills) = 0
  BY <1>1, DepthOfNone
<1>3. t.quantity = t.quantity - SmallerOf(t.quantity, 0)
  BY DEF SmallerOf
<1> QED BY <1>1, <1>2, <1>3 DEF Prefix

(* While the taker has something left, all its makers are used up.         *)
LEMMA PrefixOpen ==
  ASSUME NEW b, NEW older, NEW t, Orderly(b, older, t), NEW areas, t.quantity \in Nat,
         NEW F, NEW left, Prefix(b, older, t, areas, F, left), left > 0
  PROVE  /\ IsFiniteSet(DOMAIN F) /\ Depth(b, DOMAIN F) \in Nat
         /\ left \in Nat /\ left = t.quantity - Depth(b, DOMAIN F)
         /\ \A i \in DOMAIN F : F[i] = b[i].qty
         /\ AfterFills(b, F) = Without(b, DOMAIN F)
<1> DEFINE M == Makers(b, t, areas)
           D == DOMAIN F
           q == t.quantity
           d(i) == Depth(b, Ahead(b, older, t, areas, i))
<1>1. WellFormed(b, older)
  BY DEF Orderly
<1>2. D \subseteq M /\ IsFiniteSet(M) /\ M \subseteq DOMAIN b
  BY <1>1, MakersFinite DEF Prefix
<1>3. IsFiniteSet(D)
  <2> HIDE DEF D, M
  <2> QED BY <1>2, FS_Subset
<1>4. Depth(b, D) \in Nat
  BY <1>3, DepthType
<1>5. left = q - SmallerOf(q, Depth(b, D))
  BY DEF Prefix
<1>6. left \in Nat /\ left = q - Depth(b, D)
  <2> DEFINE n == Depth(b, D)
  <2>1. n \in Nat /\ q \in Nat /\ left = q - SmallerOf(q, n)
    BY <1>4, <1>5
  <2> HIDE DEF n, q
  <2>2. left \in Nat /\ left = q - n
    BY <2>1 DEF SmallerOf
  <2> QED BY <2>2 DEF n
<1>7. ASSUME NEW i \in D PROVE F[i] = b[i].qty
  <2>1. F[i] = SmallerOf(b[i].qty, q - d(i)) /\ i \in M
    BY <1>2 DEF Prefix
  <2>2. d(i) \in Nat /\ b[i].qty \in Nat
    BY <1>1, <2>1, AheadFits, MakersFinite, EntryQuantity
  <2>3. Ahead(b, older, t, areas, i) \subseteq D \ {i}
    <3>1. \A j \in M : Precedes(b, older, t, j, i) => j \in D
      BY DEF Prefix
    <3>2. ~Precedes(b, older, t, i, i)
      BY <1>1, <1>2, NotAheadOfItself
    <3> QED BY <3>1, <3>2 DEF Ahead
  <2>4. Depth(b, (D \ {i}) \cup {i}) = Depth(b, D \ {i}) + b[i].qty
    <3>1. IsFiniteSet(D \ {i}) /\ i \notin D \ {i}
      BY <1>3, FS_RemoveElement
    <3>2. b[i].qty \in 1 .. MaxQuantity
      BY <1>1, <1>2 DEF WellFormed
    <3> HIDE DEF D
    <3> QED BY <3>1, <3>2, DepthAdd
  <2>5. (D \ {i}) \cup {i} = D
    OBVIOUS
  <2>6. d(i) <= Depth(b, D \ {i}) /\ Depth(b, D \ {i}) \in Nat
    <3>1. IsFiniteSet(D \ {i})
      BY <1>3, FS_RemoveElement
    <3> HIDE DEF D
    <3> QED BY <2>3, <3>1, DepthMonotone, DepthType
  <2> DEFINE n == Depth(b, D)
             m == Depth(b, D \ {i})
             v == b[i].qty
             x == d(i)
  <2>7. n = m + v /\ x <= m /\ m \in Nat /\ x \in Nat /\ v \in Nat /\ left = q - n
    BY <1>6, <2>2, <2>4, <2>5, <2>6
  <2>8. F[i] = SmallerOf(v, q - x) /\ q \in Nat
    BY <2>1
  <2> HIDE DEF n, m, v, x, q
  <2>9. v <= q - x
    BY <2>7, <2>8
  <2> QED BY <2>8, <2>9 DEF SmallerOf, v
<1>8. AfterFills(b, F) = Without(b, D)
  <2>1. Consumed(b, F) = D
    BY <1>7 DEF Consumed
  <2>2. AfterFills(b, F) = [i \in DOMAIN b \ D |->
                              IF i \in D THEN [b[i] EXCEPT !.qty = @ - F[i]] ELSE b[i]]
    BY <2>1 DEF AfterFills
  <2> HIDE DEF D
  <2> QED BY <2>2 DEF Without
<1> QED BY <1>3, <1>4, <1>6, <1>7, <1>8

(* The makers the sweep has not come to yet, and their order, are those of *)
(* the books as it has left them.                                          *)
LEMMA MakersLeft ==
  ASSUME NEW b, NEW older, NEW t, NEW areas, NEW D, D \subseteq Makers(b, t, areas)
  PROVE  LET c == Without(b, D)
         IN /\ DOMAIN c = DOMAIN b \ D
            /\ Makers(c, t, areas) = Makers(b, t, areas) \ D
            /\ \A i, j \in DOMAIN c :
                 Precedes(c, OlderWithin(older, DOMAIN c), t, i, j) <=> Precedes(b, older, t, i, j)
<1> DEFINE c == Without(b, D)
<1>1. DOMAIN c = DOMAIN b \ D /\ \A i \in DOMAIN c : c[i] = b[i]
  BY DEF Without
<1> HIDE DEF c
<1>2. Makers(c, t, areas) = Makers(b, t, areas) \ D
  BY <1>1 DEF Makers
<1>3. ASSUME NEW i \in DOMAIN c, NEW j \in DOMAIN c
      PROVE  Precedes(c, OlderWithin(older, DOMAIN c), t, i, j) <=> Precedes(b, older, t, i, j)
  <2>1. c[i] = b[i] /\ c[j] = b[j]
    BY <1>1
  <2>2. <<i, j>> \in OlderWithin(older, DOMAIN c) <=> <<i, j>> \in older
    BY DEF OlderWithin
  <2> QED BY <2>1, <2>2 DEF Precedes
<1> QED BY <1>1, <1>2, <1>3 DEF c

(* The first maker not come to yet is the next.                            *)
LEMMA PrefixGrows ==
  ASSUME NEW b, NEW older, NEW t, Orderly(b, older, t), NEW areas, t.quantity \in Nat,
         NEW F, NEW left, Prefix(b, older, t, areas, F, left), left > 0,
         NEW m \in Makers(b, t, areas) \ DOMAIN F,
         \A j \in (Makers(b, t, areas) \ DOMAIN F) \ {m} : Precedes(b, older, t, m, j)
  PROVE  LET v == SmallerOf(left, b[m].qty)
             G == WithEntry(F, m, v)
         IN /\ Prefix(b, older, t, areas, G, left - v)
            /\ v = b[m].qty => AfterFills(b, G) = Without(AfterFills(b, F), {m})
            /\ v # b[m].qty => AfterFills(b, G) = [AfterFills(b, F) EXCEPT ![m].qty = b[m].qty - v]
<1> DEFINE M == Makers(b, t, areas)
           D == DOMAIN F
           q == t.quantity
           d(i) == Depth(b, Ahead(b, older, t, areas, i))
           v == SmallerOf(left, b[m].qty)
           G == WithEntry(F, m, v)
           n == Depth(b, D)
<1>1. WellFormed(b, older) /\ m \in M /\ m \notin D
  BY DEF Orderly
<1>2. D \subseteq M /\ IsFiniteSet(M) /\ M \subseteq DOMAIN b
  BY <1>1, MakersFinite DEF Prefix
<1>3. /\ IsFiniteSet(D) /\ n \in Nat /\ left \in Nat /\ left = q - n
      /\ \A i \in D : F[i] = b[i].qty
      /\ AfterFills(b, F) = Without(b, D)
  BY PrefixOpen
<1>4. DOMAIN G = D \cup {m} /\ G[m] = v /\ \A i \in D : G[i] = F[i]
  BY <1>1 DEF WithEntry
<1>5. G = [i \in DOMAIN G |-> G[i]]
  BY DEF WithEntry
<1>6. Ahead(b, older, t, areas, m) = D
  <2>1. ASSUME NEW j \in D PROVE Precedes(b, older, t, j, m)
    <3>1. ~Precedes(b, older, t, m, j)
      BY <1>1, <1>2 DEF Prefix
    <3> QED BY <1>1, <1>2, <3>1, PriorityIsOrder
  <2>2. ASSUME NEW j \in M \ D PROVE ~Precedes(b, older, t, j, m)
    <3>1. CASE j = m
      BY <1>1, <1>2, <3>1, NotAheadOfItself
    <3>2. CASE j # m
      <4>1. Precedes(b, older, t, m, j)
        BY <3>2
      <4>2. Precedes(b, older, t, j, m) => Precedes(b, older, t, m, m)
        BY <1>1, <4>1, PriorityIsOrder
      <4>3. ~Precedes(b, older, t, m, m)
        BY <1>1, <1>2, NotAheadOfItself
      <4> QED BY <4>2, <4>3
    <3> QED BY <3>1, <3>2
  <2> QED BY <1>2, <2>1, <2>2 DEF Ahead
<1>7. d(m) = n
  BY <1>6
<1>8. b[m].qty \in 1 .. MaxQuantity /\ b[m].qty \in Nat /\ b[m].qty > 0
  BY <1>1, <1>2, EntryQuantity DEF WellFormed
<1>9. Depth(b, D \cup {m}) = n + b[m].qty
  <2> HIDE DEF D
  <2> QED BY <1>1, <1>3, <1>8, DepthAdd DEF n
<1>10. left - v = q - SmallerOf(q, Depth(b, DOMAIN G))
  <2> DEFINE w == b[m].qty
             x == Depth(b, DOMAIN G)
  <2>1. x = n + w /\ w \in Nat /\ n \in Nat /\ q \in Nat /\ left = q - n /\ left \in Nat
        /\ v = SmallerOf(left, w)
    BY <1>3, <1>4, <1>8, <1>9
  <2> HIDE DEF w, x, n, q, v
  <2>2. CASE left <= w
    <3>1. v = left /\ q <= x
      BY <2>1, <2>2 DEF SmallerOf
    <3>2. SmallerOf(q, x) = q
      BY <3>1 DEF SmallerOf
    <3>3. left - v = 0 /\ q - q = 0
      BY <2>1, <3>1
    <3>4. left - v = q - SmallerOf(q, x)
      BY <3>2, <3>3
    <3> QED BY <3>4 DEF x
  <2>3. CASE ~(left <= w)
    <3>1. v = w /\ ~(q <= x)
      BY <2>1, <2>3 DEF SmallerOf
    <3>2. SmallerOf(q, x) = x
      BY <3>1 DEF SmallerOf
    <3>3. left - v = q - x
      BY <2>1, <3>1
    <3>4. left - v = q - SmallerOf(q, x)
      BY <3>2, <3>3
    <3> QED BY <3>4 DEF x
  <2> QED BY <2>2, <2>3
<1>11. d(m) < q /\ v = SmallerOf(b[m].qty, q - d(m))
  <2> DEFINE w == b[m].qty
             x == d(m)
  <2>1. x = n /\ w \in Nat /\ n \in Nat /\ q \in Nat /\ left = q - n /\ left > 0
        /\ v = SmallerOf(left, w)
    BY <1>3, <1>7, <1>8
  <2> HIDE DEF w, x, n, q, v
  <2>2. x < q /\ v = SmallerOf(w, q - x)
    BY <2>1 DEF SmallerOf
  <2> QED BY <2>2 DEF w, x, q
<1>12. Prefix(b, older, t, areas, G, left - v)
  <2>1. DOMAIN G \subseteq M
    BY <1>1, <1>2, <1>4
  <2>2. ASSUME NEW i \in DOMAIN G, NEW j \in M, Precedes(b, older, t, j, i)
        PROVE  j \in DOMAIN G
    <3>1. CASE i \in D
      BY <1>4, <2>2, <3>1 DEF Prefix
    <3>2. CASE i = m
      <4>1. j \in Ahead(b, older, t, areas, m)
        BY <2>2, <3>2 DEF Ahead
      <4> QED BY <1>4, <1>6, <4>1
    <3> QED BY <1>4, <3>1, <3>2
  <2>3. ASSUME NEW i \in DOMAIN G
        PROVE  d(i) < q /\ G[i] = SmallerOf(b[i].qty, q - d(i))
    <3>1. CASE i \in D
      BY <1>4, <3>1 DEF Prefix
    <3>2. CASE i = m
      <4>1. G[i] = v
        BY <1>4, <3>2
      <4> HIDE DEF G, v, d, q
      <4> QED BY <1>11, <3>2, <4>1
    <3> QED BY <1>4, <3>1, <3>2
  <2> HIDE DEF G, v
  <2> QED BY <1>5, <1>10, <2>1, <2>2, <2>3 DEF Prefix
<1>13. ASSUME v = b[m].qty PROVE AfterFills(b, G) = Without(AfterFills(b, F), {m})
  <2>1. \A i \in DOMAIN G : G[i] = b[i].qty
    BY <1>3, <1>4, <1>13
  <2> HIDE DEF G
  <2>2. Consumed(b, G) = DOMAIN G
    BY <2>1 DEF Consumed
  <2>3. AfterFills(b, G) = [i \in DOMAIN b \ DOMAIN G |->
                              IF i \in DOMAIN G THEN [b[i] EXCEPT !.qty = @ - G[i]] ELSE b[i]]
    BY <2>2 DEF AfterFills
  <2>4. AfterFills(b, G) = [i \in DOMAIN b \ DOMAIN G |-> b[i]]
    BY <2>3
  <2>5. Without(b, D) = [i \in DOMAIN b \ D |-> b[i]]
    BY DEF Without
  <2>6. Without(Without(b, D), {m}) = [i \in (DOMAIN b \ D) \ {m} |-> b[i]]
    <3> HIDE DEF D
    <3> QED BY <2>5 DEF Without
  <2>7. DOMAIN b \ DOMAIN G = (DOMAIN b \ D) \ {m}
    BY <1>4
  <2> QED BY <1>3, <2>4, <2>6, <2>7
<1>14. ASSUME v # b[m].qty
       PROVE  AfterFills(b, G) = [AfterFills(b, F) EXCEPT ![m].qty = b[m].qty - v]
  <2>1. Consumed(b, G) = D
    BY <1>1, <1>3, <1>4, <1>14 DEF Consumed
  <2> HIDE DEF G, v
  <2>2. AfterFills(b, G) = [i \in DOMAIN b \ D |->
                              IF i \in DOMAIN G THEN [b[i] EXCEPT !.qty = @ - G[i]] ELSE b[i]]
    BY <2>1 DEF AfterFills
  <2>3. Without(b, D) = [i \in DOMAIN b \ D |-> b[i]]
    BY DEF Without
  <2> DEFINE A == AfterFills(b, G)
             W == Without(b, D)
  <2>4. m \in DOMAIN b \ D
    BY <1>1, <1>2
  <2>5. DOMAIN W = DOMAIN b \ D /\ W[m] = b[m]
    BY <2>3, <2>4
  <2>6. A[m] = [b[m] EXCEPT !.qty = b[m].qty - v]
    BY <1>4, <2>2, <2>4
  <2>7. \A i \in (DOMAIN b \ D) \ {m} : A[i] = W[i]
    BY <1>4, <2>2, <2>3
  <2>8. A = [i \in DOMAIN b \ D |-> A[i]] /\ W = [i \in DOMAIN b \ D |-> W[i]]
    BY <2>2, <2>3
  <2> HIDE DEF A, W, D
  <2>9. A = [W EXCEPT ![m] = A[m]]
    BY <2>4, <2>7, <2>8
  <2>10. A = [W EXCEPT ![m].qty = b[m].qty - v]
    BY <2>5, <2>6, <2>9
  <2> QED BY <1>3, <2>10 DEF A, W
<1> QED BY <1>12, <1>13, <1>14 DEF G, v

(* Once the taker has nothing left, or there is no maker left, the fills   *)
(* are the sweep's.                                                        *)
LEMMA PrefixDone ==
  ASSUME NEW b, NEW older, NEW t, Orderly(b, older, t), NEW areas, t.quantity \in Nat,
         NEW F, NEW left, Prefix(b, older, t, areas, F, left), ~Killed(b, t, areas),
         left = 0 \/ DOMAIN F = Makers(b, t, areas)
  PROVE  /\ F = Sweep(b, older, t, areas)
         /\ DOMAIN F = Reached(b, older, t, areas)
         /\ left = t.quantity - Executed(b, t, areas)
<1> DEFINE M == Makers(b, t, areas)
           D == DOMAIN F
           q == t.quantity
           d(i) == Depth(b, Ahead(b, older, t, areas, i))
           n == Depth(b, D)
<1>1. WellFormed(b, older)
  BY DEF Orderly
<1>2. D \subseteq M /\ IsFiniteSet(M) /\ M \subseteq DOMAIN b /\ Depth(b, M) \in Nat
  BY <1>1, MakersFinite DEF Prefix
<1>3. n \in Nat /\ n <= Depth(b, M)
  <2>1. IsFiniteSet(D)
    <3> HIDE DEF D, M
    <3> QED BY <1>2, FS_Subset
  <2> HIDE DEF D, M
  <2> QED BY <1>2, <2>1, DepthType, DepthMonotone DEF n
<1>4. left = q - SmallerOf(q, n)
  BY DEF Prefix
<1>5. left = 0 => q <= n
  <2> HIDE DEF n
  <2> QED BY <1>3, <1>4 DEF SmallerOf
<1>6. D = Reached(b, older, t, areas)
  <2>1. ASSUME NEW i \in D PROVE i \in Reached(b, older, t, areas)
    BY <1>2 DEF Prefix, Reached
  <2>2. ASSUME NEW i \in Reached(b, older, t, areas) PROVE i \in D
    <3>1. i \in M /\ d(i) < q
      BY DEF Reached
    <3>2. SUFFICES ASSUME i \notin D PROVE FALSE
      OBVIOUS
    <3>3. q <= n
      BY <1>5, <3>1, <3>2
    <3>4. ASSUME NEW j \in D PROVE j \in Ahead(b, older, t, areas, i)
      <4>1. ~Precedes(b, older, t, i, j)
        BY <3>1, <3>2 DEF Prefix
      <4>2. Precedes(b, older, t, j, i)
        BY <1>2, <3>1, <3>2, <4>1, PriorityIsOrder
      <4> QED BY <1>2, <4>2 DEF Ahead
    <3>5. IsFiniteSet(Ahead(b, older, t, areas, i))
      <4>1. Ahead(b, older, t, areas, i) \subseteq M
        BY DEF Ahead
      <4> QED BY <1>2, <4>1, FS_Subset
    <3>6. n <= d(i) /\ d(i) \in Nat
      <4>1. D \subseteq Ahead(b, older, t, areas, i)
        BY <3>4
      <4> QED BY <3>5, <4>1, DepthMonotone, DepthType
    <3> HIDE DEF n, d
    <3> QED BY <1>3, <3>1, <3>3, <3>6
  <2> QED BY <2>1, <2>2
<1>7. F = Sweep(b, older, t, areas)
  <2> DEFINE S == Sweep(b, older, t, areas)
  <2>1. S = [i \in D |-> SmallerOf(b[i].qty, q - d(i))]
    BY <1>6 DEF Sweep
  <2>2. \A i \in D : F[i] = SmallerOf(b[i].qty, q - d(i))
    BY DEF Prefix
  <2>3. F = [i \in D |-> F[i]]
    BY DEF Prefix
  <2> HIDE DEF D, d, S
  <2>4. F = S
    BY <2>1, <2>2, <2>3
  <2> QED BY <2>4 DEF S
<1>8. left = q - Executed(b, t, areas)
  <2> DEFINE m == Depth(b, M)
  <2>1. Executed(b, t, areas) = SmallerOf(q, m)
    BY DEF Executed
  <2>2. CASE left = 0
    <3>1. q <= n /\ n <= m /\ m \in Nat
      BY <1>2, <1>3, <1>5, <2>2
    <3> HIDE DEF n, m
    <3> QED BY <1>3, <2>1, <2>2, <3>1 DEF SmallerOf
  <2>3. CASE D = M
    BY <1>4, <2>1, <2>3
  <2> QED BY <2>2, <2>3
<1> QED BY <1>6, <1>7, <1>8

-----------------------------------------------------------------------------
(* The candidate books: all of them, in the order they are probed in.      *)
Probing(ks, home, areas) ==
  /\ DOMAIN ks \subseteq Nat
  /\ \A k \in DOMAIN ks : ks[k] \in areas
  /\ \A a \in areas : \E k \in DOMAIN ks : ks[k] = a
  /\ \A j, k \in DOMAIN ks : j < k => ProbedBefore(home, ks[j], ks[k])

(* One order in each area, at one price: price-time priority puts them in  *)
(* the probing order.                                                      *)
OneEach(S) == [a \in S |-> [area |-> a, period |-> 0, side |-> "Sell", price |-> 0, qty |-> 1]]
Prober(home) == [area |-> home, period |-> 0, side |-> "Buy", price |-> 0]

(* The areas besides home can be put in a sequence by rank.                *)
LEMMA SortedAreas ==
  ASSUME NEW home \in Area, NEW S, S \subseteq Area \ {home}
  PROVE  \E ks \in SetToSeqs(S) : \A i, j \in DOMAIN ks :
           i < j => AreaRank[home][ks[i]] < AreaRank[home][ks[j]]
<1> DEFINE b == OneEach(S)
           t == Prober(home)
           P(i, j) == Precedes(b, {}, t, i, j)
           N == Cardinality(S)
           at(i) == Place(b, {}, t, S, i)
           rank(a) == AreaRank[home][a]
<1>1. IsFiniteSet(S) /\ N \in Nat /\ MaxQuantity \in Nat \ {0}
  BY FS_Subset, FS_CardinalityType, MatchLoopAssumption, MatchingAssumption
<1>2. /\ DOMAIN b = S
      /\ \A a \in S : /\ b[a].area = a /\ b[a].period = 0 /\ b[a].side = "Sell"
                      /\ b[a].price = 0 /\ b[a].qty = 1
      /\ t.area = home /\ t.period = 0 /\ t.side = "Buy" /\ t.price = 0
  BY DEF OneEach, Prober
<1> HIDE DEF b, t
<1>3. Orderly(b, {}, t)
  <2>1. WellFormed(b, {})
    BY <1>1, <1>2 DEF WellFormed
  <2>2. Queued(b, {})
    BY <1>2 DEF Queued, SameLevel
  <2> QED BY <1>2, <2>1, <2>2 DEF Orderly
<1>4. Makers(b, t, S) = S
  BY <1>2 DEF Makers, Opposite, Crosses
<1>5. Numbered(b, {}, t, S)
  BY <1>3, <1>4, PlacesAreNumbers
<1>6. /\ \A i \in S : at(i) \in 0 .. N - 1
      /\ \A i, j \in S : at(i) = at(j) => i = j
      /\ \A n \in 0 .. N - 1 : \E i \in S : at(i) = n
  BY <1>5 DEF Numbered
<1>7. ASSUME NEW i \in S, NEW j \in S
      PROVE  P(i, j) <=> rank(i) < rank(j)
  <2>1. i # home /\ j # home
    OBVIOUS
  <2>2. P(i, j) <=> ProbedBefore(home, i, j)
    BY <1>2 DEF Precedes, Better
  <2>3. rank(i) \in Nat /\ rank(j) \in Nat
    BY MatchingAssumption
  <2>4. rank(i) < rank(j) => i # j
    <3> HIDE DEF rank
    <3> QED BY <2>3
  <2> HIDE DEF P
  <2> QED BY <2>1, <2>2, <2>4 DEF ProbedBefore
<1>8. /\ \A i \in S : rank(i) \in Nat
      /\ \A i, j \in S : rank(i) = rank(j) => i = j
  BY MatchingAssumption
<1> HIDE DEF P, rank
<1>9. ASSUME NEW i \in S, NEW j \in S, P(i, j) PROVE at(i) <= at(j)
  <2> DEFINE H(k) == { l \in S : P(l, k) }
  <2>1. H(i) \subseteq H(j) /\ H(j) \subseteq S
    BY <1>7, <1>8, <1>9
  <2>2. IsFiniteSet(H(j))
    <3> HIDE DEF H
    <3> QED BY <1>1, <2>1, FS_Subset
  <2>3. Cardinality(H(i)) <= Cardinality(H(j))
    <3> HIDE DEF H
    <3> QED BY <2>1, <2>2, FS_Subset
  <2>4. at(i) = Cardinality(H(i)) /\ at(j) = Cardinality(H(j))
    BY DEF Place, P
  <2> QED BY <2>3, <2>4
<1> DEFINE ks == [n \in 1 .. N |-> CHOOSE i \in S : at(i) = n - 1]
<1> HIDE DEF at, N
<1>10. ASSUME NEW n \in 1 .. N PROVE ks[n] \in S /\ at(ks[n]) = n - 1
  <2>1. n - 1 \in 0 .. N - 1
    BY <1>1
  <2>2. \E i \in S : at(i) = n - 1
    BY <1>6, <2>1
  <2> QED BY <2>2
<1>11. DOMAIN ks = 1 .. N /\ ks \in [1 .. N -> S]
  BY <1>10
<1> HIDE DEF ks
<1>12. \A i, j \in 1 .. N : i # j => ks[i] # ks[j]
  BY <1>1, <1>10
<1>13. ks \in SetToSeqs(S)
  BY <1>11, <1>12 DEF SetToSeqs, N
<1>14. ASSUME NEW i \in 1 .. N, NEW j \in 1 .. N, i < j
       PROVE  rank(ks[i]) < rank(ks[j])
  <2>1. ~(at(ks[j]) <= at(ks[i]))
    BY <1>1, <1>10, <1>14
  <2>2. ~P(ks[j], ks[i])
    BY <1>9, <1>10, <2>1
  <2>3. ks[i] # ks[j] /\ ks[i] \in S /\ ks[j] \in S
    BY <1>1, <1>10, <1>12, <1>14
  <2> DEFINE x == rank(ks[i])
             y == rank(ks[j])
  <2>4. x \in Nat /\ y \in Nat /\ x # y /\ ~(y < x)
    BY <1>7, <1>8, <2>2, <2>3
  <2> HIDE DEF x, y
  <2>5. x < y
    BY <2>4
  <2> QED BY <2>5 DEF x, y
<1>15. \A i, j \in DOMAIN ks : i < j => AreaRank[home][ks[i]] < AreaRank[home][ks[j]]
  BY <1>11, <1>14 DEF rank
<1> QED BY <1>13, <1>15

(* candidate_keys.                                                         *)
LEMMA KeysProbe ==
  ASSUME NEW home \in Area, NEW areas, areas \subseteq Area, home \in areas
  PROVE  Probing(CandidateKeys(home, areas), home, areas)
<1> DEFINE S == areas \ {home}
           N == Cardinality(S)
           sorted(ks) == \A i, j \in DOMAIN ks :
                           i < j => AreaRank[home][ks[i]] < AreaRank[home][ks[j]]
           rest == CHOOSE ks \in SetToSeqs(S) : sorted(ks)
           all == CandidateKeys(home, areas)
<1>1. rest \in SetToSeqs(S) /\ sorted(rest)
  <2>1. \E ks \in SetToSeqs(S) : sorted(ks)
    BY SortedAreas
  <2> HIDE DEF S, sorted
  <2> QED BY <2>1
<1>2. all = <<home>> \o rest
  BY DEF CandidateKeys
<1>3. IsFiniteSet(S) /\ N \in Nat
  BY FS_Subset, FS_CardinalityType, MatchLoopAssumption
<1> HIDE DEF rest, all
<1>4. rest \in [1 .. N -> S] /\ \A i, j \in 1 .. N : i # j => rest[i] # rest[j]
  BY <1>1 DEF SetToSeqs
<1>5. \A a \in S : \E n \in 1 .. N : rest[n] = a
  <2>1. rest \in Injection(1 .. N, S)
    <3> HIDE DEF S, N
    <3>1. \A i, j \in 1 .. N : rest[i] = rest[j] => i = j
      BY <1>4
    <3> QED BY <1>4, <3>1, Fun_IsInj
  <2>2. IsFiniteSet(1 .. N) /\ Cardinality(1 .. N) = N
    <3> HIDE DEF N
    <3>1. /\ IsFiniteSet(1 .. N)
          /\ Cardinality(1 .. N) = IF 1 > N THEN 0 ELSE N - 1 + 1
      BY <1>3, FS_Interval
    <3> QED BY <1>3, <3>1
  <2>3. rest \in Surjection(1 .. N, S)
    <3>1. Cardinality(1 .. N) = Cardinality(S)
      BY <2>2
    <3> HIDE DEF N, S
    <3> QED BY <1>3, <2>1, <2>2, <3>1, FS_Injection
  <2> HIDE DEF N, S
  <2>4. \A a \in S : \E n \in 1 .. N : rest[n] = a
    BY <2>3 DEF Surjection
  <2> QED BY <2>4
<1> HIDE DEF N
<1>6. rest \in Seq(areas) /\ Len(rest) = N
  BY <1>3, <1>4
<1>7. <<home>> \in Seq(areas) /\ Len(<<home>>) = 1 /\ <<home>>[1] = home
  OBVIOUS
<1>8. /\ all \in Seq(areas) /\ Len(all) = 1 + N
      /\ \A i \in 1 .. 1 + N : all[i] = IF i <= 1 THEN <<home>>[i] ELSE rest[i - 1]
  BY <1>2, <1>6, <1>7, ConcatProperties
<1>9. DOMAIN all = 1 .. 1 + N
  BY <1>8, LenProperties
<1>10. all[1] = home /\ 1 \in DOMAIN all
  BY <1>3, <1>7, <1>8, <1>9
<1>11. ASSUME NEW i \in DOMAIN all, i # 1
       PROVE  i - 1 \in 1 .. N /\ all[i] = rest[i - 1] /\ all[i] \in S
  BY <1>3, <1>4, <1>8, <1>9, <1>11
<1>12. ASSUME NEW n \in 1 .. N PROVE n + 1 \in DOMAIN all /\ all[n + 1] = rest[n]
  <2>1. n + 1 \in 1 .. 1 + N /\ ~(n + 1 <= 1) /\ (n + 1) - 1 = n
    BY <1>3
  <2> QED BY <1>8, <1>9, <2>1
<1>13. DOMAIN all \subseteq Nat
  BY <1>3, <1>9
<1>14. \A k \in DOMAIN all : all[k] \in areas
  BY <1>10, <1>11
<1>15. ASSUME NEW a \in areas PROVE \E k \in DOMAIN all : all[k] = a
  <2>1. CASE a = home
    BY <1>10, <2>1
  <2>2. CASE a # home
    <3>1. PICK n \in 1 .. N : rest[n] = a
      BY <1>5, <2>2
    <3> QED BY <1>12, <3>1
  <2> QED BY <2>1, <2>2
<1>16. ASSUME NEW j \in DOMAIN all, NEW k \in DOMAIN all, j < k
       PROVE  ProbedBefore(home, all[j], all[k])
  <2>1. k # 1
    BY <1>3, <1>9, <1>16
  <2>2. all[k] \in S /\ all[k] = rest[k - 1] /\ k - 1 \in 1 .. N
    BY <1>11, <2>1
  <2>3. CASE j = 1
    BY <1>10, <2>2, <2>3 DEF ProbedBefore
  <2>4. CASE j # 1
    <3>1. all[j] \in S /\ all[j] = rest[j - 1] /\ j - 1 \in 1 .. N
      BY <1>11, <2>4
    <3>2. j - 1 < k - 1 /\ j - 1 # k - 1
      BY <1>13, <1>16
    <3>3. DOMAIN rest = 1 .. N
      BY <1>4
    <3>4. AreaRank[home][rest[j - 1]] < AreaRank[home][rest[k - 1]]
      BY <1>1, <2>2, <3>1, <3>2, <3>3
    <3>5. rest[j - 1] # rest[k - 1]
      BY <1>4, <2>2, <3>1, <3>2
    <3> QED BY <2>2, <3>1, <3>4, <3>5 DEF ProbedBefore
  <2> QED BY <2>3, <2>4
<1>17. Probing(all, home, areas)
  BY <1>13, <1>14, <1>15, <1>16 DEF Probing
<1> QED BY <1>17 DEF all

-----------------------------------------------------------------------------
(* The loop's choice.  What one turn starts from: sound books, and a taker *)
(* and the candidate books it is probing.                                  *)
Choosing(areas) ==
  /\ Good(books) /\ areas \subseteq Area /\ taker.area \in areas
  /\ taker.side \in Side /\ taker.price \in Int /\ taker.period = Delivery
  /\ Probing(keys, taker.area, areas)

(* The best price on the k-th candidate book and the order at its head.    *)
FrontPrice(k) == PeekOpposite(books[keys[k]], taker.side)
FrontOf(k) == Head(Level(books[keys[k]], Opposite(taker.side), FrontPrice(k))).id

(* Probed books are all different, and one is probed before another iff it *)
(* comes first.                                                            *)
LEMMA ProbedKeys ==
  ASSUME NEW areas, areas \subseteq Area, NEW h \in areas, NEW ks, Probing(ks, h, areas),
         NEW j \in DOMAIN ks, NEW k \in DOMAIN ks
  PROVE  /\ ks[j] \in areas /\ ks[j] \in Area
         /\ j # k => ks[j] # ks[k]
         /\ ProbedBefore(h, ks[j], ks[k]) <=> j < k
<1>1. /\ ks[j] \in areas /\ ks[k] \in areas /\ h \in Area
      /\ j \in Nat /\ k \in Nat
      /\ j < k => ProbedBefore(h, ks[j], ks[k])
      /\ k < j => ProbedBefore(h, ks[k], ks[j])
  BY DEF Probing
<1>2. j # k => j < k \/ k < j
  BY <1>1
<1>3. AreaRank[h][ks[j]] \in Nat /\ AreaRank[h][ks[k]] \in Nat
  BY <1>1, MatchingAssumption
<1>4. ~(ProbedBefore(h, ks[j], ks[k]) /\ ProbedBefore(h, ks[k], ks[j]))
  BY <1>1, <1>3 DEF ProbedBefore
<1>5. j = k => ~ProbedBefore(h, ks[j], ks[k])
  BY DEF ProbedBefore
<1>6. j # k => ks[j] # ks[k]
  BY <1>1, <1>2 DEF ProbedBefore
<1> QED BY <1>1, <1>2, <1>4, <1>5, <1>6

(* The candidate books are all different. *)
LEMMA KeysDiffer ==
  ASSUME NEW areas, Choosing(areas), NEW j \in DOMAIN keys, NEW k \in DOMAIN keys
  PROVE  /\ keys[j] \in areas /\ keys[j] \in Area
         /\ j # k => keys[j] # keys[k]
         /\ ProbedBefore(taker.area, keys[j], keys[k]) => j < k
BY ProbedKeys DEF Choosing

(* The head of the best level of a book that can trade is a maker.         *)
LEMMA FrontIsMaker ==
  ASSUME NEW areas, Choosing(areas), NEW k \in Marketable
  PROVE  /\ k \in DOMAIN keys
         /\ FrontOf(k) \in Makers(Entries(books), taker, areas)
         /\ FrontOf(k) \in DOMAIN books[keys[k]].by_id
         /\ Entries(books)[FrontOf(k)].area = keys[k]
         /\ Entries(books)[FrontOf(k)].price = FrontPrice(k)
         /\ Entries(books)[FrontOf(k)].qty = OpenOf(books[keys[k]], FrontOf(k))
         /\ FrontPrice(k) \in Int
<1> DEFINE a == keys[k]
           x == FrontOf(k)
           p == FrontPrice(k)
           s == Opposite(taker.side)
<1>1. /\ k \in DOMAIN keys /\ ~OppositeIsEmpty(books[a], taker.side)
      /\ Crosses(taker.side, taker.price, p)
  BY DEF Marketable, FrontPrice
<1>2. a \in Area /\ a \in areas /\ Whole(books[a]) /\ taker.side \in Side
      /\ Good(books) /\ taker.period = Delivery
  BY <1>1, KeysDiffer DEF Choosing, Good
<1>3. /\ p \in Int /\ x \in DOMAIN books[a].by_id /\ books[a].by_id[x] = <<s, p>>
  <2>1. 1 \in Nat \ {0}
    OBVIOUS
  <2> QED BY <1>1, <1>2, <2>1, FrontMaker DEF FrontOf, FrontPrice
<1> HIDE DEF a, x, p, s
<1>4. /\ x \in Resting(books)
      /\ \E r \in Side, o \in Int :
              /\ books[a].by_id[x] = <<r, o>>
              /\ Entries(books)[x] = [area |-> a, period |-> Delivery, side |-> r,
                                      price |-> o, qty |-> OpenOf(books[a], x)]
  BY <1>2, <1>3, AtHome
<1>5. Entries(books)[x] = [area |-> a, period |-> Delivery, side |-> s,
                           price |-> p, qty |-> OpenOf(books[a], x)]
  BY <1>3, <1>4
<1>6. x \in Makers(Entries(books), taker, areas)
  <2>1. x \in DOMAIN Entries(books)
    BY <1>4 DEF Entries
  <2> HIDE DEF Choosing
  <2> QED BY <1>1, <1>2, <1>5, <2>1 DEF Makers, s
<1> QED BY <1>1, <1>3, <1>5, <1>6 DEF a, x, p

(* Every maker stands on a book that can trade, not ahead of its head.     *)
LEMMA BehindFront ==
  ASSUME NEW areas, Choosing(areas), NEW i \in Makers(Entries(books), taker, areas)
  PROVE  \E k \in Marketable :
           /\ keys[k] = Entries(books)[i].area
           /\ ~Better(taker.side, Entries(books)[i].price, FrontPrice(k))
           /\ Entries(books)[i].price \in Int
           /\ Entries(books)[i].price = FrontPrice(k) /\ i # FrontOf(k)
              => <<FrontOf(k), i>> \in Queues(books)
<1> DEFINE B == Entries(books)
           s == Opposite(taker.side)
<1>1. /\ i \in DOMAIN B /\ B[i].area \in areas /\ B[i].side = s
      /\ Crosses(taker.side, taker.price, B[i].price)
  BY DEF Makers
<1>2. i \in Resting(books) /\ Good(books) /\ taker.side \in Side /\ taker.price \in Int
  BY <1>1 DEF Entries, Choosing
<1> DEFINE a == HomeOf(books, i)
<1>3. a \in Area /\ i \in DOMAIN books[a].by_id
  BY <1>2, Housed
<1> HIDE DEF a
<1>4. PICK r \in Side, o \in Int :
              /\ books[a].by_id[i] = <<r, o>>
              /\ B[i] = [area |-> a, period |-> Delivery, side |-> r,
                         price |-> o, qty |-> OpenOf(books[a], i)]
  BY <1>2, <1>3, AtHome
<1> HIDE DEF B
<1>5. r = s /\ B[i].area = a /\ B[i].price = o
  BY <1>1, <1>4
<1>6. PICK k \in DOMAIN keys : keys[k] = a
  BY <1>1, <1>5 DEF Choosing, Probing
<1> DEFINE b == books[a]
           p == FrontPrice(k)
           x == FrontOf(k)
<1>7. Whole(b) /\ s \in Side
  BY <1>2, <1>3 DEF Good, Opposite, Side
<1>8. PICK n \in Nat : /\ o \in DOMAIN b.levels[s] /\ n = PlaceOf(b, i)
                       /\ n \in DOMAIN Level(b, s, o) /\ Level(b, s, o)[n].id = i
  <2>1. \E v \in Side, w \in Int :
           /\ b.by_id[i] = <<v, w>> /\ w \in DOMAIN b.levels[v]
           /\ PlaceOf(b, i) \in DOMAIN Level(b, v, w)
           /\ Level(b, v, w)[PlaceOf(b, i)].id = i
           /\ PlaceOf(b, i) \in Nat
    BY <1>3, <1>7, IndexPlace
  <2> HIDE DEF b, s
  <2> QED BY <1>4, <1>5, <2>1 DEF b
<1>9. ~OppositeIsEmpty(b, taker.side)
  BY <1>8 DEF OppositeIsEmpty
<1>10. /\ p \in Int /\ \A q \in DOMAIN b.levels[s] : ~Better(taker.side, q, p)
       /\ x \in DOMAIN b.by_id /\ b.by_id[x] = <<s, p>>
       /\ \A j \in DOMAIN b.by_id : ~StandsBefore(b, j, x)
  <2>1. 1 \in Nat \ {0}
    OBVIOUS
  <2> QED BY <1>2, <1>6, <1>7, <1>9, <2>1, FrontMaker DEF FrontOf, FrontPrice
<1>11. ~Better(taker.side, o, p)
  BY <1>8, <1>10
<1>12. k \in Marketable
  <2>1. Crosses(taker.side, taker.price, p)
    <3> HIDE DEF p
    <3> QED BY <1>1, <1>2, <1>5, <1>10, <1>11 DEF Crosses, Better, Side
  <2> QED BY <1>6, <1>9, <2>1 DEF Marketable, FrontPrice
<1>13. ASSUME o = p, i # x PROVE <<x, i>> \in Queues(books)
  <2> HIDE DEF p, x, s
  <2>1. b.by_id[x] = b.by_id[i]
    BY <1>4, <1>5, <1>10, <1>13
  <2>2. ~(PlaceOf(b, i) < PlaceOf(b, x))
    BY <1>3, <1>10, <2>1 DEF StandsBefore
  <2>3. PlaceOf(b, x) # PlaceOf(b, i) /\ PlaceOf(b, x) \in Nat /\ PlaceOf(b, i) \in Nat
    <3>1. QueueOf(b, x) = QueueOf(b, i)
      BY <2>1 DEF QueueOf
    <3>2. QueueOf(b, x)[PlaceOf(b, x)].id = x /\ PlaceOf(b, x) \in Nat
      BY <1>7, <1>10, IndexPlace
    <3>3. QueueOf(b, i)[PlaceOf(b, i)].id = i /\ PlaceOf(b, i) \in Nat
      BY <1>3, <1>7, IndexPlace
    <3> QED BY <1>13, <3>1, <3>2, <3>3
  <2>4. PlaceOf(b, x) < PlaceOf(b, i)
    <3> DEFINE y == PlaceOf(b, x)
               z == PlaceOf(b, i)
    <3>1. y \in Nat /\ z \in Nat /\ y # z /\ ~(z < y)
      BY <2>2, <2>3
    <3> HIDE DEF y, z
    <3>2. y < z
      BY <3>1
    <3> QED BY <3>2 DEF y, z
  <2>5. StandsBefore(b, x, i)
    BY <2>1, <2>4 DEF StandsBefore
  <2>6. HomeOf(books, x) = a /\ HomeOf(books, i) = a /\ x \in Resting(books)
    BY <1>2, <1>3, <1>10, AtHome
  <2> QED BY <1>2, <2>5, <2>6, InQueues
<1> QED BY <1>5, <1>6, <1>11, <1>12, <1>13 DEF B

(* The loop takes the first of all makers by price-time priority; there is *)
(* a book to take from as long as there is a maker.                        *)
LEMMA BestIsFirst ==
  ASSUME NEW areas, Choosing(areas)
  PROVE  LET B == Entries(books)
             M == Makers(B, taker, areas)
         IN /\ Marketable = {} <=> M = {}
            /\ Marketable # {} =>
                 /\ BestKey \in Marketable
                 /\ \A j \in M \ {FrontOf(BestKey)} :
                      Precedes(B, Queues(books), taker, FrontOf(BestKey), j)
<1> DEFINE B == Entries(books)
           M == Makers(B, taker, areas)
           P(i, j) == Precedes(B, Queues(books), taker, i, j)
           first(k) == \A j \in Marketable \ {k} :
                         \/ Better(taker.side, FrontPrice(k), FrontPrice(j))
                         \/ FrontPrice(k) = FrontPrice(j) /\ k < j
<1>1. Marketable = {} <=> M = {}
  <2>1. \A k \in Marketable : FrontOf(k) \in M
    BY FrontIsMaker
  <2>2. \A i \in M : \E k \in Marketable : keys[k] = B[i].area
    BY BehindFront
  <2> HIDE DEF M
  <2> QED BY <2>1, <2>2
<1>2. ASSUME Marketable # {} PROVE \E k \in Marketable : first(k)
  <2> DEFINE D == { FrontOf(k) : k \in Marketable }
  <2>1. D \subseteq M /\ D # {}
    BY <1>2, FrontIsMaker
  <2>2. Orderly(B, Queues(books), taker)
    BY GoodOrderly DEF Choosing
  <2>3. PICK i \in D : \A j \in D \ {i} : P(i, j)
    <3> HIDE DEF D
    <3> QED BY <2>1, <2>2, FirstAndLast
  <2>4. PICK k \in Marketable : i = FrontOf(k)
    BY <2>3
  <2>5. ASSUME NEW j \in Marketable \ {k}
        PROVE  \/ Better(taker.side, FrontPrice(k), FrontPrice(j))
               \/ FrontPrice(k) = FrontPrice(j) /\ k < j
    <3> DEFINE x == FrontOf(k)
               y == FrontOf(j)
    <3>1. /\ k \in DOMAIN keys /\ B[x].area = keys[k] /\ B[x].price = FrontPrice(k)
          /\ j \in DOMAIN keys /\ B[y].area = keys[j] /\ B[y].price = FrontPrice(j)
      BY FrontIsMaker
    <3>2. keys[k] # keys[j] /\ (ProbedBefore(taker.area, keys[k], keys[j]) => k < j)
      BY <3>1, KeysDiffer
    <3>3. x # y /\ y \in D
      BY <3>1, <3>2
    <3>4. P(x, y)
      BY <2>3, <2>4, <3>3
    <3> HIDE DEF x, y, B
    <3> QED BY <3>1, <3>2, <3>4 DEF Precedes
  <2> QED BY <2>5
<1>3. ASSUME Marketable # {} PROVE BestKey \in Marketable /\ first(BestKey)
  <2>1. BestKey = CHOOSE k \in Marketable : first(k)
    BY DEF BestKey, FrontPrice
  <2> HIDE DEF first
  <2> QED BY <1>2, <1>3, <2>1
<1>4. ASSUME Marketable # {}, NEW i \in M \ {FrontOf(BestKey)} PROVE P(FrontOf(BestKey), i)
  <2> DEFINE k == BestKey
             x == FrontOf(k)
  <2>1. k \in Marketable /\ first(k)
    BY <1>3, <1>4
  <2>2. /\ k \in DOMAIN keys /\ B[x].area = keys[k] /\ B[x].price = FrontPrice(k)
        /\ FrontPrice(k) \in Int
    BY <2>1, FrontIsMaker
  <2>3. PICK j \in Marketable :
           /\ keys[j] = B[i].area
           /\ ~Better(taker.side, B[i].price, FrontPrice(j))
           /\ B[i].price \in Int
           /\ B[i].price = FrontPrice(j) /\ i # FrontOf(j) => <<FrontOf(j), i>> \in Queues(books)
    BY BehindFront
  <2>4. j \in DOMAIN keys /\ FrontPrice(j) \in Int
    BY FrontIsMaker
  <2>5. taker.side \in Side
    BY DEF Choosing
  <2>6. CASE j = k
    <3>1. i # FrontOf(j)
      BY <2>6
    <3> HIDE DEF k, x, B
    <3>2. \/ Better(taker.side, B[x].price, B[i].price)
          \/ B[x].price = B[i].price
      BY <2>2, <2>3, <2>5, <2>6 DEF Better, Side
    <3> QED BY <2>2, <2>3, <2>6, <3>1, <3>2 DEF Precedes, x, k
  <2>7. CASE j # k
    <3>1. \/ Better(taker.side, FrontPrice(k), FrontPrice(j))
          \/ FrontPrice(k) = FrontPrice(j) /\ k < j
      BY <2>1, <2>7
    <3>2. k < j => ProbedBefore(taker.area, keys[k], keys[j])
      BY <2>2, <2>4 DEF Choosing, Probing
    <3> HIDE DEF k, x, B
    <3>3. \/ Better(taker.side, B[x].price, B[i].price)
          \/ B[x].price = B[i].price /\ k < j
      BY <2>2, <2>3, <2>4, <2>5, <3>1 DEF Better, Side
    <3> QED BY <2>2, <2>3, <3>2, <3>3 DEF Precedes, x, k
  <2> QED BY <2>6, <2>7
<1> HIDE DEF M, P
<1> QED BY <1>1, <1>3, <1>4 DEF M, P

(* One turn of the loop: the first maker gives what the taker still wants, *)
(* all it offers, and is off its book, or a part.                          *)
LEMMA TurnTakes ==
  ASSUME NEW areas, Choosing(areas), Marketable # {}, taker.quantity \in Nat \ {0}
  PROVE  LET a == keys[BestKey]
             x == FrontOf(BestKey)
             B == Entries(books)
             c == ConsumeFront(books[a], taker.side, taker.quantity)
             ds == [books EXCEPT ![a] = c.book]
         IN /\ Good(ds) /\ a \in Area /\ x \in Resting(books)
            /\ c.maker = x /\ c.taken = SmallerOf(taker.quantity, B[x].qty)
            /\ B[x].qty \in 1 .. MaxQuantity
            /\ c.taken = B[x].qty =>
                 /\ Entries(ds) = Without(B, {x})
                 /\ Queues(ds) = OlderWithin(Queues(books), Resting(books) \ {x})
            /\ c.taken # B[x].qty =>
                 /\ Entries(ds) = [B EXCEPT ![x].qty = B[x].qty - c.taken]
                 /\ Queues(ds) = Queues(books)
<1> DEFINE k == BestKey
           a == keys[k]
           x == FrontOf(k)
           B == Entries(books)
           c == ConsumeFront(books[a], taker.side, taker.quantity)
           ds == [books EXCEPT ![a] = c.book]
           s == Opposite(taker.side)
           p == FrontPrice(k)
<1>1. k \in Marketable
  BY BestIsFirst
<1>2. /\ k \in DOMAIN keys /\ x \in DOMAIN books[a].by_id
      /\ B[x].qty = OpenOf(books[a], x)
  BY <1>1, FrontIsMaker
<1>3. a \in Area /\ Whole(books[a]) /\ taker.side \in Side /\ Good(books)
  BY <1>2, KeysDiffer DEF Choosing, Good
<1>4. ~OppositeIsEmpty(books[a], taker.side)
  BY <1>1 DEF Marketable
<1>5. /\ s \in Side /\ p \in DOMAIN books[a].levels[s]
      /\ x = Head(Level(books[a], s, p)).id
      /\ c.maker = x /\ c.taken = SmallerOf(taker.quantity, OpenOf(books[a], x))
      /\ OpenOf(books[a], x) \in 1 .. MaxQuantity
      /\ c.taken = OpenOf(books[a], x) => c.book = Cancel(books[a], x)
      /\ c.taken # OpenOf(books[a], x) =>
           /\ OpenOf(books[a], x) - c.taken \in 1 .. MaxQuantity
           /\ c.book = Reduced(books[a], s, p, OpenOf(books[a], x) - c.taken)
  <2> DEFINE b == books[a]
             ss == Opposite(taker.side)
             pp == PeekOpposite(b, taker.side)
             xx == Head(Level(b, ss, pp)).id
  <2>1. p = pp /\ x = xx
    BY DEF FrontOf, FrontPrice
  <2>2. Whole(b) /\ taker.side \in Side /\ ~OppositeIsEmpty(b, taker.side)
    BY <1>3, <1>4
  <2> HIDE DEF a, x, p
  <2>3. LET d == ConsumeFront(b, taker.side, taker.quantity)
        IN /\ ss \in Side /\ pp \in DOMAIN b.levels[ss]
           /\ d.maker = xx /\ d.taken = SmallerOf(taker.quantity, OpenOf(b, xx))
           /\ OpenOf(b, xx) \in 1 .. MaxQuantity
           /\ d.taken = OpenOf(b, xx) => d.book = Cancel(b, xx)
           /\ d.taken # OpenOf(b, xx) =>
                /\ OpenOf(b, xx) - d.taken \in 1 .. MaxQuantity
                /\ d.book = Reduced(b, ss, pp, OpenOf(b, xx) - d.taken)
    <3> HIDE DEF b
    <3> QED BY <2>2, FrontMaker
  <2> QED BY <2>1, <2>3
<1> HIDE DEF a, x, c, s, p
<1>6. ASSUME c.taken = B[x].qty
      PROVE  /\ Good(ds) /\ Entries(ds) = Without(B, {x})
             /\ Queues(ds) = OlderWithin(Queues(books), Resting(books) \ {x})
  <2>1. c.book = Cancel(books[a], x)
    BY <1>2, <1>5, <1>6
  <2>2. LET es == [books EXCEPT ![a] = Cancel(books[a], x)]
        IN /\ Good(es) /\ Entries(es) = Without(Entries(books), {x})
           /\ Queues(es) = OlderWithin(Queues(books), Resting(books) \ {x})
    BY <1>2, <1>3, CancelBooks
  <2> QED BY <2>1, <2>2
<1>7. ASSUME c.taken # B[x].qty
      PROVE  /\ Good(ds) /\ Entries(ds) = [B EXCEPT ![x].qty = B[x].qty - c.taken]
             /\ Queues(ds) = Queues(books)
  <2> DEFINE y == B[x].qty - c.taken
  <2>1. y \in 1 .. MaxQuantity /\ c.book = Reduced(books[a], s, p, y)
    BY <1>2, <1>5, <1>7
  <2> HIDE DEF y
  <2>2. LET es == [books EXCEPT ![a] = Reduced(books[a], s, p, y)]
             z == Head(Level(books[a], s, p)).id
        IN /\ Good(es) /\ Entries(es) = WithOffer(Entries(books), z, y)
           /\ Queues(es) = Queues(books)
    <3> HIDE DEF B, ds, k
    <3>1. /\ Good(books) /\ a \in Area /\ s \in Side /\ p \in DOMAIN books[a].levels[s]
          /\ y \in 1 .. MaxQuantity
      BY <1>3, <1>5, <2>1
    <3> QED BY <3>1, ReduceBooks
  <2>3. /\ Good(ds) /\ Entries(ds) = WithOffer(B, x, y)
        /\ Queues(ds) = Queues(books)
    BY <1>5, <2>1, <2>2
  <2> QED BY <2>3 DEF y, WithOffer
<1>8. x \in Resting(books)
  BY <1>2, <1>3 DEF Resting
<1> HIDE DEF ds, B
<1> QED BY <1>2, <1>3, <1>5, <1>6, <1>7, <1>8 DEF a, x, c, ds, B

-----------------------------------------------------------------------------
(* The checks before the match.  The entries S of a walk w are named after *)
(* the orders T, each once.                                                *)
Names(w, S, b, T) ==
  /\ \A i \in T : \E x \in S : w[x].id = i
  /\ \A x \in S : w[x].id \in T /\ w[x].qty = b[w[x].id].qty
  /\ \A x, y \in S : w[x].id = w[y].id => x = y

(* They are as deep.                                                       *)
LEMMA DepthRenamed ==
  ASSUME NEW w, NEW S, NEW b, NEW T, IsFiniteSet(T), Names(w, S, b, T)
  PROVE  Depth(w, S) = Depth(b, T)
<1> DEFINE at(i) == CHOOSE x \in S : w[x].id = i
           f == [l \in Lots(b, T) |-> <<at(l[1]), l[2]>>]
<1>1. \A i \in T : at(i) \in S /\ w[at(i)].id = i
  BY DEF Names
<1>2. \A x \in S : at(w[x].id) = x
  BY <1>1 DEF Names
<1> HIDE DEF at
<1>3. ASSUME NEW l \in Lots(b, T)
      PROVE  /\ f[l] \in Lots(w, S) /\ l = <<l[1], l[2]>> /\ l[1] \in T
             /\ f[l] = <<at(l[1]), l[2]>>
  <2>1. l[1] \in T /\ l[2] \in 1 .. MaxQuantity /\ l[2] <= b[l[1]].qty /\ l = <<l[1], l[2]>>
    BY DEF Lots
  <2>2. at(l[1]) \in S /\ w[at(l[1])].qty = b[l[1]].qty
    BY <1>1, <2>1 DEF Names
  <2> QED BY <2>1, <2>2 DEF Lots
<1>4. ASSUME NEW l \in Lots(b, T), NEW m \in Lots(b, T), f[l] = f[m] PROVE l = m
  <2>1. at(l[1]) = at(m[1]) /\ l[2] = m[2]
    BY <1>3, <1>4
  <2>2. l[1] = m[1]
    <3>1. w[at(l[1])].id = l[1] /\ w[at(m[1])].id = m[1]
      BY <1>1, <1>3
    <3> QED BY <2>1, <3>1
  <2> QED BY <1>3, <2>1, <2>2
<1>5. ASSUME NEW l \in Lots(w, S) PROVE \E m \in Lots(b, T) : f[m] = l
  <2>1. l[1] \in S /\ l[2] \in 1 .. MaxQuantity /\ l[2] <= w[l[1]].qty /\ l = <<l[1], l[2]>>
    BY DEF Lots
  <2> DEFINE m == <<w[l[1]].id, l[2]>>
  <2>2. m \in Lots(b, T)
    BY <2>1 DEF Lots, Names
  <2>3. f[m] = l
    BY <1>2, <2>1, <2>2
  <2> QED BY <2>2, <2>3
<1>6. f \in Bijection(Lots(b, T), Lots(w, S))
  <2>1. f \in [Lots(b, T) -> Lots(w, S)]
    BY <1>3
  <2> HIDE DEF f
  <2> QED BY <1>4, <1>5, <2>1, Fun_IsBij
<1>7. ExistsBijection(Lots(b, T), Lots(w, S))
  BY <1>6 DEF ExistsBijection
<1>8. Cardinality(Lots(w, S)) = Cardinality(Lots(b, T))
  BY <1>7, DepthType, FS_Bijection
<1> QED BY <1>8 DEF Depth, Lots

(* The entries of one book a taker may come to.                            *)
LEMMA BookWalk ==
  ASSUME NEW b, Whole(b), NEW side \in Side, NEW limit, NEW x
  PROVE  LET o == MarketableOrders(b, side, limit)
             s == Opposite(side)
         IN /\ x \in DOMAIN o =>
                 /\ x = <<x[1], x[2]>> /\ x[1] \in Int /\ x[2] \in Nat
                 /\ o[x].id \in DOMAIN b.by_id /\ b.by_id[o[x].id] = <<s, x[1]>>
                 /\ PlaceOf(b, o[x].id) = x[2] /\ Crosses(side, limit, x[1])
                 /\ o[x].price = x[1] /\ o[x].qty = OpenOf(b, o[x].id)
            /\ \A i \in DOMAIN b.by_id, p \in Int :
                 b.by_id[i] = <<s, p>> /\ Crosses(side, limit, p) =>
                   /\ <<p, PlaceOf(b, i)>> \in DOMAIN o
                   /\ o[<<p, PlaceOf(b, i)>>].id = i
<1> DEFINE o == MarketableOrders(b, side, limit)
           s == Opposite(side)
           l == b.levels[s]
           D == UNION { {p} \X DOMAIN l[p] : p \in { q \in DOMAIN l : Crosses(side, limit, q) } }
<1>1. s \in Side
  BY DEF Opposite, Side
<1>2. o = [y \in D |-> [id |-> l[y[1]][y[2]].id, price |-> y[1], qty |-> l[y[1]][y[2]].open_qty]]
  BY DEF MarketableOrders
<1> HIDE DEF o
<1>3. ASSUME NEW y PROVE y \in D <=> /\ y = <<y[1], y[2]>> /\ y[1] \in DOMAIN l
                                      /\ y[2] \in DOMAIN l[y[1]] /\ Crosses(side, limit, y[1])
  <2>1. ASSUME y \in D PROVE /\ y = <<y[1], y[2]>> /\ y[1] \in DOMAIN l
                              /\ y[2] \in DOMAIN l[y[1]] /\ Crosses(side, limit, y[1])
    <3>1. PICK q \in DOMAIN l : Crosses(side, limit, q) /\ y \in {q} \X DOMAIN l[q]
      BY <2>1
    <3>2. y = <<y[1], y[2]>> /\ y[1] = q /\ y[2] \in DOMAIN l[q]
      BY <3>1
    <3> QED BY <3>1, <3>2
  <2>2. ASSUME y = <<y[1], y[2]>>, y[1] \in DOMAIN l,
               y[2] \in DOMAIN l[y[1]], Crosses(side, limit, y[1])
        PROVE  y \in D
    <3>1. y \in {y[1]} \X DOMAIN l[y[1]]
      BY <2>2
    <3> QED BY <2>2, <3>1
  <2> QED BY <2>1, <2>2
<1> HIDE DEF D
<1>4. ASSUME NEW p \in DOMAIN l PROVE Level(b, s, p) = l[p] /\ p \in Int /\ l[p] \in Queue
  BY <1>1, LevelQueue
<1>5. ASSUME x \in DOMAIN o
      PROVE  /\ x = <<x[1], x[2]>> /\ x[1] \in Int /\ x[2] \in Nat
             /\ o[x].id \in DOMAIN b.by_id /\ b.by_id[o[x].id] = <<s, x[1]>>
             /\ PlaceOf(b, o[x].id) = x[2] /\ Crosses(side, limit, x[1])
             /\ o[x].price = x[1] /\ o[x].qty = OpenOf(b, o[x].id)
  <2>1. /\ x = <<x[1], x[2]>> /\ x[1] \in DOMAIN l
        /\ x[2] \in DOMAIN l[x[1]] /\ Crosses(side, limit, x[1])
    BY <1>2, <1>3, <1>5
  <2>2. /\ Level(b, s, x[1]) = l[x[1]] /\ x[1] \in Int /\ l[x[1]] \in Queue
    BY <1>4, <2>1
  <2>3. x[2] \in Nat
    <3>1. DOMAIN l[x[1]] = 1 .. Len(l[x[1]]) /\ Len(l[x[1]]) \in Nat
      BY <2>2, QueueEntry
    <3> QED BY <2>1, <3>1
  <2>4. /\ o[x].id = l[x[1]][x[2]].id /\ o[x].price = x[1] /\ o[x].qty = l[x[1]][x[2]].open_qty
    BY <1>2, <1>5
  <2> HIDE DEF s, l
  <2>5. LET i == Level(b, s, x[1])[x[2]].id
         IN /\ i \in DOMAIN b.by_id /\ b.by_id[i] = <<s, x[1]>>
            /\ QueueOf(b, i) = Level(b, s, x[1]) /\ PlaceOf(b, i) = x[2]
            /\ OpenOf(b, i) = Level(b, s, x[1])[x[2]].open_qty
    BY <1>1, <2>1, <2>2, PlaceIndex
  <2> QED BY <2>1, <2>2, <2>3, <2>4, <2>5
<1>6. ASSUME NEW i \in DOMAIN b.by_id, NEW p \in Int,
             b.by_id[i] = <<s, p>>, Crosses(side, limit, p)
      PROVE  <<p, PlaceOf(b, i)>> \in DOMAIN o /\ o[<<p, PlaceOf(b, i)>>].id = i
  <2>1. PICK v \in Side, q \in Int :
           /\ b.by_id[i] = <<v, q>> /\ q \in DOMAIN b.levels[v]
           /\ PlaceOf(b, i) \in DOMAIN Level(b, v, q)
           /\ Level(b, v, q)[PlaceOf(b, i)].id = i
    BY IndexPlace
  <2> HIDE DEF s
  <2>2. v = s /\ q = p
    BY <1>6, <2>1
  <2> DEFINE n == PlaceOf(b, i)
             y == <<p, n>>
  <2>3. p \in DOMAIN l /\ Level(b, s, p) = l[p]
    BY <1>4, <2>1, <2>2
  <2>4. n \in DOMAIN l[p] /\ l[p][n].id = i
    BY <2>1, <2>2, <2>3
  <2> HIDE DEF n, l
  <2>5. y[1] = p /\ y[2] = n
    OBVIOUS
  <2>6. y \in D
    <3> HIDE DEF y
    <3>1. y = <<y[1], y[2]>>
      BY <2>5 DEF y
    <3> QED BY <1>3, <1>6, <2>3, <2>4, <2>5, <3>1
  <2>7. o[y].id = i /\ y \in DOMAIN o
    <3> HIDE DEF y
    <3> QED BY <1>2, <2>4, <2>5, <2>6
  <2> QED BY <2>7 DEF n
<1> QED BY <1>5, <1>6 DEF o

(* A taker that comes in over the books ks of areas. *)
Incoming(t, areas, ks) ==
  /\ Good(books) /\ areas \subseteq Area /\ t.area \in areas
  /\ t.side \in Side /\ t.price \in Int /\ t.period = Delivery
  /\ Probing(ks, t.area, areas)

(* The walk over all candidate books comes to the makers, each once.       *)
LEMMA WalkNames ==
  ASSUME NEW t, NEW areas, NEW ks, Incoming(t, areas, ks)
  PROVE  LET w == Walked(t, ks)
             B == Entries(books)
         IN /\ \A x \in DOMAIN w :
                 /\ x[1] \in DOMAIN ks /\ x[2][2] \in Nat
                 /\ B[w[x].id].area = ks[x[1]] /\ B[w[x].id].price = w[x].price
                 /\ B[w[x].id].side = Opposite(t.side)
                 /\ w[x].id \in DOMAIN books[ks[x[1]]].by_id
                 /\ books[ks[x[1]]].by_id[w[x].id] = <<Opposite(t.side), w[x].price>>
                 /\ PlaceOf(books[ks[x[1]]], w[x].id) = x[2][2]
            /\ Names(w, DOMAIN w, B, Makers(B, t, areas))
<1> DEFINE w == Walked(t, ks)
           B == Entries(books)
           s == Opposite(t.side)
           M == Makers(B, t, areas)
           o(k) == MarketableOrders(books[ks[k]], t.side, t.price)
           D == UNION { {k} \X DOMAIN o(k) : k \in DOMAIN ks }
<1>1. w = [x \in D |-> o(x[1])[x[2]]]
  BY DEF Walked
<1>2. Good(books) /\ t.side \in Side /\ t.price \in Int /\ t.period = Delivery
  BY DEF Incoming
<1>3. ASSUME NEW k \in DOMAIN ks
      PROVE  ks[k] \in areas /\ ks[k] \in Area /\ Whole(books[ks[k]])
  BY <1>2, ProbedKeys DEF Incoming, Good
<1>4. \A x : x \in D <=> x = <<x[1], x[2]>> /\ x[1] \in DOMAIN ks /\ x[2] \in DOMAIN o(x[1])
  <2> HIDE DEF o
  <2>1. ASSUME NEW x \in D PROVE x = <<x[1], x[2]>> /\ x[1] \in DOMAIN ks /\ x[2] \in DOMAIN o(x[1])
    <3>1. PICK k \in DOMAIN ks : x \in {k} \X DOMAIN o(k)
      OBVIOUS
    <3>2. x = <<x[1], x[2]>> /\ x[1] = k /\ x[2] \in DOMAIN o(k)
      BY <3>1
    <3> QED BY <3>2
  <2>2. ASSUME NEW x, x = <<x[1], x[2]>>, x[1] \in DOMAIN ks, x[2] \in DOMAIN o(x[1])
        PROVE  x \in D
    <3>1. x \in {x[1]} \X DOMAIN o(x[1])
      BY <2>2
    <3> QED BY <2>2, <3>1
  <2> HIDE DEF D
  <2> QED BY <2>1, <2>2
<1> HIDE DEF D, w
<1>5. ASSUME NEW x \in DOMAIN w
      PROVE  LET a == ks[x[1]]
                 i == w[x].id
             IN /\ x = <<x[1], x[2]>> /\ x[1] \in DOMAIN ks /\ a \in areas
                /\ x[2] = <<x[2][1], x[2][2]>>
                /\ x[2][2] \in Nat /\ x[2][1] = w[x].price
                /\ i \in DOMAIN books[a].by_id /\ books[a].by_id[i] = <<s, w[x].price>>
                /\ PlaceOf(books[a], i) = x[2][2]
                /\ B[i].area = a /\ B[i].price = w[x].price /\ B[i].qty = w[x].qty
                /\ B[i].side = s /\ i \in M
  <2> DEFINE k == x[1]
             a == ks[k]
             y == x[2]
             i == w[x].id
  <2>1. x = <<k, y>> /\ k \in DOMAIN ks /\ y \in DOMAIN o(k) /\ w[x] = o(k)[y]
    BY <1>1, <1>4
  <2>2. a \in areas /\ a \in Area /\ Whole(books[a])
    BY <1>3, <2>1
  <2> HIDE DEF k, y
  <2>3. /\ y = <<y[1], y[2]>> /\ y[1] \in Int /\ y[2] \in Nat
        /\ w[x].id \in DOMAIN books[a].by_id /\ books[a].by_id[w[x].id] = <<s, y[1]>>
        /\ PlaceOf(books[a], w[x].id) = y[2] /\ Crosses(t.side, t.price, y[1])
        /\ w[x].price = y[1] /\ w[x].qty = OpenOf(books[a], w[x].id)
    <3> HIDE DEF a
    <3>1. y \in DOMAIN MarketableOrders(books[a], t.side, t.price)
      BY <2>1 DEF a
    <3>2. w[x] = MarketableOrders(books[a], t.side, t.price)[y]
      BY <2>1 DEF a
    <3> QED BY <1>2, <2>2, <3>1, <3>2, BookWalk
  <2> HIDE DEF a, i
  <2>4. /\ i \in DOMAIN books[a].by_id /\ books[a].by_id[i] = <<s, w[x].price>>
        /\ PlaceOf(books[a], i) = y[2] /\ w[x].qty = OpenOf(books[a], i)
    BY <2>3 DEF i
  <2>5. /\ i \in Resting(books)
        /\ \E r \in Side, p \in Int :
              /\ books[a].by_id[i] = <<r, p>>
              /\ B[i] = [area |-> a, period |-> Delivery, side |-> r,
                         price |-> p, qty |-> OpenOf(books[a], i)]
    BY <1>2, <2>2, <2>4, AtHome
  <2>6. B[i] = [area |-> a, period |-> Delivery, side |-> s,
                price |-> w[x].price, qty |-> w[x].qty]
    BY <2>4, <2>5
  <2>7. i \in M
    <3>1. i \in DOMAIN B
      BY <2>5 DEF Entries
    <3> HIDE DEF B
    <3> QED BY <1>2, <2>2, <2>3, <2>6, <3>1 DEF Makers
  <2> HIDE DEF B, s, M
  <2>8. /\ x = <<k, y>> /\ k \in DOMAIN ks /\ a \in areas
        /\ y = <<y[1], y[2]>> /\ y[2] \in Nat /\ y[1] = w[x].price
        /\ B[i].area = a /\ B[i].price = w[x].price /\ B[i].qty = w[x].qty
        /\ B[i].side = s
    <3>1. x = <<k, y>> /\ k \in DOMAIN ks /\ a \in areas
      BY <2>1, <2>2
    <3>2. y = <<y[1], y[2]>> /\ y[2] \in Nat /\ y[1] = w[x].price
      BY <2>3
    <3>3. /\ B[i].area = a /\ B[i].price = w[x].price /\ B[i].qty = w[x].qty
          /\ B[i].side = s
      BY <2>6
    <3> QED BY <3>1, <3>2, <3>3
  <2> QED BY <2>4, <2>7, <2>8 DEF a, i, k, y
<1>6. ASSUME NEW i \in M PROVE \E x \in DOMAIN w : w[x].id = i
  <2>1. i \in Resting(books) /\ B[i].area \in areas /\ B[i].side = s
        /\ Crosses(t.side, t.price, B[i].price)
    BY DEF Makers, Entries
  <2> DEFINE a == HomeOf(books, i)
  <2>2. a \in Area /\ i \in DOMAIN books[a].by_id
    BY <1>2, <2>1, Housed
  <2> HIDE DEF a
  <2>3. PICK r \in Side, p \in Int :
              /\ books[a].by_id[i] = <<r, p>>
              /\ B[i] = [area |-> a, period |-> Delivery, side |-> r,
                         price |-> p, qty |-> OpenOf(books[a], i)]
    BY <1>2, <2>2, AtHome
  <2> HIDE DEF B
  <2>4. r = s /\ a \in areas /\ Crosses(t.side, t.price, p)
    BY <2>1, <2>3
  <2>5. PICK k \in DOMAIN ks : ks[k] = a
    BY <2>4 DEF Incoming, Probing
  <2> DEFINE y == <<p, PlaceOf(books[a], i)>>
             x == <<k, y>>
  <2>6. y \in DOMAIN o(k) /\ o(k)[y].id = i
    <3>1. Whole(books[a])
      BY <1>3, <2>5
    <3> QED BY <1>2, <2>2, <2>3, <2>4, <2>5, <3>1, BookWalk
  <2> HIDE DEF o, y
  <2>7. x = <<x[1], x[2]>> /\ x[1] = k /\ x[2] = y
    OBVIOUS
  <2> HIDE DEF x
  <2>8. x \in D
    BY <1>4, <2>6, <2>7
  <2> QED BY <1>1, <2>6, <2>7, <2>8
<1>7. ASSUME NEW x \in DOMAIN w, NEW y \in DOMAIN w, w[x].id = w[y].id PROVE x = y
  <2>1. x = <<x[1], x[2]>> /\ y = <<y[1], y[2]>>
    BY <1>5
  <2>2. ks[x[1]] = ks[y[1]] /\ x[1] \in DOMAIN ks /\ y[1] \in DOMAIN ks
    BY <1>5, <1>7
  <2>3. x[1] = y[1]
    <3> DEFINE j == x[1]
               k == y[1]
    <3>1. areas \subseteq Area /\ t.area \in areas /\ Probing(ks, t.area, areas)
      BY DEF Incoming
    <3> HIDE DEF j, k
    <3>2. j \in DOMAIN ks /\ k \in DOMAIN ks => (j # k => ks[j] # ks[k])
      BY <3>1, ProbedKeys
    <3> QED BY <2>2, <3>2 DEF j, k
  <2>4. x[2][1] = y[2][1] /\ x[2][2] = y[2][2]
    BY <1>5, <1>7, <2>3
  <2>5. x[2] = <<x[2][1], x[2][2]>> /\ y[2] = <<y[2][1], y[2][2]>>
    BY <1>5
  <2> QED BY <2>1, <2>3, <2>4, <2>5
<1> HIDE DEF B, s, M
<1>8. Names(w, DOMAIN w, B, M)
  BY <1>5, <1>6, <1>7 DEF Names
<1> QED BY <1>5, <1>8 DEF w, B, s, M

(* The order of the walk is priority. *)
LEMMA WalkOrder ==
  ASSUME NEW t, NEW areas, NEW ks, Incoming(t, areas, ks),
         NEW x \in DOMAIN Walked(t, ks), NEW y \in DOMAIN Walked(t, ks)
  PROVE  LET w == Walked(t, ks)
         IN Precedes(Entries(books), Queues(books), t, w[y].id, w[x].id) <=>
              \/ Better(t.side, w[y].price, w[x].price)
              \/ /\ w[y].price = w[x].price
                 /\ \/ y[1] < x[1]
                    \/ y[1] = x[1] /\ y[2][2] < x[2][2]
<1> DEFINE w == Walked(t, ks)
           B == Entries(books)
           i == w[x].id
           j == w[y].id
           a == ks[x[1]]
           c == ks[y[1]]
           s == Opposite(t.side)
<1>1. ASSUME NEW z \in DOMAIN w
      PROVE  LET e == w[z].id
                 h == ks[z[1]]
             IN /\ z[1] \in DOMAIN ks /\ z[2][2] \in Nat
                /\ B[e].area = h /\ B[e].price = w[z].price
                /\ e \in DOMAIN books[h].by_id /\ books[h].by_id[e] = <<s, w[z].price>>
                /\ PlaceOf(books[h], e) = z[2][2]
  <2>1. LET v == Walked(t, ks)
            C == Entries(books)
        IN /\ \A u \in DOMAIN v :
                 /\ u[1] \in DOMAIN ks /\ u[2][2] \in Nat
                 /\ C[v[u].id].area = ks[u[1]] /\ C[v[u].id].price = v[u].price
                 /\ C[v[u].id].side = Opposite(t.side)
                 /\ v[u].id \in DOMAIN books[ks[u[1]]].by_id
                 /\ books[ks[u[1]]].by_id[v[u].id] = <<Opposite(t.side), v[u].price>>
                 /\ PlaceOf(books[ks[u[1]]], v[u].id) = u[2][2]
            /\ Names(v, DOMAIN v, C, Makers(C, t, areas))
    BY WalkNames
  <2> QED BY <2>1
<1> HIDE DEF B, w, s
<1>2. /\ x[1] \in DOMAIN ks /\ B[i].area = a /\ B[i].price = w[x].price
      /\ i \in DOMAIN books[a].by_id /\ books[a].by_id[i] = <<s, w[x].price>>
      /\ PlaceOf(books[a], i) = x[2][2]
  BY <1>1 DEF w
<1>3. /\ y[1] \in DOMAIN ks /\ B[j].area = c /\ B[j].price = w[y].price
      /\ j \in DOMAIN books[c].by_id /\ books[c].by_id[j] = <<s, w[y].price>>
      /\ PlaceOf(books[c], j) = y[2][2]
  BY <1>1 DEF w
<1>4. /\ a \in Area /\ c \in Area
      /\ y[1] # x[1] => c # a
      /\ ProbedBefore(t.area, c, a) <=> y[1] < x[1]
  <2> DEFINE k == x[1]
             l == y[1]
  <2>1. areas \subseteq Area /\ t.area \in areas /\ Probing(ks, t.area, areas)
    BY DEF Incoming
  <2>2. k \in DOMAIN ks /\ l \in DOMAIN ks
    BY <1>2, <1>3
  <2> HIDE DEF k, l
  <2>3. /\ ks[k] \in Area /\ ks[l] \in Area
        /\ l # k => ks[l] # ks[k]
        /\ ProbedBefore(t.area, ks[l], ks[k]) <=> l < k
    BY <2>1, <2>2, ProbedKeys
  <2> QED BY <2>3 DEF k, l
<1>5. y[1] = x[1] => c = a
  OBVIOUS
<1> HIDE DEF i, j, a, c
<1>6. /\ HomeOf(books, i) = a /\ i \in Resting(books)
      /\ HomeOf(books, j) = c /\ j \in Resting(books)
  <2>1. Good(books)
    BY DEF Incoming
  <2>2. HomeOf(books, i) = a /\ i \in Resting(books)
    BY <1>2, <1>4, <2>1, AtHome
  <2>3. HomeOf(books, j) = c /\ j \in Resting(books)
    BY <1>3, <1>4, <2>1, AtHome
  <2> QED BY <2>2, <2>3
<1>7. <<j, i>> \in Queues(books) <=> c = a /\ StandsBefore(books[c], j, i)
  BY <1>6, InQueues
<1>8. ASSUME c = a, w[y].price = w[x].price
      PROVE  <<j, i>> \in Queues(books) <=> y[2][2] < x[2][2]
  BY <1>2, <1>3, <1>7, <1>8 DEF StandsBefore
<1>9. Precedes(B, Queues(books), t, j, i) <=>
              \/ Better(t.side, w[y].price, w[x].price)
              \/ /\ w[y].price = w[x].price
                 /\ \/ ProbedBefore(t.area, c, a)
                    \/ c = a /\ <<j, i>> \in Queues(books)
  BY <1>2, <1>3 DEF Precedes
<1>10. Precedes(B, Queues(books), t, j, i) <=>
              \/ Better(t.side, w[y].price, w[x].price)
              \/ /\ w[y].price = w[x].price
                 /\ \/ y[1] < x[1]
                    \/ y[1] = x[1] /\ y[2][2] < x[2][2]
  <2>1. c = a <=> y[1] = x[1]
    BY <1>4, <1>5
  <2> QED BY <1>4, <1>8, <1>9, <2>1
<1> QED BY <1>10 DEF B, w, i, j

(* The self-trade check comes to the makers a sweep comes to, and the      *)
(* fill-or-kill check sees the depth a sweep sees.                         *)
LEMMA ChecksForesee ==
  ASSUME NEW t, NEW areas, NEW ks, Incoming(t, areas, ks)
  PROVE  /\ SelfTradeWalk(t, ks) = Reached(Entries(books), Queues(books), t, areas)
         /\ Infeasible(t, ks) <=> Killed(Entries(books), t, areas)
<1> DEFINE w == Walked(t, ks)
           B == Entries(books)
           O == Queues(books)
           M == Makers(B, t, areas)
           A(i) == Ahead(B, O, t, areas, i)
           ahead(x) == { y \in DOMAIN w :
                          \/ Better(t.side, w[y].price, w[x].price)
                          \/ /\ w[y].price = w[x].price
                             /\ \/ y[1] < x[1]
                                \/ y[1] = x[1] /\ y[2][2] < x[2][2] }
<1>1. Names(w, DOMAIN w, B, M)
  BY WalkNames
<1>2. IsFiniteSet(M)
  <2>1. Orderly(B, O, t)
    BY GoodOrderly DEF Incoming
  <2> QED BY <2>1, MakersFinite DEF Orderly
<1>3. \A x, y \in DOMAIN w : y \in ahead(x) <=> Precedes(B, O, t, w[y].id, w[x].id)
  BY WalkOrder
<1>4. \A i \in M : A(i) \subseteq M /\ \A j \in M : j \in A(i) <=> Precedes(B, O, t, j, i)
  BY DEF Ahead
<1>5. \A x : ahead(x) \subseteq DOMAIN w
  OBVIOUS
<1>6. SelfTradeWalk(t, ks)
        = { w[x].id : x \in { y \in DOMAIN w : Depth(w, ahead(y)) < t.quantity } }
  BY DEF SelfTradeWalk
<1>7. Reached(B, O, t, areas) = { i \in M : Depth(B, A(i)) < t.quantity }
  BY DEF Reached
<1>8. Infeasible(t, ks) <=> t.mode = "FillOrKill" /\ Depth(w, DOMAIN w) < t.quantity
  BY DEF Infeasible
<1>9. Killed(B, t, areas) <=> t.mode = "FillOrKill" /\ Depth(B, M) < t.quantity
  BY DEF Killed
<1> HIDE DEF w, M, A, ahead, B, O
<1>10. Depth(w, DOMAIN w) = Depth(B, M)
  BY <1>1, <1>2, DepthRenamed
<1>11. ASSUME NEW x \in DOMAIN w PROVE Depth(w, ahead(x)) = Depth(B, A(w[x].id))
  <2>1. w[x].id \in M
    BY <1>1 DEF Names
  <2>2. Names(w, ahead(x), B, A(w[x].id))
    <3>1. \A i \in A(w[x].id) : \E y \in ahead(x) : w[y].id = i
      <4> SUFFICES ASSUME NEW i \in A(w[x].id) PROVE \E y \in ahead(x) : w[y].id = i
        OBVIOUS
      <4>1. i \in M /\ Precedes(B, O, t, i, w[x].id)
        BY <1>4, <2>1
      <4>2. PICK y \in DOMAIN w : w[y].id = i
        BY <1>1, <4>1 DEF Names
      <4> QED BY <1>3, <4>1, <4>2
    <3>2. \A y \in ahead(x) : w[y].id \in A(w[x].id) /\ w[y].qty = B[w[y].id].qty
      <4> SUFFICES ASSUME NEW y \in ahead(x)
                   PROVE  w[y].id \in A(w[x].id) /\ w[y].qty = B[w[y].id].qty
        OBVIOUS
      <4>1. y \in DOMAIN w /\ w[y].id \in M /\ w[y].qty = B[w[y].id].qty
        BY <1>1, <1>5 DEF Names
      <4>2. Precedes(B, O, t, w[y].id, w[x].id)
        BY <1>3, <4>1
      <4> QED BY <1>4, <2>1, <4>1, <4>2
    <3>3. \A y, z \in ahead(x) : w[y].id = w[z].id => y = z
      BY <1>1, <1>5 DEF Names
    <3> QED BY <3>1, <3>2, <3>3 DEF Names
  <2>3. IsFiniteSet(A(w[x].id))
    BY <1>2, <1>4, <2>1, FS_Subset
  <2> QED BY <2>2, <2>3, DepthRenamed
<1>12. ASSUME NEW i \in SelfTradeWalk(t, ks) PROVE i \in Reached(B, O, t, areas)
  <2>1. PICK x \in DOMAIN w : Depth(w, ahead(x)) < t.quantity /\ i = w[x].id
    BY <1>6
  <2>2. i \in M
    BY <1>1, <2>1 DEF Names
  <2> QED BY <1>7, <1>11, <2>1, <2>2
<1>13. ASSUME NEW i \in Reached(B, O, t, areas) PROVE i \in SelfTradeWalk(t, ks)
  <2>1. i \in M /\ Depth(B, A(i)) < t.quantity
    BY <1>7
  <2>2. PICK x \in DOMAIN w : w[x].id = i
    BY <1>1, <2>1 DEF Names
  <2>3. Depth(w, ahead(x)) < t.quantity
    BY <1>11, <2>1, <2>2
  <2> QED BY <1>6, <2>2, <2>3
<1>14. SelfTradeWalk(t, ks) = Reached(B, O, t, areas)
  BY <1>12, <1>13
<1> QED BY <1>8, <1>9, <1>10, <1>14 DEF B, O

-----------------------------------------------------------------------------
(* The loop's invariant.  B and O are the books and queues the sweep       *)
(* started from, as the market has them.                                   *)

(* The matcher of one book, on the book b: after as many turns as there    *)
(* are fills it has come to c, the fills F and what is left.               *)
Alone(b, t, c, F, left) ==
  LET n == Cardinality(DOMAIN F)
  IN /\ n \in 0 .. Cardinality(DOMAIN b.by_id)
     /\ Turns(b, t.side, t.price, t.quantity)[n] = [book |-> c, left |-> left, fills |-> F]
     /\ ~(t.mode = "FillOrKill" /\ MarketableDepth(b, t.side, t.price) < t.quantity)

(* What is fixed when the order t comes in on the books `start'.           *)
Started(start, t, areas, i, ks, w) ==
  /\ i \in Id \ Resting(start)
  /\ t.area \in areas
  /\ ks = CandidateKeys(t.area, areas)
  /\ ~Killed(Entries(start), t, areas)
  /\ w = Reached(Entries(start), Queues(start), t, areas)

(* The fills F are the first ones of its sweep, and the books bs those     *)
(* that are left by them.                                                  *)
Underway(start, t, areas, ks, bs, F, left) ==
  LET b == AfterFills(Entries(start), F)
  IN /\ Prefix(Entries(start), Queues(start), t, areas, F, left)
     /\ Entries(bs) = b
     /\ Queues(bs) = OlderWithin(Queues(start), DOMAIN b)
     /\ ks = <<t.area>> => Alone(start[t.area], t, bs[t.area], F, left)

(* What the matcher still carries of the order t. *)
WhatIsLeft(tk, t) == tk = [t EXCEPT !.quantity = tk.quantity]

(* Nothing more to do. *)
Ended(t, areas) ==
  taker.quantity = 0 \/ DOMAIN taken = Makers(Entries(committed), t, areas)

Sweeping(t, areas) ==
  /\ Started(committed, t, areas, id, keys, walk)
  /\ Underway(committed, t, areas, keys, books, taken, taker.quantity)
  /\ WhatIsLeft(taker, t)
  /\ pc = "sweep" => taker.quantity > 0
  /\ pc = "rest" => Ended(t, areas)

LoopInv ==
  /\ Good(books) /\ Good(committed)
  /\ pc \in {"idle", "sweep", "rest"}
  /\ pc = "idle" => books = committed
  /\ pc # "idle" => \E t \in Takers, areas \in Reach : Sweeping(t, areas)

(* The first n turns of the matcher of one book. *)
FirstTurns(f, n, start, side, price) ==
  f = [m \in 0 .. n |-> IF m = 0 THEN start ELSE Turn(f[m - 1], side, price)]

(* There are turns to any number. *)
LEMMA TurnsExist ==
  ASSUME NEW start, NEW side, NEW price, NEW n \in Nat
  PROVE  \E f : FirstTurns(f, n, start, side, price)
<1> DEFINE S == { m \in Nat : ~ \E f : FirstTurns(f, m, start, side, price) }
<1> SUFFICES ASSUME S # {} PROVE FALSE
  OBVIOUS
<1>1. PICK k \in S : \A m \in S : k <= m
  BY LeastNat
<1>2. k \in Nat /\ ~ \E f : FirstTurns(f, k, start, side, price)
  OBVIOUS
<1>3. k # 0
  <2>1. FirstTurns([m \in 0 .. 0 |-> start], 0, start, side, price)
    <3> DEFINE f == [m \in 0 .. 0 |-> start]
    <3>1. f = [m \in 0 .. 0 |-> IF m = 0 THEN start ELSE Turn(f[m - 1], side, price)]
      OBVIOUS
    <3> QED BY <3>1 DEF FirstTurns
  <2> QED BY <1>2, <2>1
<1>4. k - 1 \in Nat /\ k - 1 < k
  BY <1>2, <1>3
<1>5. PICK f : FirstTurns(f, k - 1, start, side, price)
  <2>1. k - 1 \notin S
    BY <1>1, <1>2, <1>4
  <2> QED BY <1>4, <2>1
<1> DEFINE l == k - 1
           g == [m \in 0 .. k |-> IF m = k THEN Turn(f[l], side, price) ELSE f[m]]
           h == [m \in 0 .. k |-> IF m = 0 THEN start ELSE Turn(g[m - 1], side, price)]
<1>6. \A m \in 0 .. l : f[m] = IF m = 0 THEN start ELSE Turn(f[m - 1], side, price)
  <2> DEFINE r == [m \in 0 .. l |-> IF m = 0 THEN start ELSE Turn(f[m - 1], side, price)]
  <2>1. f = r
    BY <1>5 DEF FirstTurns
  <2>2. \A m \in 0 .. l : r[m] = IF m = 0 THEN start ELSE Turn(f[m - 1], side, price)
    OBVIOUS
  <2> QED BY <2>1, <2>2
<1>7. ASSUME NEW m \in 0 .. k PROVE g[m] = h[m]
  <2>1. CASE m = 0
    <3>1. g[m] = f[m] /\ h[m] = start
      BY <1>2, <1>3, <2>1
    <3>2. 0 \in 0 .. l
      BY <1>4
    <3> QED BY <1>6, <2>1, <3>1, <3>2
  <2>2. CASE m # 0 /\ m # k
    <3>1. m \in 0 .. l /\ m - 1 \in 0 .. k /\ m - 1 # k
      BY <1>2, <1>4, <2>2
    <3>2. g[m] = f[m] /\ h[m] = Turn(g[m - 1], side, price) /\ g[m - 1] = f[m - 1]
      BY <2>2, <3>1
    <3> QED BY <1>6, <2>2, <3>1, <3>2
  <2>3. CASE m = k
    <3>1. l \in 0 .. k /\ l # k
      BY <1>2, <1>4
    <3>2. g[l] = f[l] /\ g[m] = Turn(f[l], side, price) /\ h[m] = Turn(g[m - 1], side, price)
      BY <1>3, <2>3, <3>1
    <3> QED BY <2>3, <3>2
  <2> QED BY <2>1, <2>2, <2>3
<1>8. g = h
  BY <1>7
<1>9. FirstTurns(g, k, start, side, price)
  BY <1>8 DEF FirstTurns
<1> QED BY <1>2, <1>9

(* Each turn starts where the last one ended. *)
LEMMA TurnByTurn ==
  ASSUME NEW b, IsFiniteSet(DOMAIN b.by_id), NEW side, NEW price, NEW quantity
  PROVE  LET turns == Turns(b, side, price, quantity)
             N == Cardinality(DOMAIN b.by_id)
         IN /\ N \in Nat
            /\ turns[0] = [book |-> b, left |-> quantity, fills |-> NoFills]
            /\ \A n \in 1 .. N : turns[n] = Turn(turns[n - 1], side, price)
<1> DEFINE T == Turns(b, side, price, quantity)
           N == Cardinality(DOMAIN b.by_id)
           start == [book |-> b, left |-> quantity, fills |-> NoFills]
<1>1. N \in Nat
  BY FS_CardinalityType
<1>2. T = CHOOSE f : f = [n \in 0 .. N |-> IF n = 0 THEN start ELSE Turn(f[n - 1], side, price)]
  BY DEF Turns, NoFills
<1> HIDE DEF N, T, start
<1>3. PICK f : FirstTurns(f, N, start, side, price)
  BY <1>1, TurnsExist
<1>4. T = [n \in 0 .. N |-> IF n = 0 THEN start ELSE Turn(T[n - 1], side, price)]
  BY <1>2, <1>3 DEF FirstTurns
<1> DEFINE r == [n \in 0 .. N |-> IF n = 0 THEN start ELSE Turn(T[n - 1], side, price)]
<1>5. r[0] = start /\ \A n \in 1 .. N : r[n] = Turn(T[n - 1], side, price)
  BY <1>1
<1>6. T = r
  BY <1>4
<1> HIDE DEF r
<1>7. T[0] = start /\ \A n \in 1 .. N : T[n] = Turn(T[n - 1], side, price)
  BY <1>5, <1>6
<1> QED BY <1>1, <1>7 DEF T, N, start

(* Once a turn does nothing, none does. *)
LEMMA TurnsStop ==
  ASSUME NEW b, IsFiniteSet(DOMAIN b.by_id), NEW side, NEW price, NEW quantity,
         NEW n \in 0 .. Cardinality(DOMAIN b.by_id),
         LET s == Turns(b, side, price, quantity)[n] IN Turn(s, side, price) = s
  PROVE  LET turns == Turns(b, side, price, quantity)
         IN turns[Cardinality(DOMAIN b.by_id)] = turns[n]
<1> DEFINE T == Turns(b, side, price, quantity)
           N == Cardinality(DOMAIN b.by_id)
           S == { m \in Nat : m \in n .. N /\ T[m] # T[n] }
<1>1. N \in Nat /\ n \in 0 .. N /\ \A m \in 1 .. N : T[m] = Turn(T[m - 1], side, price)
  <2>1. LET turns == Turns(b, side, price, quantity)
            M == Cardinality(DOMAIN b.by_id)
         IN /\ M \in Nat
            /\ turns[0] = [book |-> b, left |-> quantity, fills |-> NoFills]
            /\ \A m \in 1 .. M : turns[m] = Turn(turns[m - 1], side, price)
    BY TurnByTurn
  <2> QED BY <2>1
<1>2. Turn(T[n], side, price) = T[n]
  OBVIOUS
<1> HIDE DEF N, T
<1>3. ASSUME S # {} PROVE FALSE
  <2>1. PICK k \in S : \A m \in S : k <= m
    BY <1>3, LeastNat
  <2>2. k \in Nat /\ k \in n .. N /\ T[k] # T[n] /\ k # n
    OBVIOUS
  <2>3. k - 1 \in Nat /\ k - 1 \in n .. N /\ k - 1 < k /\ k \in 1 .. N
    BY <1>1, <2>2
  <2>4. T[k - 1] = T[n]
    BY <2>1, <2>2, <2>3
  <2> QED BY <1>1, <1>2, <2>2, <2>3, <2>4
<1>4. N \in Nat /\ N \in n .. N
  BY <1>1
<1>5. T[N] = T[n]
  BY <1>3, <1>4
<1> QED BY <1>5 DEF T, N

-----------------------------------------------------------------------------
(* An order that comes in over its own book alone sees that book's depth.  *)
LEMMA OwnDepth ==
  ASSUME NEW bs, Good(bs), NEW t, t.area \in Area, t.side \in Side, t.period = Delivery
  PROVE  MarketableDepth(bs[t.area], t.side, t.price)
           = Depth(Entries(bs), Makers(Entries(bs), t, {t.area}))
<1> DEFINE a == t.area
           b == bs[a]
           o == MarketableOrders(b, t.side, t.price)
           B == Entries(bs)
           M == Makers(B, t, {a})
           s == Opposite(t.side)
<1>1. Whole(b) /\ a \in Area
  BY DEF Good
<1>2. ASSUME NEW i
      PROVE  i \in M <=> /\ i \in DOMAIN b.by_id
                         /\ \E p \in Int : /\ b.by_id[i] = <<s, p>>
                                           /\ Crosses(t.side, t.price, p)
  <2>1. ASSUME i \in M
        PROVE  /\ i \in DOMAIN b.by_id
               /\ \E p \in Int : b.by_id[i] = <<s, p>> /\ Crosses(t.side, t.price, p)
    <3>1. i \in Resting(bs) /\ B[i].area = a /\ B[i].side = s /\ Crosses(t.side, t.price, B[i].price)
      BY <2>1 DEF Makers, Entries
    <3> DEFINE c == HomeOf(bs, i)
    <3>2. c \in Area /\ i \in DOMAIN bs[c].by_id
      BY <3>1, Housed
    <3> HIDE DEF c
    <3>3. PICK r \in Side, p \in Int :
              /\ bs[c].by_id[i] = <<r, p>>
              /\ B[i] = [area |-> c, period |-> Delivery, side |-> r,
                         price |-> p, qty |-> OpenOf(bs[c], i)]
      BY <3>2, AtHome
    <3> HIDE DEF B, s
    <3>4. c = a /\ r = s /\ Crosses(t.side, t.price, p)
      BY <3>1, <3>3
    <3> QED BY <3>2, <3>3, <3>4
  <2>2. ASSUME i \in DOMAIN b.by_id, NEW p \in Int,
               b.by_id[i] = <<s, p>>, Crosses(t.side, t.price, p)
        PROVE  i \in M
    <3> HIDE DEF a, s
    <3>1. /\ i \in Resting(bs)
          /\ \E r \in Side, q \in Int :
              /\ bs[a].by_id[i] = <<r, q>>
              /\ B[i] = [area |-> a, period |-> Delivery, side |-> r,
                         price |-> q, qty |-> OpenOf(bs[a], i)]
      BY <1>1, <2>2, AtHome
    <3>2. B[i] = [area |-> a, period |-> Delivery, side |-> s, price |-> p, qty |-> OpenOf(bs[a], i)]
      BY <2>2, <3>1
    <3>3. i \in DOMAIN B
      BY <3>1 DEF Entries
    <3> HIDE DEF B
    <3> QED BY <2>2, <3>2, <3>3 DEF Makers, s
  <2> QED BY <2>1, <2>2
<1>3. ASSUME NEW i \in DOMAIN b.by_id PROVE B[i].qty = OpenOf(b, i)
  <2> HIDE DEF a
  <2>1. \E r \in Side, q \in Int :
              /\ bs[a].by_id[i] = <<r, q>>
              /\ B[i] = [area |-> a, period |-> Delivery, side |-> r,
                         price |-> q, qty |-> OpenOf(bs[a], i)]
    BY <1>1, AtHome
  <2> HIDE DEF B
  <2> QED BY <2>1
<1> HIDE DEF b, B, M, s
<1>4. ASSUME NEW x \in DOMAIN o
      PROVE  /\ x = <<x[1], x[2]>> /\ x[1] \in Int
             /\ o[x].id \in DOMAIN b.by_id /\ b.by_id[o[x].id] = <<s, x[1]>>
             /\ PlaceOf(b, o[x].id) = x[2] /\ Crosses(t.side, t.price, x[1])
             /\ o[x].qty = OpenOf(b, o[x].id)
  BY <1>1, BookWalk DEF s
<1>5. ASSUME NEW i \in DOMAIN b.by_id, NEW p \in Int,
             b.by_id[i] = <<s, p>>, Crosses(t.side, t.price, p)
      PROVE  \E x \in DOMAIN o : o[x].id = i
  <2>1. <<p, PlaceOf(b, i)>> \in DOMAIN o /\ o[<<p, PlaceOf(b, i)>>].id = i
    BY <1>1, <1>5, BookWalk DEF s
  <2> QED BY <2>1
<1> HIDE DEF o
<1>6. Names(o, DOMAIN o, B, M)
  <2>1. \A i \in M : \E x \in DOMAIN o : o[x].id = i
    BY <1>2, <1>5
  <2>2. \A x \in DOMAIN o : o[x].id \in M /\ o[x].qty = B[o[x].id].qty
    BY <1>2, <1>3, <1>4
  <2>3. ASSUME NEW x \in DOMAIN o, NEW y \in DOMAIN o, o[x].id = o[y].id PROVE x = y
    <3>1. x = <<x[1], x[2]>> /\ y = <<y[1], y[2]>> /\ x[2] = y[2]
      BY <1>4, <2>3
    <3>2. <<s, x[1]>> = <<s, y[1]>>
      BY <1>4, <2>3
    <3> QED BY <3>1, <3>2
  <2> QED BY <2>1, <2>2, <2>3 DEF Names
<1>7. IsFiniteSet(M)
  <2>1. Orderly(B, Queues(bs), t)
    BY GoodOrderly DEF B
  <2> QED BY <2>1, MakersFinite DEF Orderly, M
<1>8. Depth(o, DOMAIN o) = Depth(B, M)
  BY <1>6, <1>7, DepthRenamed
<1> QED BY <1>8 DEF MarketableDepth, o, b, B, M

-----------------------------------------------------------------------------
(* What is known of an incoming order, and of what is left of it. *)
LEMMA TakerShape ==
  ASSUME NEW t \in Takers
  PROVE  /\ t.area \in Area /\ t.period = Delivery /\ t.side \in Side /\ t.price \in Int
         /\ t.quantity \in 1 .. MaxQuantity /\ t.quantity \in Nat \ {0} /\ t.mode \in Mode
         /\ t = [t EXCEPT !.quantity = t.quantity]
         /\ \A n : LET u == [t EXCEPT !.quantity = n]
                   IN /\ u.quantity = n
                      /\ u.area = t.area /\ u.period = t.period /\ u.side = t.side
                      /\ u.price = t.price /\ u.mode = t.mode
<1>1. t \in [area : Area, period : {Delivery}, side : Side, price : Int,
             quantity : 1 .. MaxQuantity, mode : Mode]
  BY MatchLoopAssumption
<1>2. MaxQuantity \in Nat
  BY MatchingAssumption
<1> QED BY <1>1, <1>2

(* The taker is the incoming order but for the quantity. *)
LEMMA SameTaker ==
  ASSUME NEW t \in Takers, WhatIsLeft(taker, t)
  PROVE  /\ taker.area = t.area /\ taker.period = t.period /\ taker.side = t.side
         /\ taker.price = t.price /\ taker.mode = t.mode
<1> DEFINE n == taker.quantity
<1>1. taker = [t EXCEPT !.quantity = n]
  BY DEF WhatIsLeft
<1> HIDE DEF n
<1>2. LET u == [t EXCEPT !.quantity = n]
      IN /\ u.quantity = n
         /\ u.area = t.area /\ u.period = t.period /\ u.side = t.side
         /\ u.price = t.price /\ u.mode = t.mode
  BY TakerShape
<1> QED BY <1>1, <1>2

(* An order comes in on free books. *)
LEMMA ComesIn ==
  ASSUME NEW t \in Takers, NEW areas \in Reach, t.area \in areas, Good(books)
  PROVE  Incoming(t, areas, CandidateKeys(t.area, areas))
<1>1. areas \subseteq Area
  BY MatchLoopAssumption
<1>2. Probing(CandidateKeys(t.area, areas), t.area, areas)
  BY <1>1, TakerShape, KeysProbe
<1> QED BY <1>1, <1>2, TakerShape DEF Incoming

(* Over its own book alone, the areas are its own. *)
LEMMA OwnAreas ==
  ASSUME NEW t \in Takers, NEW areas \in Reach, t.area \in areas,
         CandidateKeys(t.area, areas) = <<t.area>>
  PROVE  areas = {t.area}
<1>1. areas \subseteq Area
  BY MatchLoopAssumption
<1>2. Probing(<<t.area>>, t.area, areas)
  BY <1>1, TakerShape, KeysProbe
<1>3. \A a \in areas : \E k \in DOMAIN <<t.area>> : <<t.area>>[k] = a
  BY <1>2 DEF Probing
<1>4. \A a \in areas : a = t.area
  BY <1>3
<1> QED BY <1>4

(* Nothing filled, nothing changed. *)
LEMMA NothingFilled ==
  ASSUME NEW bs, Good(bs)
  PROVE  /\ AfterFills(Entries(bs), NoFills) = Entries(bs)
         /\ OlderWithin(Queues(bs), DOMAIN Entries(bs)) = Queues(bs)
         /\ Entries(bs) = [i \in DOMAIN Entries(bs) |-> Entries(bs)[i]]
<1> DEFINE B == Entries(bs)
<1>1. B = [i \in DOMAIN B |-> B[i]] /\ DOMAIN B = Resting(bs)
  BY DEF Entries
<1>2. Queues(bs) \subseteq Resting(bs) \X Resting(bs)
  BY QueuesOfResting
<1> HIDE DEF B
<1>3. AfterFills(B, NoFills) = B
  <2>1. Consumed(B, NoFills) = {} /\ DOMAIN NoFills = {}
    BY DEF Consumed, NoFills
  <2>2. AfterFills(B, NoFills) = [i \in DOMAIN B |-> B[i]]
    BY <2>1 DEF AfterFills
  <2> QED BY <1>1, <2>2
<1>4. OlderWithin(Queues(bs), DOMAIN B) = Queues(bs)
  BY <1>1, <1>2 DEF OlderWithin
<1> QED BY <1>1, <1>3, <1>4 DEF B

(* The lock is taken: the loop starts with the whole quantity and no fill. *)
LEMMA SweepStarts ==
  ASSUME NEW t \in Takers, NEW areas \in Reach, t.area \in areas, Good(books),
         NEW i \in Id \ Resting(books), ~Infeasible(t, CandidateKeys(t.area, areas))
  PROVE  LET ks == CandidateKeys(t.area, areas)
         IN /\ Started(books, t, areas, i, ks, SelfTradeWalk(t, ks))
            /\ Underway(books, t, areas, ks, books, NoFills, t.quantity)
<1> DEFINE ks == CandidateKeys(t.area, areas)
           B == Entries(books)
           O == Queues(books)
           a == t.area
<1>1. /\ SelfTradeWalk(t, ks) = Reached(B, O, t, areas)
      /\ Infeasible(t, ks) <=> Killed(B, t, areas)
  BY ComesIn, ChecksForesee
<1>2. Started(books, t, areas, i, ks, SelfTradeWalk(t, ks))
  BY <1>1 DEF Started
<1>3. Prefix(B, O, t, areas, NoFills, t.quantity)
  BY TakerShape, PrefixStarts
<1>4. AfterFills(B, NoFills) = B /\ OlderWithin(O, DOMAIN B) = O
  BY NothingFilled
<1>5. ASSUME ks = <<a>> PROVE Alone(books[a], t, books[a], NoFills, t.quantity)
  <2> DEFINE b == books[a]
  <2>1. areas = {a} /\ a \in Area /\ t.side \in Side /\ t.period = Delivery
    BY <1>5, OwnAreas, TakerShape
  <2>2. IsFiniteSet(DOMAIN b.by_id)
    BY <2>1 DEF Good, Whole, Shaped
  <2>3. LET turns == Turns(b, t.side, t.price, t.quantity)
            N == Cardinality(DOMAIN b.by_id)
         IN /\ N \in Nat
            /\ turns[0] = [book |-> b, left |-> t.quantity, fills |-> NoFills]
            /\ \A n \in 1 .. N : turns[n] = Turn(turns[n - 1], t.side, t.price)
    <3> HIDE DEF ks, B, O, a, b
    <3> DEFINE side == t.side
               price == t.price
               quantity == t.quantity
    <3> HIDE DEF side, price, quantity
    <3>1. LET turns == Turns(b, side, price, quantity)
              N == Cardinality(DOMAIN b.by_id)
           IN /\ N \in Nat
              /\ turns[0] = [book |-> b, left |-> quantity, fills |-> NoFills]
              /\ \A n \in 1 .. N : turns[n] = Turn(turns[n - 1], side, price)
      BY <2>2, TurnByTurn
    <3> QED BY <3>1 DEF side, price, quantity
  <2>4. Cardinality(DOMAIN NoFills) = 0
    BY FS_EmptySet DEF NoFills
  <2>5. MarketableDepth(b, t.side, t.price) = Depth(B, Makers(B, t, {a}))
    BY <2>1, OwnDepth
  <2>6. ~(t.mode = "FillOrKill" /\ MarketableDepth(b, t.side, t.price) < t.quantity)
    BY <1>1, <2>1, <2>5 DEF Killed
  <2>7. 0 \in 0 .. Cardinality(DOMAIN b.by_id)
    BY <2>3
  <2> HIDE DEF b, a
  <2>8. Alone(b, t, b, NoFills, t.quantity)
    BY <2>3, <2>4, <2>6, <2>7 DEF Alone
  <2> QED BY <2>8 DEF b
<1> HIDE DEF B, O, ks
<1>6. Underway(books, t, areas, ks, books, NoFills, t.quantity)
  BY <1>3, <1>4, <1>5 DEF Underway, B, O
<1> QED BY <1>2, <1>6 DEF ks

(* Within the loop: what the taker may still trade with is what the sweep  *)
(* has not come to, in the same order.                                     *)
LEMMA SweepSees ==
  ASSUME Good(books), Good(committed), NEW t \in Takers, NEW areas \in Reach,
         Started(committed, t, areas, id, keys, walk),
         Underway(committed, t, areas, keys, books, taken, taker.quantity),
         WhatIsLeft(taker, t), taker.quantity > 0
  PROVE  LET B == Entries(committed)
             O == Queues(committed)
             M == Makers(Entries(books), taker, areas)
         IN /\ Choosing(areas) /\ taker.quantity \in Nat \ {0}
            /\ Orderly(B, O, t)
            /\ Prefix(B, O, t, areas, taken, taker.quantity)
            /\ M = Makers(B, t, areas) \ DOMAIN taken
            /\ \A i, j \in M : Precedes(Entries(books), Queues(books), taker, i, j)
                                 <=> Precedes(B, O, t, i, j)
            /\ \A i \in M : Entries(books)[i] = B[i]
<1> DEFINE B == Entries(committed)
           O == Queues(committed)
           D == DOMAIN taken
           C == Without(B, D)
           P == OlderWithin(O, DOMAIN C)
           M == Makers(Entries(books), taker, areas)
<1>1. /\ taker.area = t.area /\ taker.period = t.period /\ taker.side = t.side
      /\ taker.price = t.price /\ taker.mode = t.mode
  BY SameTaker
<1>2. /\ t.area \in Area /\ t.period = Delivery /\ t.side \in Side /\ t.price \in Int
      /\ t.quantity \in Nat
  BY TakerShape
<1>3. t.area \in areas /\ keys = CandidateKeys(t.area, areas) /\ areas \subseteq Area
  BY MatchLoopAssumption DEF Started
<1>4. Choosing(areas)
  <2>1. Probing(CandidateKeys(t.area, areas), t.area, areas)
    BY <1>2, <1>3, KeysProbe
  <2> QED BY <1>1, <1>2, <1>3, <2>1 DEF Choosing
<1>5. Orderly(B, O, t)
  BY <1>2, GoodOrderly
<1>6. /\ Prefix(B, O, t, areas, taken, taker.quantity)
      /\ Entries(books) = AfterFills(B, taken)
      /\ Queues(books) = OlderWithin(O, DOMAIN AfterFills(B, taken))
  BY DEF Underway
<1> HIDE DEF B, O
<1>7. taker.quantity \in Nat /\ AfterFills(B, taken) = Without(B, DOMAIN taken)
  BY <1>2, <1>5, <1>6, PrefixOpen
<1>8. Entries(books) = C /\ Queues(books) = P
  BY <1>6, <1>7
<1>9. M = Makers(C, t, areas) /\ \A i, j : Precedes(Entries(books), Queues(books), taker, i, j)
                                             <=> Precedes(C, P, t, i, j)
  BY <1>1, <1>8 DEF Makers, Precedes
<1>10. DOMAIN taken \subseteq Makers(B, t, areas)
  BY <1>6 DEF Prefix
<1>11. /\ DOMAIN C = DOMAIN B \ D
       /\ Makers(C, t, areas) = Makers(B, t, areas) \ D
       /\ \A i, j \in DOMAIN C : Precedes(C, P, t, i, j) <=> Precedes(B, O, t, i, j)
  BY <1>10, MakersLeft
<1>12. \A i \in DOMAIN C : C[i] = B[i]
  BY DEF Without
<1>13. Makers(C, t, areas) \subseteq DOMAIN C
  BY DEF Makers
<1> HIDE DEF C, P, D, M
<1>14. \A i \in M : i \in DOMAIN C
  BY <1>9, <1>13
<1>15. M = Makers(B, t, areas) \ D
  BY <1>9, <1>11
<1>16. \A i, j \in M : Precedes(Entries(books), Queues(books), taker, i, j)
                         <=> Precedes(B, O, t, i, j)
  BY <1>9, <1>11, <1>14
<1>17. \A i \in M : Entries(books)[i] = B[i]
  BY <1>8, <1>12, <1>14
<1> QED BY <1>4, <1>5, <1>6, <1>7, <1>15, <1>16, <1>17 DEF B, O, M, D

(* Queues thinned out twice. *)
LEMMA ThinnedTwice ==
  ASSUME NEW O, NEW X, NEW Y, Y \subseteq X
  PROVE  OlderWithin(OlderWithin(O, X), Y) = OlderWithin(O, Y)
BY DEF OlderWithin

(* One turn of the matcher of one book is one turn of the loop. *)
LEMMA AloneTurn ==
  ASSUME NEW b, IsFiniteSet(DOMAIN b.by_id), NEW t, NEW c, NEW F, NEW left \in Nat \ {0},
         Alone(b, t, c, F, left), NEW m, m \notin DOMAIN F,
         DOMAIN F \cup {m} \subseteq DOMAIN b.by_id,
         ~OppositeIsEmpty(c, t.side), Crosses(t.side, t.price, PeekOpposite(c, t.side)),
         ConsumeFront(c, t.side, left).maker = m
  PROVE  LET f == ConsumeFront(c, t.side, left)
         IN Alone(b, t, f.book, WithEntry(F, m, f.taken), left - f.taken)
<1> DEFINE f == ConsumeFront(c, t.side, left)
           G == WithEntry(F, m, f.taken)
           n == Cardinality(DOMAIN F)
           N == Cardinality(DOMAIN b.by_id)
           T == Turns(b, t.side, t.price, t.quantity)
<1>1. /\ n \in 0 .. N /\ T[n] = [book |-> c, left |-> left, fills |-> F]
      /\ ~(t.mode = "FillOrKill" /\ MarketableDepth(b, t.side, t.price) < t.quantity)
  BY DEF Alone
<1>2. N \in Nat /\ \A k \in 1 .. N : T[k] = Turn(T[k - 1], t.side, t.price)
  <2>1. LET turns == Turns(b, t.side, t.price, t.quantity)
            K == Cardinality(DOMAIN b.by_id)
         IN /\ K \in Nat
            /\ turns[0] = [book |-> b, left |-> t.quantity, fills |-> NoFills]
            /\ \A k \in 1 .. K : turns[k] = Turn(turns[k - 1], t.side, t.price)
    BY TurnByTurn
  <2> QED BY <2>1
<1>3. DOMAIN G = DOMAIN F \cup {m}
  BY DEF WithEntry
<1>4. Cardinality(DOMAIN G) = n + 1 /\ Cardinality(DOMAIN G) <= N
  <2>1. IsFiniteSet(DOMAIN F) /\ IsFiniteSet(DOMAIN F \cup {m})
    BY FS_Subset
  <2>2. Cardinality(DOMAIN F \cup {m}) = n + 1
    BY <2>1, FS_AddElement
  <2>3. Cardinality(DOMAIN F \cup {m}) <= N
    BY FS_Subset
  <2> QED BY <1>3, <2>2, <2>3
<1>5. f.maker = m
  OBVIOUS
<1>6. Turn([book |-> c, left |-> left, fills |-> F], t.side, t.price)
        = [book |-> f.book, left |-> left - f.taken, fills |-> G]
  <2> DEFINE s == [book |-> c, left |-> left, fills |-> F]
  <2>1. s.book = c /\ s.left = left /\ s.fills = F
    OBVIOUS
  <2>2. ~(\/ s.left = 0 \/ OppositeIsEmpty(s.book, t.side)
          \/ ~Crosses(t.side, t.price, PeekOpposite(s.book, t.side)))
    BY <2>1
  <2>3. Turn(s, t.side, t.price)
          = [book |-> ConsumeFront(s.book, t.side, s.left).book,
             left |-> s.left - ConsumeFront(s.book, t.side, s.left).taken,
             fills |-> WithEntry(s.fills, ConsumeFront(s.book, t.side, s.left).maker,
                                 ConsumeFront(s.book, t.side, s.left).taken)]
    BY <2>2 DEF Turn
  <2> HIDE DEF s
  <2>4. Turn(s, t.side, t.price)
          = [book |-> f.book, left |-> left - f.taken, fills |-> G]
    BY <1>5, <2>1, <2>3
  <2> QED BY <2>4 DEF s
<1> HIDE DEF n, N, T, G, f
<1>7. n + 1 \in 1 .. N /\ (n + 1) - 1 = n
  BY <1>1, <1>2, <1>4
<1>8. T[n + 1] = [book |-> f.book, left |-> left - f.taken, fills |-> G]
  BY <1>1, <1>2, <1>6, <1>7
<1>9. n + 1 \in 0 .. N
  BY <1>7
<1> QED BY <1>1, <1>4, <1>8, <1>9 DEF Alone, T, N, G, f

(* The makers of an order that is matched over its own book are on it. *)
LEMMA OwnMakers ==
  ASSUME NEW bs, Good(bs), NEW t, NEW i \in Makers(Entries(bs), t, {t.area})
  PROVE  i \in DOMAIN bs[t.area].by_id
<1>1. i \in Resting(bs) /\ Entries(bs)[i].area = t.area
  BY DEF Makers, Entries
<1>2. Entries(bs)[i].area = HomeOf(bs, i)
  BY <1>1 DEF Entries, EntryAt
<1>3. i \in DOMAIN bs[HomeOf(bs, i)].by_id
  BY <1>1, Housed
<1> QED BY <1>1, <1>2, <1>3

(* One turn of the loop takes the next fill of the sweep. *)
LEMMA LoopTurn ==
  ASSUME Good(books), Good(committed), NEW t \in Takers, NEW areas \in Reach,
         Started(committed, t, areas, id, keys, walk),
         Underway(committed, t, areas, keys, books, taken, taker.quantity),
         WhatIsLeft(taker, t), taker.quantity > 0, Marketable # {}
  PROVE  LET a == keys[BestKey]
             c == ConsumeFront(books[a], taker.side, taker.quantity)
             ds == [books EXCEPT ![a] = c.book]
         IN /\ Good(ds) /\ taker.quantity - c.taken \in Nat
            /\ Underway(committed, t, areas, keys, ds,
                        WithEntry(taken, c.maker, c.taken), taker.quantity - c.taken)
<1> DEFINE B == Entries(committed)
           O == Queues(committed)
           E == Entries(books)
           M == Makers(E, taker, areas)
           a == keys[BestKey]
           x == FrontOf(BestKey)
           q == taker.quantity
           c == ConsumeFront(books[a], taker.side, q)
           ds == [books EXCEPT ![a] = c.book]
           D == DOMAIN taken
           v == c.taken
           G == WithEntry(taken, x, v)
<1>1. /\ Choosing(areas) /\ q \in Nat \ {0}
      /\ Orderly(B, O, t)
      /\ Prefix(B, O, t, areas, taken, q)
      /\ M = Makers(B, t, areas) \ D
      /\ \A i, j \in M : Precedes(E, Queues(books), taker, i, j) <=> Precedes(B, O, t, i, j)
      /\ \A i \in M : E[i] = B[i]
  BY SweepSees
<1>2. /\ BestKey \in Marketable
      /\ \A j \in M \ {x} : Precedes(E, Queues(books), taker, x, j)
  <2>1. LET C == Entries(books)
            K == Makers(C, taker, areas)
         IN /\ Marketable = {} <=> K = {}
            /\ Marketable # {} =>
                 /\ BestKey \in Marketable
                 /\ \A j \in K \ {FrontOf(BestKey)} :
                      Precedes(C, Queues(books), taker, FrontOf(BestKey), j)
    BY <1>1, BestIsFirst
  <2> QED BY <2>1
<1>3. x \in M
  BY <1>1, <1>2, FrontIsMaker
<1>4. /\ Good(ds) /\ a \in Area /\ x \in Resting(books)
      /\ c.maker = x /\ v = SmallerOf(q, E[x].qty)
      /\ E[x].qty \in 1 .. MaxQuantity
      /\ v = E[x].qty =>
                 /\ Entries(ds) = Without(E, {x})
                 /\ Queues(ds) = OlderWithin(Queues(books), Resting(books) \ {x})
      /\ v # E[x].qty =>
                 /\ Entries(ds) = [E EXCEPT ![x].qty = E[x].qty - v]
                 /\ Queues(ds) = Queues(books)
  BY <1>1, TurnTakes
<1>5. /\ E = AfterFills(B, taken) /\ Queues(books) = OlderWithin(O, DOMAIN E)
      /\ DOMAIN E = Resting(books)
  BY DEF Underway, Entries
<1>6. t.quantity \in Nat /\ t.area \in Area
  BY TakerShape
<1>7. keys = <<t.area>> => Alone(committed[t.area], t, ds[t.area], G, q - v)
  <2> SUFFICES ASSUME keys = <<t.area>>
               PROVE  Alone(committed[t.area], t, ds[t.area], G, q - v)
    OBVIOUS
  <2>1. areas = {t.area}
    BY OwnAreas DEF Started
  <2>2. BestKey \in DOMAIN keys
    BY <1>2 DEF Marketable
  <2>3. a = t.area
    <3> DEFINE k == BestKey
    <3>1. k \in DOMAIN <<t.area>> /\ a = <<t.area>>[k]
      BY <2>2
    <3> HIDE DEF k, a
    <3> QED BY <3>1
  <2>4. ds[a] = c.book
    BY <1>4 DEF Good
  <2>5. taker.side = t.side /\ taker.price = t.price
    BY SameTaker
  <2>6. /\ ~OppositeIsEmpty(books[a], t.side)
        /\ Crosses(t.side, t.price, PeekOpposite(books[a], t.side))
    BY <1>2, <2>5 DEF Marketable
  <2>7. Alone(committed[t.area], t, books[a], taken, q)
    BY <2>3 DEF Underway
  <2>8. x \notin D /\ D \cup {x} \subseteq Makers(B, t, areas)
    BY <1>1, <1>3 DEF Prefix
  <2>9. Makers(B, t, areas) \subseteq DOMAIN committed[t.area].by_id
    BY <2>1, OwnMakers
  <2>10. IsFiniteSet(DOMAIN committed[t.area].by_id)
    BY <1>6 DEF Good, Whole, Shaped
  <2> DEFINE b == committed[t.area]
             e == books[a]
             f == ConsumeFront(e, t.side, q)
  <2>11. c = f
    BY <2>5
  <2>12. f.maker = x
    BY <1>4, <2>11
  <2> HIDE DEF b, e, c, x, a, ds, q
  <2>13. DOMAIN taken \cup {x} \subseteq DOMAIN b.by_id /\ IsFiniteSet(DOMAIN b.by_id)
    BY <2>8, <2>9, <2>10 DEF b
  <2>14. Alone(b, t, e, taken, q) /\ q \in Nat \ {0}
    BY <1>1, <2>7 DEF b, e
  <2>15. ~OppositeIsEmpty(e, t.side) /\ Crosses(t.side, t.price, PeekOpposite(e, t.side))
    BY <2>6 DEF e
  <2>16. Alone(b, t, f.book, WithEntry(taken, x, f.taken), q - f.taken)
    BY <2>8, <2>12, <2>13, <2>14, <2>15, AloneTurn
  <2> QED BY <2>3, <2>4, <2>11, <2>16 DEF b
<1> HIDE DEF B, O, E, M, a, x, q, c, ds, v
<1>8. x \in Makers(B, t, areas) \ D /\ E[x] = B[x]
  BY <1>1, <1>3
<1>9. \A j \in (Makers(B, t, areas) \ D) \ {x} : Precedes(B, O, t, x, j)
  BY <1>1, <1>2, <1>3
<1>10. LET w == SmallerOf(q, B[x].qty)
           H == WithEntry(taken, x, w)
       IN /\ Prefix(B, O, t, areas, H, q - w)
          /\ w = B[x].qty => AfterFills(B, H) = Without(AfterFills(B, taken), {x})
          /\ w # B[x].qty => AfterFills(B, H)
                               = [AfterFills(B, taken) EXCEPT ![x].qty = B[x].qty - w]
  <2>1. q > 0
    BY <1>1
  <2>2. Orderly(B, O, t) /\ t.quantity \in Nat /\ Prefix(B, O, t, areas, taken, q)
    BY <1>1, <1>6
  <2>3. /\ x \in Makers(B, t, areas) \ DOMAIN taken
        /\ \A j \in (Makers(B, t, areas) \ DOMAIN taken) \ {x} : Precedes(B, O, t, x, j)
    BY <1>8, <1>9 DEF D
  <2> HIDE DEF G, D
  <2> QED BY <2>1, <2>2, <2>3, PrefixGrows
<1>11. /\ Prefix(B, O, t, areas, G, q - v)
       /\ v = B[x].qty => AfterFills(B, G) = Without(E, {x})
       /\ v # B[x].qty => AfterFills(B, G) = [E EXCEPT ![x].qty = B[x].qty - v]
  BY <1>4, <1>5, <1>8, <1>10
<1>12. Entries(ds) = AfterFills(B, G)
  BY <1>4, <1>8, <1>11
<1>13. Queues(ds) = OlderWithin(O, DOMAIN AfterFills(B, G))
  <2>1. CASE v = B[x].qty
    <3>1. DOMAIN AfterFills(B, G) = Resting(books) \ {x}
      BY <1>5, <1>11, <2>1 DEF Without
    <3>2. Queues(ds) = OlderWithin(OlderWithin(O, DOMAIN E), Resting(books) \ {x})
      BY <1>4, <1>5, <1>8, <2>1
    <3> QED BY <1>5, <3>1, <3>2, ThinnedTwice
  <2>2. CASE v # B[x].qty
    <3>1. DOMAIN AfterFills(B, G) = DOMAIN E
      BY <1>11, <2>2
    <3> QED BY <1>4, <1>5, <1>8, <2>2, <3>1
  <2> QED BY <2>1, <2>2
<1>14. q - v \in Nat
  BY <1>1, <1>4 DEF SmallerOf
<1>15. Underway(committed, t, areas, keys, ds, G, q - v)
  BY <1>7, <1>11, <1>12, <1>13 DEF Underway, B, O
<1>16. c.maker = x /\ v = c.taken /\ Good(ds)
  BY <1>4 DEF v
<1> QED BY <1>14, <1>15, <1>16 DEF q, c, ds, a

-----------------------------------------------------------------------------
(* The loop ends with the market's sweep: its fills, on the makers that    *)
(* were foreseen, and its leftover.                                        *)
LEMMA LoopIsSweep ==
  ASSUME Good(committed), NEW t \in Takers, NEW areas \in Reach,
         Started(committed, t, areas, id, keys, walk),
         Underway(committed, t, areas, keys, books, taken, taker.quantity),
         Ended(t, areas)
  PROVE  LET B == Entries(committed)
             O == Queues(committed)
         IN /\ taken = Sweep(B, O, t, areas) /\ DOMAIN taken = walk
            /\ taker.quantity = t.quantity - Executed(B, t, areas)
            /\ taker.quantity \in 0 .. MaxQuantity
            /\ taker.quantity + Total(taken) = t.quantity
<1> DEFINE B == Entries(committed)
           O == Queues(committed)
           q == taker.quantity
           x == Executed(B, t, areas)
<1>1. /\ t.area \in Area /\ t.quantity \in 1 .. MaxQuantity /\ t.quantity \in Nat
  BY TakerShape
<1>2. Orderly(B, O, t)
  BY <1>1, GoodOrderly
<1>3. /\ Prefix(B, O, t, areas, taken, q) /\ ~Killed(B, t, areas)
      /\ walk = Reached(B, O, t, areas)
      /\ q = 0 \/ DOMAIN taken = Makers(B, t, areas)
  BY DEF Underway, Started, Ended
<1> HIDE DEF B, O, q
<1>4. /\ taken = Sweep(B, O, t, areas) /\ DOMAIN taken = Reached(B, O, t, areas)
      /\ q = t.quantity - x
  BY <1>1, <1>2, <1>3, PrefixDone
<1>5. x \in 0 .. t.quantity
  BY <1>1, <1>2, ExecutedBounds DEF Orderly
<1>6. Total(taken) = x
  BY <1>1, <1>2, <1>4, SweepTotals
<1> HIDE DEF x
<1>7. q \in 0 .. MaxQuantity /\ q + Total(taken) = t.quantity
  <2>1. MaxQuantity \in Nat
    BY MatchingAssumption
  <2> QED BY <1>1, <1>4, <1>5, <1>6, <2>1
<1> QED BY <1>3, <1>4, <1>7 DEF B, O, q, x

(* With the leftover put to rest, the books are those after the sweep.     *)
LEMMA RestedBooks ==
  ASSUME Good(books), Good(committed), NEW t \in Takers, NEW areas \in Reach,
         Started(committed, t, areas, id, keys, walk),
         Underway(committed, t, areas, keys, books, taken, taker.quantity),
         WhatIsLeft(taker, t), Ended(t, areas)
  PROVE  LET B == Entries(committed)
             O == Queues(committed)
             l == Leftover(B, t, areas)
         IN /\ Good(Rested)
            /\ Entries(Rested) = BooksAfter(B, id, t, taken, l)
            /\ Queues(Rested) = QueuesAfter(B, O, id, t, taken, l)
<1> DEFINE B == Entries(committed)
           O == Queues(committed)
           l == Leftover(B, t, areas)
           q == taker.quantity
           A == AfterFills(B, taken)
           P == OlderWithin(O, DOMAIN A)
<1>1. /\ t.area \in Area /\ t.period = Delivery /\ t.side \in Side /\ t.price \in Int
  BY TakerShape
<1>2. /\ taker.area = t.area /\ taker.side = t.side
      /\ taker.price = t.price /\ taker.mode = t.mode
  BY SameTaker
<1>3. q = t.quantity - Executed(B, t, areas) /\ q \in 0 .. MaxQuantity
  BY LoopIsSweep
<1>4. Entries(books) = A /\ Queues(books) = P
  BY DEF Underway
<1>5. l = IF t.mode = "Resting" THEN q ELSE 0
  BY <1>3 DEF Leftover
<1>6. BooksAfter(B, id, t, taken, l) = IF l > 0 THEN WithEntry(A, id, Entry(t, l)) ELSE A
  BY DEF BooksAfter
<1>7. QueuesAfter(B, O, id, t, taken, l) = IF l > 0 THEN OlderWith(A, P, id, Entry(t, l)) ELSE P
  BY DEF QueuesAfter
<1>8. id \in Id /\ id \notin Resting(books)
  <2>1. DOMAIN A \subseteq DOMAIN B
    BY DEF AfterFills
  <2>2. DOMAIN Entries(books) = Resting(books) /\ DOMAIN B = Resting(committed)
    BY RestingFinite
  <2>3. id \in Id \ Resting(committed)
    BY DEF Started
  <2> HIDE DEF A, B
  <2> QED BY <1>4, <2>1, <2>2, <2>3
<1>9. Rested = IF t.mode = "Resting" /\ q > 0
               THEN [books EXCEPT ![t.area] = Insert(books[t.area], t.side, t.price,
                                                     [id |-> id, open_qty |-> q])]
               ELSE books
  BY <1>2 DEF Rested
<1> HIDE DEF A, P, q, l, B, O
<1>10. CASE t.mode = "Resting" /\ q > 0
  <2> DEFINE x == [id |-> id, open_qty |-> q]
             e == [area |-> t.area, period |-> Delivery, side |-> t.side, price |-> t.price,
                   qty |-> q]
             ds == [books EXCEPT ![t.area] = Insert(books[t.area], t.side, t.price, x)]
  <2>1. q \in 1 .. MaxQuantity
    BY <1>3, <1>10
  <2>2. x \in Item /\ x.id = id /\ x.open_qty = q
    BY <1>8, <2>1 DEF Item
  <2>3. LET y == [id |-> id, open_qty |-> q] IN y.id = id
    OBVIOUS
  <2> HIDE DEF x
  <2>4. LET cs == [books EXCEPT ![t.area] = Insert(books[t.area], t.side, t.price, x)]
            f == [area |-> t.area, period |-> Delivery, side |-> t.side, price |-> t.price,
                  qty |-> x.open_qty]
         IN /\ Good(cs)
            /\ Entries(cs) = WithEntry(Entries(books), x.id, f)
            /\ Queues(cs) = OlderWith(Entries(books), Queues(books), x.id, f)
    BY <1>1, <1>8, <2>2, InsertBooks
  <2>5. /\ Good(ds) /\ Entries(ds) = WithEntry(A, id, e) /\ Queues(ds) = OlderWith(A, P, id, e)
    BY <1>4, <2>2, <2>4
  <2>6. Rested = ds
    BY <1>9, <1>10 DEF x
  <2>7. e = Entry(t, q) /\ l = q
    BY <1>1, <1>5, <1>10 DEF Entry
  <2> QED BY <1>6, <1>7, <1>10, <2>5, <2>6, <2>7 DEF B, O, l
<1>11. CASE ~(t.mode = "Resting" /\ q > 0)
  <2>1. ~(l > 0)
    BY <1>3, <1>5, <1>11
  <2>2. Rested = books
    BY <1>9, <1>11
  <2> QED BY <1>4, <1>6, <1>7, <2>1, <2>2 DEF B, O, l
<1> QED BY <1>10, <1>11

(* Nothing left to take: the taker has come to all makers.                 *)
LEMMA NoneLeftEnds ==
  ASSUME Good(books), Good(committed), NEW t \in Takers, NEW areas \in Reach,
         Started(committed, t, areas, id, keys, walk),
         Underway(committed, t, areas, keys, books, taken, taker.quantity),
         WhatIsLeft(taker, t), taker.quantity > 0
  PROVE  Marketable = {} <=> DOMAIN taken = Makers(Entries(committed), t, areas)
<1> DEFINE B == Entries(committed)
           M == Makers(Entries(books), taker, areas)
<1>1. /\ Choosing(areas) /\ M = Makers(B, t, areas) \ DOMAIN taken
      /\ Prefix(B, Queues(committed), t, areas, taken, taker.quantity)
  BY SweepSees
<1>2. Marketable = {} <=> M = {}
  <2>1. LET C == Entries(books)
            K == Makers(C, taker, areas)
         IN /\ Marketable = {} <=> K = {}
            /\ Marketable # {} =>
                 /\ BestKey \in Marketable
                 /\ \A j \in K \ {FrontOf(BestKey)} :
                      Precedes(C, Queues(books), taker, FrontOf(BestKey), j)
    BY <1>1, BestIsFirst
  <2> QED BY <2>1
<1> HIDE DEF B, M
<1>3. DOMAIN taken \subseteq Makers(B, t, areas)
  BY <1>1 DEF Prefix
<1> QED BY <1>1, <1>2, <1>3 DEF B

(* Over its home book alone, the loop has done what the matcher of one     *)
(* book does.                                                              *)
LEMMA BothMatchers ==
  ASSUME Good(books), Good(committed), NEW t \in Takers, NEW areas \in Reach,
         Started(committed, t, areas, id, keys, walk),
         Underway(committed, t, areas, keys, books, taken, taker.quantity),
         WhatIsLeft(taker, t), Ended(t, areas), keys = <<taker.area>>
  PROVE  LET alone == MatchLimit(committed[taker.area], id, taker.side, taker.price,
                                 taker.quantity + Total(taken), taker.mode)
         IN /\ alone.fills = taken
            /\ alone.left = taker.quantity
            /\ alone.book = Rested[taker.area]
<1> DEFINE a == t.area
           b == committed[a]
           q == taker.quantity
           n == Cardinality(DOMAIN taken)
           N == Cardinality(DOMAIN b.by_id)
           s == [book |-> books[a], left |-> q, fills |-> taken]
           T == Turns(b, t.side, t.price, t.quantity)
           alone == MatchLimit(b, id, t.side, t.price, t.quantity, t.mode)
           rest == [id |-> id, open_qty |-> q]
<1>1. /\ taker.area = a /\ taker.side = t.side
      /\ taker.price = t.price /\ taker.mode = t.mode
  BY SameTaker
<1>2. a \in Area
  BY TakerShape
<1>3. q + Total(taken) = t.quantity /\ q \in 0 .. MaxQuantity
  BY LoopIsSweep
<1>4. /\ n \in 0 .. N /\ T[n] = s
      /\ ~(t.mode = "FillOrKill" /\ MarketableDepth(b, t.side, t.price) < t.quantity)
  <2>1. Alone(b, t, books[a], taken, q)
    BY <1>1 DEF Underway
  <2> HIDE DEF b, a
  <2>2. LET m == Cardinality(DOMAIN taken)
        IN /\ m \in 0 .. Cardinality(DOMAIN b.by_id)
           /\ Turns(b, t.side, t.price, t.quantity)[m]
                = [book |-> books[a], left |-> q, fills |-> taken]
           /\ ~(t.mode = "FillOrKill" /\ MarketableDepth(b, t.side, t.price) < t.quantity)
    BY <2>1 DEF Alone
  <2> QED BY <2>2
<1>5. s.book = books[a] /\ s.left = q /\ s.fills = taken
  OBVIOUS
<1>6. Turn(s, t.side, t.price) = s
  <2>1. CASE q = 0
    BY <1>5, <2>1 DEF Turn
  <2>2. CASE q # 0
    <3>1. q > 0
      BY <1>3, <2>2
    <3>2. Marketable = {}
      BY <2>2, <3>1, NoneLeftEnds DEF Ended
    <3>3. 1 \in DOMAIN keys /\ keys[1] = a
      BY <1>1
    <3>4. \/ OppositeIsEmpty(books[a], t.side)
          \/ ~Crosses(t.side, t.price, PeekOpposite(books[a], t.side))
      BY <1>1, <3>2, <3>3 DEF Marketable
    <3> HIDE DEF s
    <3> QED BY <1>5, <3>4 DEF Turn
  <2> QED BY <2>1, <2>2
<1>7. IsFiniteSet(DOMAIN b.by_id)
  BY <1>2 DEF Good, Whole, Shaped
<1>8. T[N] = s
  <2> HIDE DEF b, s
  <2>1. n \in 0 .. Cardinality(DOMAIN b.by_id)
    BY <1>4
  <2>2. LET r == Turns(b, t.side, t.price, t.quantity)[n] IN Turn(r, t.side, t.price) = r
    BY <1>4, <1>6
  <2> HIDE DEF n
  <2>3. LET turns == Turns(b, t.side, t.price, t.quantity)
        IN turns[Cardinality(DOMAIN b.by_id)] = turns[n]
    BY <1>7, <2>1, <2>2, TurnsStop
  <2> QED BY <1>4, <2>3
<1>9. alone = IF t.mode = "Resting" /\ s.left > 0
              THEN [s EXCEPT !.book = Insert(s.book, t.side, t.price,
                                             [id |-> id, open_qty |-> s.left])]
              ELSE s
  <2> HIDE DEF b, s
  <2> QED BY <1>4, <1>8 DEF MatchLimit
<1>10. Rested = IF t.mode = "Resting" /\ q > 0
               THEN [books EXCEPT ![a] = Insert(books[a], t.side, t.price, rest)]
               ELSE books
  BY <1>1 DEF Rested
<1>11. alone.fills = taken /\ alone.left = q /\ alone.book = Rested[a]
  <2> HIDE DEF b, a
  <2>1. CASE t.mode = "Resting" /\ q > 0
    <3>1. alone = [s EXCEPT !.book = Insert(books[a], t.side, t.price, rest)]
      BY <1>5, <1>9, <2>1
    <3>2. Rested[a] = Insert(books[a], t.side, t.price, rest)
      BY <1>2, <1>10, <2>1 DEF Good
    <3> HIDE DEF alone, rest
    <3> QED BY <3>1, <3>2
  <2>2. CASE ~(t.mode = "Resting" /\ q > 0)
    BY <1>5, <1>9, <1>10, <2>2
  <2> QED BY <2>1, <2>2
<1> QED BY <1>1, <1>3, <1>11 DEF alone, b

-----------------------------------------------------------------------------
(* The market's operators are the ones of the exchange. *)
LEMMA MarketOperators ==
  ASSUME NEW b, NEW O, NEW t, NEW areas, NEW i, NEW F, NEW l
  PROVE  /\ Market!Sweep(b, O, t, areas) = Sweep(b, O, t, areas)
         /\ Market!Leftover(b, t, areas) = Leftover(b, t, areas)
         /\ Market!BooksAfter(b, i, t, F, l) = BooksAfter(b, i, t, F, l)
         /\ Market!QueuesAfter(b, O, i, t, F, l) = QueuesAfter(b, O, i, t, F, l)
         /\ Market!Without(b, areas) = Without(b, areas)
         /\ Market!OlderWithin(O, areas) = OlderWithin(O, areas)
<1>1. /\ Market!Without(b, areas) = Without(b, areas)
      /\ Market!OlderWithin(O, areas) = OlderWithin(O, areas)
  BY DEF Market!Without, Without, Market!OlderWithin, OlderWithin
<1>2. \A c, P, u, as, k, j : Market!Precedes(c, P, u, j, k) = Precedes(c, P, u, j, k)
  BY DEF Market!Precedes, Precedes, Market!Better, Better, Market!ProbedBefore, ProbedBefore
<1>3. Market!Makers(b, t, areas) = Makers(b, t, areas)
  BY DEF Market!Makers, Makers, Market!Crosses, Crosses, Market!Opposite, Opposite
<1>4. \A S : Market!Depth(b, S) = Depth(b, S)
  BY DEF Market!Depth, Depth, Market!Cardinality, Cardinality
<1>5. \A k : Market!Ahead(b, O, t, areas, k) = Ahead(b, O, t, areas, k)
  BY <1>2, <1>3 DEF Market!Ahead, Ahead
<1>6. Market!Reached(b, O, t, areas) = Reached(b, O, t, areas)
  BY <1>3, <1>4, <1>5 DEF Market!Reached, Reached
<1>7. Market!Killed(b, t, areas) = Killed(b, t, areas)
  BY <1>3, <1>4 DEF Market!Killed, Killed
<1>8. \A m, n : Market!SmallerOf(m, n) = SmallerOf(m, n)
  BY DEF Market!SmallerOf, SmallerOf
<1>9. Market!Sweep(b, O, t, areas) = Sweep(b, O, t, areas)
  BY <1>4, <1>5, <1>6, <1>7, <1>8 DEF Market!Sweep, Sweep
<1>10. Market!Leftover(b, t, areas) = Leftover(b, t, areas)
  <2>1. Market!Executed(b, t, areas) = Executed(b, t, areas)
    BY <1>3, <1>4, <1>7, <1>8 DEF Market!Executed, Executed
  <2> QED BY <2>1 DEF Market!Leftover, Leftover
<1>11. Market!AfterFills(b, F) = AfterFills(b, F)
  BY DEF Market!AfterFills, AfterFills, Market!Consumed, Consumed
<1>12. Market!Entry(t, l) = Entry(t, l)
  BY DEF Market!Entry, Entry
<1>13. Market!BooksAfter(b, i, t, F, l) = BooksAfter(b, i, t, F, l)
  BY <1>11, <1>12 DEF Market!BooksAfter, BooksAfter, Market!WithEntry, WithEntry
<1>14. Market!QueuesAfter(b, O, i, t, F, l) = QueuesAfter(b, O, i, t, F, l)
  BY <1>11, <1>12 DEF Market!QueuesAfter, QueuesAfter, Market!OlderWith, OlderWith,
                      Market!OlderWithin, OlderWithin, Market!SameLevel, SameLevel
<1> QED BY <1>1, <1>9, <1>10, <1>13, <1>14

(* A book that is free is the market's.  An order that is killed leaves it *)
(* as it is.                                                               *)
LEMMA KilledChangesNothing ==
  ASSUME NEW bs, Good(bs), NEW t \in Takers, NEW areas, Killed(Entries(bs), t, areas), NEW i
  PROVE  LET B == Entries(bs)
             O == Queues(bs)
         IN /\ Sweep(B, O, t, areas) = NoFills /\ Leftover(B, t, areas) = 0
            /\ BooksAfter(B, i, t, NoFills, 0) = B
            /\ QueuesAfter(B, O, i, t, NoFills, 0) = O
<1> DEFINE B == Entries(bs)
           O == Queues(bs)
<1>1. AfterFills(B, NoFills) = B /\ OlderWithin(O, DOMAIN B) = O
  BY NothingFilled
<1>2. Killed(B, t, areas)
  OBVIOUS
<1> HIDE DEF B, O
<1>3. Sweep(B, O, t, areas) = NoFills
  <2>1. Sweep(B, O, t, areas)
          = [ i2 \in {} |-> SmallerOf(B[i2].qty, t.quantity - Depth(B, Ahead(B, O, t, areas, i2))) ]
    BY <1>2 DEF Sweep
  <2> QED BY <2>1 DEF NoFills
<1>4. Leftover(B, t, areas) = 0
  BY <1>2 DEF Leftover, Killed
<1>5. BooksAfter(B, i, t, NoFills, 0) = B /\ QueuesAfter(B, O, i, t, NoFills, 0) = O
  BY <1>1 DEF BooksAfter, QueuesAfter
<1> QED BY <1>3, <1>4, <1>5 DEF B, O

(* The books are empty at first. *)
LEMMA EmptyBooks ==
  ASSUME NEW bs, bs = [a \in Area |-> EmptyBook]
  PROVE  Good(bs) /\ Entries(bs) = NoFills /\ Queues(bs) = {}
<1>1. DOMAIN EmptyBook.by_id = {} /\ \A s \in Side : DOMAIN EmptyBook.levels[s] = {}
  BY DEF EmptyBook
<1>2. Shaped(EmptyBook)
  <2>1. /\ EmptyBook = [levels |-> EmptyBook.levels, by_id |-> EmptyBook.by_id]
        /\ EmptyBook.levels = [s \in Side |-> EmptyBook.levels[s]]
        /\ EmptyBook.by_id = [i \in DOMAIN EmptyBook.by_id |-> EmptyBook.by_id[i]]
        /\ \A s \in Side : EmptyBook.levels[s]
             = [p \in DOMAIN EmptyBook.levels[s] |-> EmptyBook.levels[s][p]]
    BY DEF EmptyBook
  <2>2. IsFiniteSet({})
    BY FS_EmptySet
  <2> QED BY <1>1, <2>1, <2>2 DEF Shaped
<1>3. Whole(EmptyBook)
  BY <1>1, <1>2 DEF Whole, Indexed
<1>4. \A a \in Area : bs[a] = EmptyBook
  OBVIOUS
<1>5. Good(bs)
  BY <1>1, <1>3, <1>4 DEF Good
<1>6. Resting(bs) = {}
  BY <1>1, <1>4 DEF Resting
<1>7. Entries(bs) = NoFills
  <2>1. Entries(bs) = [i \in {} |-> EntryAt(bs, i)]
    BY <1>6 DEF Entries
  <2> QED BY <2>1 DEF NoFills
<1>8. Queues(bs) = {}
  BY <1>6, QueuesOfResting
<1> QED BY <1>5, <1>7, <1>8

(* The loop's invariant holds at first. *)
LEMMA LoopStarts ==
  Init => LoopInv /\ Market!Init
<1> SUFFICES ASSUME Init PROVE LoopInv /\ Market!Init
  OBVIOUS
<1>1. books = [a \in Area |-> EmptyBook] /\ pc = "idle" /\ committed = books /\ report = NoFills
  BY DEF Init
<1>2. Good(books) /\ Entries(books) = NoFills /\ Queues(books) = {}
  BY <1>1, EmptyBooks
<1>3. LoopInv
  BY <1>1, <1>2 DEF LoopInv
<1>4. MarketBook = NoFills /\ MarketQueues = {} /\ report = NoFills
  BY <1>1, <1>2 DEF MarketBook, MarketQueues
<1>5. Market!Init
  BY <1>4 DEF Market!Init, NoFills
<1> QED BY <1>3, <1>5

(* The market as the loop leaves it alone. *)
Silent == UNCHANGED <<MarketBook, MarketQueues, report>>

(* What a task outside the lock sees at the end of one.                    *)
LEMMA Commits ==
  ASSUME NEW bs, Good(bs), NEW F, Commit(bs, F)
  PROVE  /\ LoopInv'
         /\ MarketBook' = Entries(bs) /\ MarketQueues' = Queues(bs) /\ report' = F
<1>1. books' = bs /\ committed' = bs /\ pc' = "idle" /\ report' = F
  BY DEF Commit
<1>2. LoopInv'
  BY <1>1 DEF LoopInv
<1>3. MarketBook' = Entries(bs) /\ MarketQueues' = Queues(bs)
  BY <1>1 DEF MarketBook, MarketQueues
<1> QED BY <1>1, <1>2, <1>3

(* Taking the lock. *)
LEMMA BeginStep ==
  ASSUME LoopInv, NEW i \in Id, NEW t \in Takers, NEW areas \in Reach, Begin(i, t, areas)
  PROVE  LoopInv' /\ (Market!Submit(i, t, areas) \/ Silent)
<1> DEFINE ks == CandidateKeys(t.area, areas)
<1>1. /\ pc = "idle" /\ t.area \in areas /\ Good(books) /\ committed = books
      /\ i \notin Resting(books)
  BY DEF Begin, LoopInv, Resting
<1>2. CASE Infeasible(t, ks)
  <2>1. Commit(books, NoFills)
    BY <1>2 DEF Begin
  <2>2. LoopInv' /\ MarketBook' = Entries(books) /\ MarketQueues' = Queues(books) /\ report' = NoFills
    BY <1>1, <2>1, Commits
  <2>3. Killed(Entries(books), t, areas)
    BY <1>1, <1>2, ComesIn, ChecksForesee
  <2> DEFINE B == Entries(books)
             O == Queues(books)
  <2>4. /\ Sweep(B, O, t, areas) = NoFills /\ Leftover(B, t, areas) = 0
        /\ BooksAfter(B, i, t, NoFills, 0) = B
        /\ QueuesAfter(B, O, i, t, NoFills, 0) = O
    BY <1>1, <2>3, KilledChangesNothing
  <2>5. i \notin DOMAIN B /\ MarketBook = B /\ MarketQueues = O
    BY <1>1 DEF Entries, MarketBook, MarketQueues
  <2> HIDE DEF B, O
  <2>6. Market!Submit(i, t, areas)
    BY <1>1, <2>2, <2>4, <2>5, MarketOperators DEF Market!Submit, B, O
  <2> QED BY <2>2, <2>6
<1>3. CASE ~Infeasible(t, ks)
  <2>1. /\ pc' = "sweep" /\ taker' = t /\ id' = i /\ keys' = ks /\ taken' = NoFills
        /\ walk' = SelfTradeWalk(t, ks)
        /\ books' = books /\ committed' = committed /\ report' = report
    BY <1>3 DEF Begin
  <2>2. LET k == CandidateKeys(t.area, areas)
        IN /\ Started(books, t, areas, i, k, SelfTradeWalk(t, k))
           /\ Underway(books, t, areas, k, books, NoFills, t.quantity)
    BY <1>1, <1>3, SweepStarts
  <2>3. Started(committed', t, areas, id', keys', walk')
    BY <1>1, <2>1, <2>2
  <2>4. Underway(committed', t, areas, keys', books', taken', taker'.quantity)
    BY <1>1, <2>1, <2>2
  <2>5. WhatIsLeft(taker', t) /\ taker'.quantity > 0
    BY <2>1, TakerShape DEF WhatIsLeft
  <2>6. Sweeping(t, areas)'
    BY <2>1, <2>3, <2>4, <2>5 DEF Sweeping
  <2>7. LoopInv'
    BY <1>1, <2>1, <2>6 DEF LoopInv
  <2>8. Silent
    BY <2>1 DEF Silent, MarketBook, MarketQueues
  <2> QED BY <2>7, <2>8
<1> QED BY <1>2, <1>3

(* One turn. *)
LEMMA TakeStep ==
  ASSUME LoopInv, TakeBest
  PROVE  LoopInv' /\ Silent
<1> DEFINE a == keys[BestKey]
           c == ConsumeFront(books[a], taker.side, taker.quantity)
           ds == [books EXCEPT ![a] = c.book]
           q == taker.quantity - c.taken
<1>1. /\ pc = "sweep" /\ Marketable # {}
      /\ books' = ds /\ taken' = WithEntry(taken, c.maker, c.taken)
      /\ taker' = [taker EXCEPT !.quantity = q]
      /\ pc' = IF taker'.quantity = 0 THEN "rest" ELSE "sweep"
      /\ id' = id /\ keys' = keys /\ walk' = walk /\ committed' = committed /\ report' = report
  BY DEF TakeBest
<1>2. PICK t \in Takers, areas \in Reach : Sweeping(t, areas)
  BY <1>1 DEF LoopInv
<1>3. /\ Good(books) /\ Good(committed)
      /\ Started(committed, t, areas, id, keys, walk)
      /\ Underway(committed, t, areas, keys, books, taken, taker.quantity)
      /\ WhatIsLeft(taker, t) /\ taker.quantity > 0
  BY <1>1, <1>2 DEF Sweeping, LoopInv
<1>4. /\ Good(ds) /\ q \in Nat
      /\ Underway(committed, t, areas, keys, ds, WithEntry(taken, c.maker, c.taken), q)
  BY <1>1, <1>3, LoopTurn
<1> HIDE DEF c, ds, q
<1>5. taker'.quantity = q /\ WhatIsLeft(taker', t)
  <2> DEFINE n == taker.quantity
  <2>1. taker = [t EXCEPT !.quantity = n]
    BY <1>3 DEF WhatIsLeft
  <2> HIDE DEF n
  <2>2. t \in [area : Area, period : {Delivery}, side : Side, price : Int,
               quantity : 1 .. MaxQuantity, mode : Mode]
    BY MatchLoopAssumption
  <2>3. taker' = [t EXCEPT !.quantity = q] /\ taker'.quantity = q
    BY <1>1, <2>1, <2>2
  <2> QED BY <2>3 DEF WhatIsLeft
<1>6. Sweeping(t, areas)'
  <2>1. Started(committed', t, areas, id', keys', walk')
    BY <1>1, <1>3
  <2>2. Underway(committed', t, areas, keys', books', taken', taker'.quantity)
    BY <1>1, <1>4, <1>5
  <2>3. pc' = "sweep" => taker'.quantity > 0
    BY <1>1, <1>4, <1>5
  <2>4. pc' = "rest" => taker'.quantity = 0
    BY <1>1
  <2> QED BY <1>5, <2>1, <2>2, <2>3, <2>4 DEF Sweeping, Ended
<1>7. LoopInv'
  <2>1. pc' \in {"sweep", "rest"}
    BY <1>1
  <2>2. Good(books') /\ Good(committed')
    BY <1>1, <1>3, <1>4
  <2> QED BY <1>6, <2>1, <2>2 DEF LoopInv
<1>8. Silent
  BY <1>1 DEF Silent, MarketBook, MarketQueues
<1> QED BY <1>7, <1>8

(* The last one. *)
LEMMA NoneLeftStep ==
  ASSUME LoopInv, NoneLeft
  PROVE  LoopInv' /\ Silent
<1>1. /\ pc = "sweep" /\ Marketable = {} /\ pc' = "rest"
      /\ books' = books /\ taker' = taker /\ taken' = taken
      /\ id' = id /\ keys' = keys /\ walk' = walk /\ committed' = committed /\ report' = report
  BY DEF NoneLeft
<1>2. PICK t \in Takers, areas \in Reach : Sweeping(t, areas)
  BY <1>1 DEF LoopInv
<1>3. /\ Good(books) /\ Good(committed)
      /\ Started(committed, t, areas, id, keys, walk)
      /\ Underway(committed, t, areas, keys, books, taken, taker.quantity)
      /\ WhatIsLeft(taker, t) /\ taker.quantity > 0
  BY <1>1, <1>2 DEF Sweeping, LoopInv
<1>4. DOMAIN taken = Makers(Entries(committed), t, areas)
  BY <1>1, <1>3, NoneLeftEnds
<1>5. Sweeping(t, areas)'
  BY <1>1, <1>3, <1>4 DEF Sweeping, Ended
<1>6. LoopInv'
  BY <1>1, <1>3, <1>5 DEF LoopInv
<1>7. Silent
  BY <1>1 DEF Silent, MarketBook, MarketQueues
<1> QED BY <1>6, <1>7

(* The loop at its end. *)
LEMMA AtRest ==
  ASSUME LoopInv, pc = "rest"
  PROVE  /\ Good(books) /\ Good(committed)
         /\ \E t \in Takers, areas \in Reach :
              /\ Started(committed, t, areas, id, keys, walk)
              /\ Underway(committed, t, areas, keys, books, taken, taker.quantity)
              /\ WhatIsLeft(taker, t) /\ Ended(t, areas)
<1>1. PICK t \in Takers, areas \in Reach : Sweeping(t, areas)
  BY DEF LoopInv
<1> QED BY <1>1 DEF LoopInv, Sweeping

(* Giving the lock back: one submission to the market. *)
LEMMA FinishStep ==
  ASSUME LoopInv, Finish
  PROVE  /\ LoopInv'
         /\ \E t \in Takers, areas \in Reach : id \in Id /\ Market!Submit(id, t, areas)
<1>1. pc = "rest" /\ Commit(Rested, taken)
  BY DEF Finish
<1>2. PICK t \in Takers, areas \in Reach :
           /\ Started(committed, t, areas, id, keys, walk)
           /\ Underway(committed, t, areas, keys, books, taken, taker.quantity)
           /\ WhatIsLeft(taker, t) /\ Ended(t, areas)
  BY <1>1, AtRest
<1>3. Good(books) /\ Good(committed)
  BY DEF LoopInv
<1> DEFINE B == Entries(committed)
           O == Queues(committed)
           l == Leftover(B, t, areas)
<1>4. /\ Good(Rested)
      /\ Entries(Rested) = BooksAfter(B, id, t, taken, l)
      /\ Queues(Rested) = QueuesAfter(B, O, id, t, taken, l)
  BY <1>2, <1>3, RestedBooks
<1>5. taken = Sweep(B, O, t, areas)
  BY <1>2, <1>3, LoopIsSweep
<1>6. LoopInv' /\ MarketBook' = Entries(Rested) /\ MarketQueues' = Queues(Rested) /\ report' = taken
  BY <1>1, <1>4, Commits
<1>7. id \in Id /\ id \notin DOMAIN B /\ t.area \in areas
  BY <1>2 DEF Started, Entries
<1>8. MarketBook = B /\ MarketQueues = O
  BY DEF MarketBook, MarketQueues
<1> HIDE DEF B, O
<1>9. Market!Submit(id, t, areas)
  BY <1>4, <1>5, <1>6, <1>7, <1>8, MarketOperators DEF Market!Submit, B, O
<1> QED BY <1>6, <1>7, <1>9

(* A cancel: one withdrawal. *)
LEMMA WithdrawStep ==
  ASSUME LoopInv, NEW i \in Id, Withdraw(i)
  PROVE  LoopInv' /\ Market!Withdraw(i)
<1>1. PICK a \in Area : /\ pc = "idle" /\ i \in DOMAIN books[a].by_id
                        /\ Commit([books EXCEPT ![a] = Cancel(books[a], i)], report)
  BY DEF Withdraw
<1>2. Good(books) /\ committed = books
  BY <1>1 DEF LoopInv
<1> DEFINE ds == [books EXCEPT ![a] = Cancel(books[a], i)]
<1>3. /\ Good(ds) /\ Entries(ds) = Without(Entries(books), {i})
      /\ Queues(ds) = OlderWithin(Queues(books), Resting(books) \ {i})
  BY <1>1, <1>2, CancelBooks
<1>4. LoopInv' /\ MarketBook' = Entries(ds) /\ MarketQueues' = Queues(ds) /\ report' = report
  BY <1>1, <1>3, Commits
<1>5. DOMAIN Entries(books) = Resting(books) /\ i \in Resting(books)
  BY <1>1 DEF Entries, Resting
<1>6. MarketBook = Entries(books) /\ MarketQueues = Queues(books)
  BY <1>2 DEF MarketBook, MarketQueues
<1> HIDE DEF ds
<1>7. Market!Withdraw(i)
  BY <1>3, <1>4, <1>5, <1>6, MarketOperators DEF Market!Withdraw
<1> QED BY <1>4, <1>7

(* Every step keeps the invariant, and is a step of the market or none.    *)
LEMMA LoopSteps ==
  ASSUME LoopInv, [Next]_vars
  PROVE  LoopInv' /\ [Market!Next]_<<MarketBook, MarketQueues, report>>
<1>1. ASSUME NEW i \in Id, NEW t \in Takers, NEW areas \in Reach, Begin(i, t, areas)
      PROVE  LoopInv' /\ (Market!Next \/ Silent)
  BY <1>1, BeginStep DEF Market!Next
<1>2. ASSUME TakeBest PROVE LoopInv' /\ Silent
  BY <1>2, TakeStep
<1>3. ASSUME NoneLeft PROVE LoopInv' /\ Silent
  BY <1>3, NoneLeftStep
<1>4. ASSUME Finish PROVE LoopInv' /\ Market!Next
  BY <1>4, FinishStep DEF Market!Next
<1>5. ASSUME NEW i \in Id, Withdraw(i) PROVE LoopInv' /\ Market!Next
  BY <1>5, WithdrawStep DEF Market!Next
<1>6. ASSUME UNCHANGED vars PROVE LoopInv' /\ Silent
  <2>1. /\ books' = books /\ pc' = pc /\ taker' = taker /\ taken' = taken /\ id' = id
        /\ keys' = keys /\ walk' = walk /\ committed' = committed /\ report' = report
    BY <1>6 DEF vars
  <2>2. \A t, areas : Sweeping(t, areas)' <=> Sweeping(t, areas)
    BY <2>1 DEF Sweeping, Ended
  <2>3. LoopInv'
    BY <2>1, <2>2 DEF LoopInv
  <2> QED BY <2>1, <2>3 DEF Silent, MarketBook, MarketQueues
<1>7. LoopInv' /\ (Market!Next \/ Silent)
  BY <1>1, <1>2, <1>3, <1>4, <1>5, <1>6 DEF Next
<1> QED BY <1>7 DEF Silent

(* The loop's invariant: while the lock is free the books are those the    *)
(* others see; while it is held, the fills so far are the first ones of    *)
(* the price-time sweep, and the books are what they leave.                *)
THEOREM LoopCorrect == Spec => []LoopInv
<1>1. Init => LoopInv
  BY LoopStarts
<1>2. LoopInv /\ [Next]_vars => LoopInv'
  BY LoopSteps
<1> QED BY <1>1, <1>2, PTL DEF Spec

(* The engine implements the price-time market: seen from outside the      *)
(* lock, the loop over the queues of any number of books is one sweep in   *)
(* price-time priority, of the operators the exchange is built from.       *)
THEOREM LoopImplements == Spec => ImplementsPriceTime
<1>1. Init => Market!Init
  BY LoopStarts
<1>2. LoopInv /\ [Next]_vars => [Market!Next]_<<MarketBook, MarketQueues, report>>
  BY LoopSteps
<1> QED BY <1>1, <1>2, LoopCorrect, PTL DEF Spec, Market!Spec, ImplementsPriceTime

(* A sound book's index and queues agree as the structure documents. *)
LEMMA WholeMatches ==
  ASSUME NEW b, Whole(b)
  PROVE  IndexMatchesQueues(b)
<1>1. ASSUME NEW i \in DOMAIN b.by_id
      PROVE  \E s \in Side : \E p \in DOMAIN b.levels[s] :
               /\ b.by_id[i] = <<s, p>>
               /\ \E n \in DOMAIN b.levels[s][p] : Occurrences(b, i) = {<<s, p, n>>}
  <2>1. PICK s \in Side, p \in Int :
           /\ b.by_id[i] = <<s, p>> /\ p \in DOMAIN b.levels[s]
           /\ PlaceOf(b, i) \in DOMAIN Level(b, s, p)
           /\ Level(b, s, p)[PlaceOf(b, i)].id = i
    BY IndexPlace
  <2> DEFINE n == PlaceOf(b, i)
  <2>2. Level(b, s, p) = b.levels[s][p]
    BY <2>1, LevelQueue
  <2>3. n \in DOMAIN b.levels[s][p] /\ b.levels[s][p][n].id = i
    BY <2>1, <2>2
  <2> HIDE DEF n
  <2>4. ASSUME NEW r \in Side, NEW o \in DOMAIN b.levels[r], NEW m \in DOMAIN b.levels[r][o],
               b.levels[r][o][m].id = i
        PROVE  r = s /\ o = p /\ m = n
    <3>1. Level(b, r, o) = b.levels[r][o]
      BY LevelQueue
    <3>2. m \in DOMAIN Level(b, r, o)
      BY <3>1
    <3>3. /\ b.by_id[Level(b, r, o)[m].id] = <<r, o>>
          /\ PlaceOf(b, Level(b, r, o)[m].id) = m
      BY <3>2, PlaceIndex
    <3>4. b.by_id[i] = <<r, o>> /\ PlaceOf(b, i) = m
      BY <2>4, <3>1, <3>3
    <3> QED BY <2>1, <3>4 DEF n
  <2>5. Occurrences(b, i) = {<<s, p, n>>}
    <3>1. <<s, p, n>> \in Occurrences(b, i)
      BY <2>1, <2>3 DEF Occurrences
    <3>2. ASSUME NEW z \in Occurrences(b, i) PROVE z = <<s, p, n>>
      <4>1. PICK r \in Side :
              z \in UNION { { <<r, o, m>> : m \in { k \in DOMAIN b.levels[r][o] :
                                                       b.levels[r][o][k].id = i } } :
                             o \in DOMAIN b.levels[r] }
        BY <3>2 DEF Occurrences
      <4>2. PICK o \in DOMAIN b.levels[r] :
              z \in { <<r, o, m>> : m \in { k \in DOMAIN b.levels[r][o] :
                                              b.levels[r][o][k].id = i } }
        BY <4>1
      <4>3. PICK m \in DOMAIN b.levels[r][o] : b.levels[r][o][m].id = i /\ z = <<r, o, m>>
        BY <4>2
      <4> QED BY <2>4, <4>3
    <3> QED BY <3>1, <3>2
  <2> QED BY <2>1, <2>3, <2>5
<1>2. ASSUME NEW s \in Side, NEW p \in DOMAIN b.levels[s]
      PROVE  /\ b.levels[s][p] # << >>
             /\ \A n \in DOMAIN b.levels[s][p] :
                  /\ b.levels[s][p][n].id \in DOMAIN b.by_id
                  /\ b.levels[s][p][n].open_qty > 0
  <2>1. b.levels[s][p] # << >> /\ b.levels[s][p] \in Queue
    BY DEF Whole, Shaped
  <2>2. \A n \in DOMAIN b.levels[s][p] : b.levels[s][p][n].open_qty \in 1 .. MaxQuantity
    BY <2>1, QueueEntry
  <2>3. \A n \in DOMAIN b.levels[s][p] : b.levels[s][p][n].id \in DOMAIN b.by_id
    BY DEF Whole, Indexed
  <2> QED BY <2>1, <2>2, <2>3
<1> QED BY <1>1, <1>2 DEF IndexMatchesQueues

(* The three ways the code walks a book agree, for any books and orders:   *)
(* the structure stays whole, the self-trade check foresees exactly the    *)
(* makers the loop trades with, and over one book the loop ends as the     *)
(* matcher of one book does.                                               *)
THEOREM AllWalksAgree == Spec => []WalksAgree
<1>1. LoopInv => WalksAgree
  <2> SUFFICES ASSUME LoopInv PROVE WalksAgree
    OBVIOUS
  <2>1. BooksWellFormed
    BY WholeMatches DEF LoopInv, Good, BooksWellFormed
  <2>2. WalkForeseesFills
    BY AtRest, LoopIsSweep DEF WalkForeseesFills
  <2>3. MatchersAgree
    BY AtRest, BothMatchers DEF MatchersAgree
  <2> QED BY <2>1, <2>2, <2>3 DEF WalksAgree
<1> QED BY <1>1, LoopCorrect, PTL
=============================================================================
