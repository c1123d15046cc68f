---------------------------- MODULE WorldProofs -----------------------------
(***************************************************************************)
(* The exchange, for any number of areas, periods, gridpools and orders,   *)
(* any couplings and any requests: first the safety of World's state, then *)
(* its history, which trades a step makes, what is recorded of them, and   *)
(* what is never undone.                                                   *)
(***************************************************************************)
EXTENDS World, MatchingProofs

(* Books that hold typed entries in queues without repetitions. *)
GoodBook(b, ol, n) ==
  /\ DOMAIN b \subseteq 1 .. n
  /\ \A i \in DOMAIN b : b[i] \in BookEntry /\ <<i, i>> \notin ol
  /\ ol \subseteq (DOMAIN b) \X (DOMAIN b)

Uncrossed(b) ==
  \A i, j \in DOMAIN b :
    /\ b[i].area = b[j].area /\ b[i].period = b[j].period
    /\ b[i].side = "Buy" /\ b[j].side = "Sell"
    => b[i].price < b[j].price

(* What the state machine relies on of a sweep of t. *)
GoodFills(b, t, areas, fills, taken) ==
  /\ DOMAIN fills \subseteq DOMAIN b
  /\ IsFiniteSet(DOMAIN fills)
  /\ \A i \in DOMAIN fills : fills[i] \in 1 .. b[i].qty
  /\ taken \in 0 .. t.quantity
  /\ t.mode = "FillOrKill" => taken \in {0, t.quantity}
  /\ t.mode = "Resting" /\ taken < t.quantity =>
       Consumed(b, fills) = Makers(b, t, areas)

GoodTaker(t) ==
  /\ t.area \in Area /\ t.period \in Period
  /\ t.side \in Side /\ t.price \in Price

(* Good books are well formed, the assumption of the sweep's theorems. *)
LEMMA GoodIsWellFormed ==
  ASSUME NEW b, NEW ol, NEW n \in Nat, GoodBook(b, ol, n)
  PROVE  WellFormed(b, ol)
<1>1. IsFiniteSet(1 .. n)
  BY FS_Interval
<1>2. IsFiniteSet(DOMAIN b)
  BY <1>1, FS_Subset DEF GoodBook
<1>3. ASSUME NEW i \in DOMAIN b
      PROVE  /\ b[i].area \in Area /\ b[i].price \in Int
             /\ b[i].qty \in 1 .. MaxQuantity /\ <<i, i>> \notin ol
  BY WorldAssumption DEF GoodBook, BookEntry, Quantity
<1>4. QED
  BY <1>2, <1>3 DEF WellFormed

(* A sweep of a resting, immediate or fill-or-kill taker yields good fills. *)
LEMMA SweepIsGood ==
  ASSUME NEW b, NEW ol, NEW n \in Nat, GoodBook(b, ol, n),
         NEW t, NEW areas, t.quantity \in Nat
  PROVE  GoodFills(b, t, areas, Sweep(b, ol, t, areas), Executed(b, t, areas))
<1>1. WellFormed(b, ol)
  BY GoodIsWellFormed
<1>2. t.mode = "Resting" => ~Killed(b, t, areas)
  BY DEF Killed
<1>3. Makers(b, t, areas) \subseteq DOMAIN b
  BY DEF Makers
<1>4. QED
  BY <1>1, <1>2, <1>3, SweepFills, ExecutedBounds, SweepExhausts DEF GoodFills

(* The books after the makers' part of the fills: nothing is added, and    *)
(* what stays keeps everything but its quantity.                           *)
LEMMA AfterFillsBook ==
  ASSUME NEW b, NEW ol, NEW n \in Nat, GoodBook(b, ol, n),
         NEW t, NEW areas, NEW fills, NEW taken,
         GoodFills(b, t, areas, fills, taken)
  PROVE  LET left == AfterFills(b, fills)
             oldl == OlderWithin(ol, DOMAIN left)
         IN /\ DOMAIN left = DOMAIN b \ Consumed(b, fills)
            /\ \A i \in DOMAIN left :
                 /\ left[i] = IF i \in DOMAIN fills
                              THEN [b[i] EXCEPT !.qty = @ - fills[i]] ELSE b[i]
                 /\ SameLevel(left[i], b[i])
            /\ GoodBook(left, oldl, n)
<1>. DEFINE left == AfterFills(b, fills)
            oldl == OlderWithin(ol, DOMAIN left)
<1>1. DOMAIN left = DOMAIN b \ Consumed(b, fills)
  BY DEF AfterFills
<1>2. ASSUME NEW i \in DOMAIN left
      PROVE  left[i] = IF i \in DOMAIN fills
                       THEN [b[i] EXCEPT !.qty = @ - fills[i]] ELSE b[i]
  BY DEF AfterFills
<1>3. ASSUME NEW i \in DOMAIN left
      PROVE  left[i] \in BookEntry /\ SameLevel(left[i], b[i])
  <2>1. b[i] \in BookEntry
    BY <1>1 DEF GoodBook
  <2>2. CASE i \notin DOMAIN fills
    BY <1>2, <2>1, <2>2 DEF BookEntry, SameLevel
  <2>3. CASE i \in DOMAIN fills
    <3>1. fills[i] \in 1 .. b[i].qty /\ fills[i] # b[i].qty
      BY <1>1, <2>3 DEF Consumed, GoodFills
    <3>2. b[i].qty \in 1 .. MaxQuantity /\ MaxQuantity \in Nat
      BY <2>1, MatchingAssumption DEF BookEntry, Quantity
    <3>3. b[i].qty - fills[i] \in Quantity
      BY <3>1, <3>2 DEF Quantity
    <3>4. left[i] = [b[i] EXCEPT !.qty = @ - fills[i]]
      BY <1>2, <2>3
    <3>. HIDE DEF left
    <3>5. QED
      BY <2>1, <3>3, <3>4 DEF BookEntry, SameLevel
  <2>4. QED
    BY <2>2, <2>3
<1>4. GoodBook(left, oldl, n)
  <2>. HIDE DEF left
  <2>. QED  BY <1>1, <1>3 DEF GoodBook, OlderWithin
<1>5. QED
  BY <1>1, <1>2, <1>3, <1>4

(* A sweep of t, on good books, and what of t is put at rest under id.     *)
SweepCase(b, ol, n, t, areas, fills, taken, id, rest) ==
  /\ n \in Nat /\ GoodBook(b, ol, n) /\ Uncrossed(b)
  /\ GoodTaker(t) /\ t.quantity \in 0 .. MaxQuantity
  /\ t.area \in areas
  /\ GoodFills(b, t, areas, fills, taken)
  /\ id \in 1 .. n /\ id \notin DOMAIN b
  /\ rest \in 0 .. t.quantity
  /\ rest > 0 => t.mode = "Resting" /\ taken < t.quantity

(* What the books bk and the queues qs then are: the makers after their    *)
(* fills, and the leftover; well formed and uncrossed.                     *)
SweptBook(b, n, id, t, fills, rest, bk, qs) ==
  /\ GoodBook(bk, qs, n)
  /\ Uncrossed(bk)
  /\ DOMAIN bk = DOMAIN AfterFills(b, fills)
                   \cup (IF rest > 0 THEN {id} ELSE {})
  /\ rest > 0 => bk[id] = Entry(t, rest)
  /\ \A i \in DOMAIN AfterFills(b, fills) : bk[i] = AfterFills(b, fills)[i]

(* No crossed book appears, because whatever the leftover would cross has  *)
(* been consumed.                                                          *)
LEMMA RebookGood ==
  ASSUME NEW b, NEW ol, NEW n, NEW t, NEW areas, NEW fills, NEW taken,
         NEW id, NEW rest,
         SweepCase(b, ol, n, t, areas, fills, taken, id, rest)
  PROVE  SweptBook(b, n, id, t, fills, rest,
                   BooksAfter(b, id, t, fills, rest),
                   QueuesAfter(b, ol, id, t, fills, rest))
<1>. DEFINE left == AfterFills(b, fills)
            oldl == OlderWithin(ol, DOMAIN left)
            bk   == BooksAfter(b, id, t, fills, rest)
            qs   == QueuesAfter(b, ol, id, t, fills, rest)
<1>. /\ n \in Nat /\ GoodBook(b, ol, n) /\ Uncrossed(b)
     /\ GoodTaker(t) /\ t.quantity \in 0 .. MaxQuantity
     /\ t.area \in areas
     /\ GoodFills(b, t, areas, fills, taken)
     /\ id \in 1 .. n /\ id \notin DOMAIN b
     /\ rest \in 0 .. t.quantity
     /\ rest > 0 => t.mode = "Resting" /\ taken < t.quantity
  BY DEF SweepCase
<1>1. /\ DOMAIN left = DOMAIN b \ Consumed(b, fills)
      /\ \A i \in DOMAIN left : SameLevel(left[i], b[i])
      /\ GoodBook(left, oldl, n)
  BY AfterFillsBook
<1>2. \A i \in DOMAIN left :
        /\ left[i].area = b[i].area /\ left[i].period = b[i].period
        /\ left[i].side = b[i].side /\ left[i].price = b[i].price
  BY <1>1 DEF SameLevel
<1>3. Uncrossed(left)
  <2>. HIDE DEF left
  <2>. QED  BY <1>1, <1>2 DEF Uncrossed
<1>4. id \notin DOMAIN left
  BY <1>1
<1>5. CASE rest = 0
  <2>1. bk = left /\ qs = oldl
    BY <1>5 DEF BooksAfter, QueuesAfter
  <2>2. GoodBook(bk, qs, n) /\ Uncrossed(bk)
    BY <1>1, <1>3, <2>1 DEF GoodBook, Uncrossed
  <2>3. QED
    BY <1>5, <2>1, <2>2 DEF SweptBook
<1>6. CASE rest > 0
  <2>. DEFINE e == Entry(t, rest)
  <2>1. /\ bk = WithEntry(left, id, e)
        /\ qs = OlderWith(left, oldl, id, e)
    BY <1>6 DEF BooksAfter, QueuesAfter
  <2>2. e \in BookEntry
    <3>1. rest \in Quantity
      BY <1>6, MatchingAssumption DEF Quantity
    <3>2. QED
      BY <3>1 DEF Entry, BookEntry, GoodTaker
  <2>. HIDE DEF left, oldl, bk, qs
  <2>3. /\ DOMAIN bk = DOMAIN left \cup {id}
        /\ bk[id] = e
        /\ \A i \in DOMAIN left : bk[i] = left[i]
    BY <1>4, <2>1 DEF WithEntry
  <2>4. GoodBook(bk, qs, n)
    <3>1. \A i \in DOMAIN bk : bk[i] \in BookEntry
      BY <1>1, <2>2, <2>3 DEF GoodBook
    <3>2. qs = oldl \cup { <<j, id>> : j \in { k \in DOMAIN left \ {id} :
                                                     SameLevel(left[k], e) } }
      BY <2>1 DEF OlderWith
    <3>3. qs \subseteq (DOMAIN bk) \X (DOMAIN bk)
      BY <1>1, <2>3, <3>2 DEF GoodBook
    <3>4. \A i \in DOMAIN bk : <<i, i>> \notin qs
      BY <1>1, <1>4, <2>3, <3>2 DEF GoodBook
    <3>5. DOMAIN bk \subseteq 1 .. n
      BY <1>1, <2>3 DEF GoodBook
    <3>6. QED
      BY <3>1, <3>3, <3>4, <3>5 DEF GoodBook
  <2>5. ASSUME NEW i \in DOMAIN left,
               left[i].area = t.area, left[i].period = t.period,
               left[i].side = Opposite(t.side)
        PROVE  ~Crosses(t.side, t.price, left[i].price)
    <3>1. i \in DOMAIN b /\ i \notin Makers(b, t, areas)
      BY <1>1, <1>6 DEF GoodFills
    <3>2. QED
      BY <1>2, <2>5, <3>1 DEF Makers
  <2>6. Uncrossed(bk)
    <3>1. e.area = t.area /\ e.period = t.period
          /\ e.side = t.side /\ e.price = t.price
      BY DEF Entry
    <3>. HIDE DEF e
    <3>2. ASSUME NEW i \in DOMAIN bk, NEW j \in DOMAIN bk,
                 bk[i].area = bk[j].area,
                 bk[i].period = bk[j].period,
                 bk[i].side = "Buy", bk[j].side = "Sell"
          PROVE  bk[i].price < bk[j].price
      <4>1. bk[i].price \in Int /\ bk[j].price \in Int
        BY <2>4, WorldAssumption DEF GoodBook, BookEntry
      <4>2. CASE i \in DOMAIN left /\ j \in DOMAIN left
        BY <1>3, <2>3, <3>2, <4>2 DEF Uncrossed
      <4>3. CASE i = id /\ j \in DOMAIN left
        BY <2>3, <2>5, <3>1, <3>2, <4>1, <4>3 DEF Opposite, Crosses
      <4>4. CASE i \in DOMAIN left /\ j = id
        BY <2>3, <2>5, <3>1, <3>2, <4>1, <4>4 DEF Opposite, Crosses
      <4>5. i # id \/ j # id
        BY <3>2
      <4>6. QED
        BY <2>3, <4>2, <4>3, <4>4, <4>5
    <3>3. QED
      BY <3>2 DEF Uncrossed
  <2>7. QED
    BY <1>6, <2>3, <2>4, <2>6 DEF left, bk, qs, SweptBook
<1>7. QED
  BY <1>5, <1>6

-----------------------------------------------------------------------------
(* An order's own account. *)
GoodDetail(d) ==
  /\ d \in OrderDetail
  /\ d.open + d.filled = d.quantity
  /\ d.state = "Filled" <=> d.open = 0
  /\ d.state # "Failed"

(* The orders od, the bindings ow and the book bk agree. *)
Consistent(od, ow, bk) ==
  /\ \A i \in DOMAIN od :
       /\ GoodDetail(od[i])
       /\ ~IsTerminal(od[i].state) <=> i \in DOMAIN ow
  /\ DOMAIN ow = DOMAIN od \cap DOMAIN bk
  /\ \A i \in DOMAIN ow :
       /\ ow[i] \in Gridpool
       /\ ow[i] = od[i].gridpool
       /\ bk[i] = Entry(od[i], od[i].open)

(* The makers' side of record_fill keeps the three views in agreement: a   *)
(* maker leaves the book, loses its binding and becomes Filled together.   *)
LEMMA FillsConsistent ==
  ASSUME Consistent(orders, owner, book),
         NEW fills, DOMAIN fills \subseteq DOMAIN book,
         \A i \in DOMAIN fills : fills[i] \in 1 .. book[i].qty
  PROVE  /\ DOMAIN MakersAfter(fills) = DOMAIN orders
         /\ Consistent(MakersAfter(fills), OwnersAfter(fills),
                       AfterFills(book, fills))
<1>. DEFINE od == MakersAfter(fills)
            ow == OwnersAfter(fills)
            bk == AfterFills(book, fills)
<1>1. MaxQuantity \in Nat
  BY MatchingAssumption
<1>2. /\ DOMAIN od = DOMAIN orders
      /\ \A i \in DOMAIN od :
           od[i] = IF i \in DOMAIN fills \cap DOMAIN owner
                   THEN MakerAfterFill(orders[i], fills[i]) ELSE orders[i]
  BY DEF MakersAfter
<1>3. /\ DOMAIN ow = { j \in DOMAIN owner : ~ /\ j \in DOMAIN fills
                                              /\ orders[j].open = fills[j] }
      /\ \A i \in DOMAIN ow : ow[i] = owner[i]
  BY DEF OwnersAfter
<1>4. /\ DOMAIN bk = DOMAIN book \ Consumed(book, fills)
      /\ \A i \in DOMAIN bk :
           bk[i] = IF i \in DOMAIN fills
                   THEN [book[i] EXCEPT !.qty = @ - fills[i]] ELSE book[i]
  BY DEF AfterFills
<1>5. \A i \in DOMAIN owner :
        /\ i \in DOMAIN orders /\ i \in DOMAIN book
        /\ owner[i] \in Gridpool /\ owner[i] = orders[i].gridpool
        /\ book[i] = Entry(orders[i], orders[i].open)
        /\ book[i].qty = orders[i].open
  BY DEF Consistent, Entry
<1>. HIDE DEF od, ow, bk
<1>6. ASSUME NEW i \in DOMAIN orders, i \in DOMAIN fills \cap DOMAIN owner
      PROVE  /\ GoodDetail(od[i])
             /\ od[i].gridpool = orders[i].gridpool
             /\ ~IsTerminal(od[i].state) <=> orders[i].open # fills[i]
             /\ orders[i].open # fills[i] =>
                  Entry(od[i], od[i].open)
                    = [book[i] EXCEPT !.qty = @ - fills[i]]
  <2>. DEFINE d == orders[i]
  <2>1. GoodDetail(d) /\ ~IsTerminal(d.state)
    BY <1>6 DEF Consistent
  <2>2. /\ d \in OrderDetail /\ d.open \in 0 .. MaxQuantity
        /\ d.filled \in 0 .. MaxQuantity
        /\ d.quantity \in 1 .. MaxQuantity
        /\ d.open + d.filled = d.quantity
    BY <2>1 DEF GoodDetail, OrderDetail, Quantity
  <2>3. fills[i] \in 1 .. d.open
    BY <1>5, <1>6
  <2>4. od[i] = MakerAfterFill(d, fills[i])
    BY <1>2, <1>6
  <2>. HIDE DEF d
  <2>5. /\ od[i].filled = d.filled + fills[i]
        /\ od[i].open = d.open - fills[i]
        /\ od[i].state = IF d.open = fills[i] THEN "Filled" ELSE d.state
        /\ od[i].gridpool = d.gridpool /\ od[i].quantity = d.quantity
        /\ od[i].area = d.area /\ od[i].period = d.period
        /\ od[i].side = d.side /\ od[i].price = d.price
    BY <2>2, <2>4 DEF MakerAfterFill, OrderDetail
  <2>6. /\ d.filled + fills[i] \in 0 .. MaxQuantity
        /\ d.open - fills[i] \in 0 .. MaxQuantity
        /\ (d.open - fills[i]) + (d.filled + fills[i]) = d.quantity
        /\ d.open - fills[i] = 0 <=> d.open = fills[i]
    BY <1>1, <2>2, <2>3
  <2>7. od[i] \in OrderDetail
    BY <2>2, <2>4, <2>6 DEF MakerAfterFill, OrderDetail, OrderState
  <2>8. d.state = "Active"
    BY <2>1, <2>2 DEF OrderDetail, OrderState, IsTerminal
  <2>9. GoodDetail(od[i])
    BY <2>5, <2>6, <2>7, <2>8 DEF GoodDetail
  <2>10. ~IsTerminal(od[i].state) <=> d.open # fills[i]
    BY <2>5, <2>8 DEF IsTerminal
  <2>11. book[i] = Entry(d, d.open)
    BY <1>5, <1>6 DEF d
  <2>12. Entry(od[i], od[i].open) = [book[i] EXCEPT !.qty = @ - fills[i]]
    BY <2>5, <2>11 DEF Entry
  <2>13. QED
    BY <2>5, <2>9, <2>10, <2>12 DEF d
<1>7. ASSUME NEW i \in DOMAIN orders, i \notin DOMAIN fills \cap DOMAIN owner
      PROVE  /\ GoodDetail(od[i]) /\ od[i] = orders[i]
             /\ ~IsTerminal(od[i].state) <=> i \in DOMAIN ow
  BY <1>2, <1>3, <1>7 DEF Consistent
<1>8. ASSUME NEW i \in DOMAIN owner
      PROVE  i \in DOMAIN ow <=> i \in DOMAIN bk
  BY <1>3, <1>4, <1>5 DEF Consumed
<1>9. \A i \in DOMAIN od : /\ GoodDetail(od[i])
                           /\ ~IsTerminal(od[i].state) <=> i \in DOMAIN ow
  BY <1>2, <1>3, <1>6, <1>7
<1>10. DOMAIN ow = DOMAIN od \cap DOMAIN bk
  <2>1. DOMAIN owner = DOMAIN orders \cap DOMAIN book
    BY DEF Consistent
  <2>2. QED
    BY <1>2, <1>3, <1>4, <1>8, <2>1
<1>11. ASSUME NEW i \in DOMAIN ow
       PROVE  /\ ow[i] \in Gridpool
              /\ ow[i] = od[i].gridpool
              /\ bk[i] = Entry(od[i], od[i].open)
  BY <1>3, <1>4, <1>5, <1>6, <1>7, <1>8
<1>12. QED
  BY <1>2, <1>9, <1>10, <1>11 DEF Consistent, od, ow, bk

(* An order is given the terms and the account d, and rests or not. *)
PutCase(od, ow, bk, od2, ow2, bk2, id, d, rests) ==
  /\ Consistent(od, ow, bk)
  /\ rests \in BOOLEAN
  /\ GoodDetail(d)
  /\ ~IsTerminal(d.state) <=> rests
  /\ DOMAIN od2 = DOMAIN od \cup {id}
  /\ od2[id] = d
  /\ \A i \in DOMAIN od \ {id} : od2[i] = od[i]
  /\ DOMAIN ow2 = (DOMAIN ow \ {id}) \cup (IF rests THEN {id} ELSE {})
  /\ rests => ow2[id] = d.gridpool
  /\ \A i \in DOMAIN ow \ {id} : ow2[i] = ow[i]
  /\ DOMAIN bk2 = (DOMAIN bk \ {id}) \cup (IF rests THEN {id} ELSE {})
  /\ rests => bk2[id] = Entry(d, d.open)
  /\ \A i \in DOMAIN bk \ {id} : bk2[i] = bk[i]

(* Adding or replacing one order with its binding and entry keeps the      *)
(* three maps consistent.                                                  *)
LEMMA PutOrderConsistent ==
  ASSUME NEW od, NEW ow, NEW bk, NEW od2, NEW ow2, NEW bk2,
         NEW id, NEW d, NEW rests,
         PutCase(od, ow, bk, od2, ow2, bk2, id, d, rests)
  PROVE  Consistent(od2, ow2, bk2)
<1>. USE DEF PutCase
<1>1. ASSUME NEW i \in DOMAIN od2
      PROVE  GoodDetail(od2[i]) /\ (~IsTerminal(od2[i].state) <=> i \in DOMAIN ow2)
  <2>1. CASE i = id
    BY <2>1
  <2>2. CASE i # id
    BY <2>2 DEF Consistent
  <2>3. QED
    BY <2>1, <2>2
<1>2. DOMAIN ow2 = DOMAIN od2 \cap DOMAIN bk2
  BY DEF Consistent
<1>3. ASSUME NEW i \in DOMAIN ow2
      PROVE  /\ ow2[i] \in Gridpool /\ ow2[i] = od2[i].gridpool
             /\ bk2[i] = Entry(od2[i], od2[i].open)
  <2>1. CASE i = id
    <3>1. d.gridpool \in Gridpool
      BY DEF GoodDetail, OrderDetail
    <3>2. QED
      BY <2>1, <3>1
  <2>2. CASE i # id
    BY <2>2 DEF Consistent
  <2>3. QED
    BY <2>1, <2>2
<1>4. QED
  BY <1>1, <1>2, <1>3 DEF Consistent

(* The orders S are closed without a trade, and U leaves the books.        *)
UnrestCase(n, S, U, state, od, ow, bk, qs) ==
  /\ n \in Nat /\ GoodBook(book, older, n) /\ Uncrossed(book)
  /\ Consistent(orders, owner, book)
  /\ \A i \in S : Live(i)
  /\ U \cap DOMAIN owner = S
  /\ state \in {"Canceled", "Expired"}
  /\ DOMAIN od = DOMAIN orders
  /\ \A i \in DOMAIN orders :
       od[i] = IF i \in S THEN [orders[i] EXCEPT !.state = state] ELSE orders[i]
  /\ ow = Without(owner, U)
  /\ bk = Without(book, U)
  /\ qs = OlderWithin(older, DOMAIN book \ U)

(* Orders that are closed and taken off the books and the bindings leave   *)
(* the three maps consistent.                                              *)
LEMMA UnrestConsistent ==
  ASSUME NEW n, NEW S, NEW U, NEW state, NEW od, NEW ow, NEW bk, NEW qs,
         UnrestCase(n, S, U, state, od, ow, bk, qs)
  PROVE  Consistent(od, ow, bk) /\ GoodBook(bk, qs, n) /\ Uncrossed(bk)
<1>. USE DEF UnrestCase
<1>1. /\ DOMAIN bk = DOMAIN book \ U
      /\ \A i \in DOMAIN bk : bk[i] = book[i]
      /\ DOMAIN ow = DOMAIN owner \ U
      /\ \A i \in DOMAIN ow : ow[i] = owner[i]
      /\ qs = older \cap ((DOMAIN book \ U) \X (DOMAIN book \ U))
  BY DEF Without, OlderWithin
<1>2. /\ \A i \in DOMAIN od \ S : od[i] = orders[i]
      /\ S \subseteq DOMAIN od
      /\ \A i \in S : od[i] = [orders[i] EXCEPT !.state = state]
  BY DEF Live
<1>3. GoodBook(bk, qs, n)
  BY <1>1 DEF GoodBook
<1>4. Uncrossed(bk)
  BY <1>1 DEF Uncrossed
<1>5. ASSUME NEW i \in S
      PROVE  GoodDetail(od[i]) /\ IsTerminal(od[i].state) /\ i \notin DOMAIN ow
  <2>1. GoodDetail(orders[i]) /\ ~IsTerminal(orders[i].state)
    BY DEF Consistent, Live
  <2>2. orders[i] \in OrderDetail /\ orders[i].open # 0
    BY <2>1 DEF GoodDetail, IsTerminal
  <2>3. /\ od[i] \in OrderDetail
        /\ od[i].state = state
        /\ od[i].open = orders[i].open
        /\ od[i].filled = orders[i].filled
        /\ od[i].quantity = orders[i].quantity
    BY <1>2, <2>2 DEF OrderDetail, OrderState
  <2>4. QED
    BY <1>1, <2>1, <2>2, <2>3 DEF GoodDetail, IsTerminal
<1>6. ASSUME NEW i \in DOMAIN od \ S
      PROVE  GoodDetail(od[i]) /\ (~IsTerminal(od[i].state) <=> i \in DOMAIN ow)
  <2>1. i \in DOMAIN orders /\ od[i] = orders[i]
    BY <1>2
  <2>2. i \in DOMAIN ow <=> i \in DOMAIN owner
    BY <1>1, <1>6
  <2>3. QED
    BY <2>1, <2>2 DEF Consistent
<1>7. DOMAIN ow = DOMAIN od \cap DOMAIN bk
  BY <1>1 DEF Consistent
<1>8. ASSUME NEW i \in DOMAIN ow
      PROVE  /\ ow[i] \in Gridpool /\ ow[i] = od[i].gridpool
             /\ bk[i] = Entry(od[i], od[i].open)
  <2>1. i \in DOMAIN owner /\ i \in DOMAIN od \ S /\ i \in DOMAIN bk
    BY <1>1, <1>7
  <2>2. QED
    BY <1>1, <1>2, <2>1 DEF Consistent
<1>9. QED
  BY <1>3, <1>4, <1>5, <1>6, <1>7, <1>8 DEF Consistent

-----------------------------------------------------------------------------
(* The inductive invariant: the types, the agreement of the three views,   *)
(* and the books in order.                                                 *)
LastId == next_order_id - 1

Scalars ==
  /\ now \in Time
  /\ suspended \in BOOLEAN
  /\ next_order_id \in 1 .. MaxOrders + 1
  /\ next_trade_id \in Nat
  /\ DOMAIN orders \subseteq 1 .. LastId
  /\ coupling_fills \in [Edge \X Period -> Nat]

IInv ==
  /\ Scalars
  /\ GoodBook(book, older, LastId)
  /\ Uncrossed(book)
  /\ Consistent(orders, owner, book)

(* The empty exchange satisfies the invariant. *)
LEMMA InvInit == Init => IInv
<1>. SUFFICES ASSUME Init PROVE IInv
  OBVIOUS
<1>1. DOMAIN Empty = {}
  BY DEF Empty
<1>2. Scalars
  <2>1. MaxOrders \in Nat /\ MaxTime \in Nat
    BY WorldAssumption
  <2>2. now \in Time /\ next_order_id \in 1 .. MaxOrders + 1
    BY <2>1 DEF Init, Time
  <2>3. coupling_fills \in [Edge \X Period -> Nat]
    BY DEF Init
  <2>4. suspended \in BOOLEAN /\ next_trade_id \in Nat
    BY DEF Init
  <2>5. DOMAIN orders \subseteq 1 .. LastId
    BY <1>1 DEF Init
  <2>6. QED
    BY <2>2, <2>3, <2>4, <2>5 DEF Scalars
<1>3. GoodBook(book, older, LastId) /\ Uncrossed(book)
  BY <1>1 DEF Init, GoodBook, Uncrossed
<1>4. Consistent(orders, owner, book)
  BY <1>1 DEF Init, Consistent
<1>5. QED
  BY <1>2, <1>3, <1>4 DEF IInv

(* The inductive invariant covers the invariants of the runs. *)
LEMMA InvImplies == IInv => TypeOK /\ BookMatchesOrders /\ OrdersBalance /\ NoCrossedBook
<1>. SUFFICES ASSUME IInv
              PROVE  TypeOK /\ BookMatchesOrders /\ OrdersBalance /\ NoCrossedBook
  OBVIOUS
<1>1. DOMAIN owner \subseteq DOMAIN book /\ DOMAIN owner \subseteq DOMAIN orders
  BY DEF IInv, Consistent
<1>2. \A i \in DOMAIN orders : orders[i] \in OrderDetail
  BY DEF IInv, Consistent, GoodDetail
<1>3. TypeOK
  BY <1>1, <1>2 DEF IInv, Scalars, GoodBook, Consistent, LastId, TypeOK
<1>4. BookMatchesOrders
  BY <1>1 DEF IInv, Consistent, BookMatchesOrders, LiveOrdersAreBound,
              BoundOrdersRest, EntriesMatchOrders, Live
<1>5. OrdersBalance
  BY DEF IInv, Consistent, GoodDetail, OrdersBalance
<1>6. NoCrossedBook
  BY DEF IInv, Uncrossed, NoCrossedBook
<1>7. QED
  BY <1>3, <1>4, <1>5, <1>6

-----------------------------------------------------------------------------
(* The steps. *)

(* Debiting the edges adds a number of lots to each. *)
LEMMA DebitType ==
  ASSUME coupling_fills \in [Edge \X Period -> Nat],
         NEW t, NEW fills, IsFiniteSet(DOMAIN fills), DebitCapacity(t, fills)
  PROVE  coupling_fills' \in [Edge \X Period -> Nat]
<1>. DEFINE L(x) == { l \in (DOMAIN fills) \X Quantity :
                        /\ x = <<{t.area, book[l[1]].area}, t.period>>
                        /\ l[2] <= fills[l[1]] }
<1>1. IsFiniteSet(Quantity)
  BY MatchingAssumption, FS_Interval DEF Quantity
<1>2. IsFiniteSet((DOMAIN fills) \X Quantity)
  BY <1>1, FS_Product
<1>3. ASSUME NEW x \in Edge \X Period
      PROVE  Cardinality(L(x)) \in Nat
  <2>1. L(x) \subseteq (DOMAIN fills) \X Quantity
    OBVIOUS
  <2>. HIDE DEF L
  <2>2. QED
    BY <1>2, <2>1, FS_Subset, FS_CardinalityType
<1>4. coupling_fills' = [ x \in Edge \X Period |-> coupling_fills[x] + Cardinality(L(x)) ]
  BY DEF DebitCapacity
<1>. HIDE DEF L
<1>5. QED
  BY <1>3, <1>4

(* What every admission does to the books and the counters. *)
LEMMA AdmitGood ==
  ASSUME IInv, NEW t, GoodTaker(t), t.quantity \in Quantity,
         NEW g, NEW areas, t.area \in areas, NEW at,
         next_order_id \in OrderId, AdmitAndMatch(g, t, areas, at)
  PROVE  LET fills == Sweep(book, older, t, areas)
             taken == Executed(book, t, areas)
             rest  == Leftover(book, t, areas)
         IN /\ GoodFills(book, t, areas, fills, taken)
            /\ SweptBook(book, next_order_id, next_order_id, t, fills, rest,
                         book', older')
            /\ rest \in 0 .. t.quantity
            /\ rest = IF t.mode = "Resting" THEN t.quantity - taken ELSE 0
            /\ next_order_id \notin DOMAIN book
            /\ next_order_id' = next_order_id + 1
            /\ next_order_id' \in 1 .. MaxOrders + 1
            /\ next_trade_id' \in Nat
            /\ coupling_fills' \in [Edge \X Period -> Nat]
<1>. DEFINE fills == Sweep(book, older, t, areas)
            taken == Executed(book, t, areas)
            rest  == Leftover(book, t, areas)
            left  == AfterFills(book, fills)
            n     == next_order_id
<1>1. /\ MaxQuantity \in Nat /\ t.quantity \in Nat
      /\ MaxOrders \in Nat /\ n \in Nat /\ n \in 1 .. MaxOrders
  BY MatchingAssumption, WorldAssumption DEF Quantity, OrderId
<1>2. GoodBook(book, older, n) /\ n \notin DOMAIN book
  <2>1. DOMAIN book \subseteq 1 .. n - 1
    BY DEF IInv, GoodBook, LastId
  <2>2. DOMAIN book \subseteq 1 .. n /\ n \notin DOMAIN book
    BY <1>1, <2>1
  <2>3. QED
    BY <2>2 DEF IInv, GoodBook
<1>3. GoodFills(book, t, areas, fills, taken)
  BY <1>1, <1>2, SweepIsGood
<1>4. taken \in 0 .. t.quantity /\ IsFiniteSet(DOMAIN fills)
  BY <1>3 DEF GoodFills
<1>5. rest = IF t.mode = "Resting" THEN t.quantity - taken ELSE 0
  BY DEF Leftover
<1>6. DOMAIN left \subseteq DOMAIN book
  BY DEF AfterFills
<1>7. /\ n' = n + 1
      /\ Rebook(book, older, n, t, fills, rest)
      /\ DebitCapacity(t, fills)
      /\ next_trade_id' = next_trade_id + Cardinality(DOMAIN fills)
  BY DEF AdmitAndMatch, RecordTrades
<1>. HIDE DEF fills, taken, rest, left
<1>8. /\ rest \in 0 .. t.quantity
      /\ rest > 0 => t.mode = "Resting" /\ taken < t.quantity
  BY <1>1, <1>4, <1>5
<1>9. SweptBook(book, n, n, t, fills, rest, book', older')
  <2>1. n \in Nat /\ n \in 1 .. n /\ Uncrossed(book)
    BY <1>1 DEF IInv
  <2>2. /\ book'  = BooksAfter(book, n, t, fills, rest)
        /\ older' = QueuesAfter(book, older, n, t, fills, rest)
    BY <1>7 DEF Rebook
  <2>3. SweepCase(book, older, n, t, areas, fills, taken, n, rest)
    BY <1>1, <1>2, <1>3, <1>8, <2>1 DEF SweepCase, Quantity
  <2>. HIDE DEF n
  <2>4. SweptBook(book, n, n, t, fills, rest,
                  BooksAfter(book, n, t, fills, rest),
                  QueuesAfter(book, older, n, t, fills, rest))
    BY <2>3, RebookGood
  <2>5. QED
    BY <2>2, <2>4
<1>10. /\ n' = n + 1 /\ n' \in 1 .. MaxOrders + 1
  BY <1>1, <1>7
<1>11. next_trade_id' \in Nat
  <2>1. Cardinality(DOMAIN fills) \in Nat /\ next_trade_id \in Nat
    BY <1>4, FS_CardinalityType DEF IInv, Scalars
  <2>2. QED
    BY <1>7, <2>1
<1>12. coupling_fills' \in [Edge \X Period -> Nat]
  BY <1>4, <1>7, DebitType DEF IInv, Scalars
<1>13. QED
  BY <1>2, <1>3, <1>5, <1>8, <1>9, <1>10, <1>11, <1>12 DEF fills, taken, rest

(* Admission never lands in the Failed row of the state table: each kind   *)
(* of order leaves the sweep in one of the combinations the table names.   *)
LEMMA AdmittedDetail ==
  ASSUME NEW mode \in Mode, NEW quantity \in Quantity,
         NEW filled \in 0 .. quantity, NEW rest,
         mode = "FillOrKill" => filled \in {0, quantity},
         rest = IF mode = "Resting" THEN quantity - filled ELSE 0
  PROVE  LET state == AdmitState(mode, rest > 0, filled, quantity)
         IN /\ state \in OrderState \ {"Failed"}
            /\ ~IsTerminal(state) <=> rest > 0
            /\ state = "Filled" <=> quantity - filled = 0
            /\ rest > 0 => rest = quantity - filled
<1>1. quantity \in Nat /\ quantity > 0 /\ filled \in Nat
  BY MatchingAssumption DEF Quantity
<1>2. CASE rest > 0
  BY <1>1, <1>2 DEF AdmitState, OrderState, IsTerminal
<1>3. CASE ~(rest > 0)
  <2>1. CASE mode = "Resting"
    BY <1>1, <1>3, <2>1 DEF AdmitState, OrderState, IsTerminal
  <2>2. CASE mode = "ImmediateOrCancel"
    BY <1>1, <1>3, <2>2 DEF AdmitState, OrderState, IsTerminal
  <2>3. CASE mode = "FillOrKill"
    BY <1>1, <1>3, <2>3 DEF AdmitState, OrderState, IsTerminal
  <2>4. QED
    BY <2>1, <2>2, <2>3 DEF Mode
<1>4. QED
  BY <1>2, <1>3

(* submit_order keeps the invariant. *)
LEMMA SubmitOrderInv ==
  ASSUME IInv, NEW g \in Gridpool, NEW o \in Requests, SubmitOrder(g, o)
  PROVE  IInv'
<1>. DEFINE t      == Taker(o, o.quantity, ExecMode(o.option))
            areas  == CandidateAreas(o.area, o.period, now)
            fills  == Sweep(book, older, t, areas)
            rest   == Leftover(book, t, areas)
            filled == Executed(book, t, areas)
            id     == next_order_id
            detail == [gridpool |-> g, area |-> o.area, period |-> o.period,
                       side |-> o.side, price |-> o.price,
                       quantity |-> o.quantity, option |-> o.option,
                       valid_until |-> o.valid_until,
                       state |-> AdmitState(t.mode, rest > 0, filled, o.quantity),
                       open |-> o.quantity - filled, filled |-> filled]
            od == MakersAfter(fills)
            ow == OwnersAfter(fills)
            left == AfterFills(book, fills)
<1>1. o \in Order
  BY WorldAssumption
<1>2. /\ o.area \in Area /\ o.period \in Period /\ o.side \in Side
      /\ o.price \in Price /\ o.quantity \in Quantity
      /\ o.option \in Option /\ o.valid_until \in Validity
  BY <1>1 DEF Order
<1>3. /\ t.area = o.area /\ t.period = o.period /\ t.side = o.side
      /\ t.price = o.price /\ t.quantity = o.quantity
      /\ t.mode = ExecMode(o.option)
  BY DEF Taker
<1>4. t.mode \in Mode
  BY <1>2, <1>3 DEF ExecMode, Mode, Option
<1>5. GoodTaker(t) /\ t.quantity \in Quantity /\ t.area \in areas
  BY <1>2, <1>3 DEF GoodTaker, CandidateAreas
<1>6. /\ id \in OrderId
      /\ AdmitAndMatch(g, t, areas, now)
      /\ orders' = [ i \in DOMAIN orders \cup {id} |->
                       IF i = id THEN detail ELSE od[i] ]
      /\ owner' = [ i \in DOMAIN ow \cup (IF rest > 0 THEN {id} ELSE {}) |->
                      IF i = id THEN g ELSE owner[i] ]
      /\ UNCHANGED <<now, suspended>>
  BY DEF SubmitOrder
<1>. HIDE DEF t, areas
<1>7. /\ GoodFills(book, t, areas, fills, filled)
      /\ SweptBook(book, id, id, t, fills, rest, book', older')
      /\ rest \in 0 .. t.quantity
      /\ rest = IF t.mode = "Resting" THEN t.quantity - filled ELSE 0
      /\ id \notin DOMAIN book
      /\ id' = id + 1 /\ id' \in 1 .. MaxOrders + 1
      /\ next_trade_id' \in Nat
      /\ coupling_fills' \in [Edge \X Period -> Nat]
  BY <1>5, <1>6, AdmitGood
<1>. HIDE DEF fills, rest, filled
<1>8. /\ DOMAIN fills \subseteq DOMAIN book
      /\ \A i \in DOMAIN fills : fills[i] \in 1 .. book[i].qty
      /\ filled \in 0 .. o.quantity
      /\ t.mode = "FillOrKill" => filled \in {0, o.quantity}
  BY <1>3, <1>7 DEF GoodFills
<1>9. /\ DOMAIN od = DOMAIN orders
      /\ Consistent(od, ow, left)
  BY <1>8, FillsConsistent DEF IInv
<1>10. /\ detail.state \in OrderState \ {"Failed"}
       /\ ~IsTerminal(detail.state) <=> rest > 0
       /\ detail.state = "Filled" <=> o.quantity - filled = 0
       /\ rest > 0 => rest = o.quantity - filled
  BY <1>2, <1>3, <1>4, <1>7, <1>8, AdmittedDetail
<1>11. GoodDetail(detail)
  <2>1. MaxQuantity \in Nat /\ o.quantity \in 1 .. MaxQuantity
    BY <1>2, MatchingAssumption DEF Quantity
  <2>2. /\ o.quantity - filled \in 0 .. MaxQuantity
        /\ filled \in 0 .. MaxQuantity
        /\ (o.quantity - filled) + filled = o.quantity
    BY <1>8, <2>1
  <2>3. detail \in OrderDetail
    BY <1>2, <1>10, <2>2 DEF OrderDetail
  <2>4. QED
    BY <1>10, <2>2, <2>3 DEF GoodDetail
<1>12. PutCase(od, ow, left, orders', owner', book', id, detail, rest > 0)
  <2>1. /\ id \in 1 .. MaxOrders
        /\ DOMAIN orders \subseteq 1 .. id - 1
    BY <1>6 DEF IInv, Scalars, LastId, OrderId
  <2>2. id \notin DOMAIN orders
    BY <2>1
  <2>3. id \notin DOMAIN od /\ id \notin DOMAIN ow /\ id \notin DOMAIN left
    BY <1>7, <1>9, <2>2 DEF Consistent, AfterFills
  <2>4. \A i \in DOMAIN ow : ow[i] = owner[i]
    BY DEF OwnersAfter
  <2>5. rest > 0 => Entry(detail, detail.open) = Entry(t, rest)
    BY <1>3, <1>10 DEF Entry
  <2>6. /\ DOMAIN book' = DOMAIN left \cup (IF rest > 0 THEN {id} ELSE {})
        /\ rest > 0 => book'[id] = Entry(t, rest)
        /\ \A i \in DOMAIN left : book'[i] = left[i]
    BY <1>7 DEF SweptBook
  <2>. HIDE DEF od, ow, left, id
  <2>7. /\ DOMAIN orders' = DOMAIN od \cup {id} /\ orders'[id] = detail
        /\ \A i \in DOMAIN od \ {id} : orders'[i] = od[i]
    BY <1>6, <1>9
  <2>8. /\ DOMAIN owner' = (DOMAIN ow \ {id}) \cup (IF rest > 0 THEN {id} ELSE {})
        /\ rest > 0 => owner'[id] = detail.gridpool
        /\ \A i \in DOMAIN ow \ {id} : owner'[i] = ow[i]
    BY <1>6, <2>3, <2>4
  <2>. HIDE DEF detail
  <2>9. QED
    BY <1>9, <1>10, <1>11, <2>3, <2>5, <2>6, <2>7, <2>8 DEF PutCase
<1>13. Consistent(orders', owner', book')
  BY <1>12, PutOrderConsistent
<1>14. GoodBook(book', older', LastId') /\ Uncrossed(book')
  <2>1. LastId' = id
    BY <1>6, <1>7 DEF LastId, OrderId
  <2>2. QED
    BY <1>7, <2>1 DEF SweptBook
<1>15. DOMAIN orders' \subseteq 1 .. LastId'
  <2>1. /\ id \in 1 .. MaxOrders /\ MaxOrders \in Nat
        /\ DOMAIN orders \subseteq 1 .. id - 1
    BY <1>6, WorldAssumption DEF IInv, Scalars, LastId, OrderId
  <2>2. LastId' = id
    BY <1>7, <2>1 DEF LastId
  <2>3. DOMAIN orders' = DOMAIN orders \cup {id}
    BY <1>6
  <2>. HIDE DEF id
  <2>4. QED
    BY <2>1, <2>2, <2>3
<1>16. Scalars'
  BY <1>6, <1>7, <1>15 DEF IInv, Scalars
<1>17. QED
  BY <1>13, <1>14, <1>16 DEF IInv

(* submit_counterparty_order keeps the invariant. *)
LEMMA SubmitCounterpartyOrderInv ==
  ASSUME IInv, NEW o \in CounterpartyRequests, NEW at \in Time,
         SubmitCounterpartyOrder(o, at)
  PROVE  IInv'
<1>. DEFINE t      == Taker(o, o.quantity, ExecMode(o.option))
            areas  == CandidateAreas(o.area, o.period, at)
            fills  == Sweep(book, older, t, areas)
            rest   == Leftover(book, t, areas)
            filled == Executed(book, t, areas)
            id     == next_order_id
            od == MakersAfter(fills)
            ow == OwnersAfter(fills)
            left == AfterFills(book, fills)
<1>1. o \in Order
  BY WorldAssumption
<1>2. GoodTaker(t) /\ t.quantity \in Quantity /\ t.area \in areas
  BY <1>1 DEF Order, Taker, GoodTaker, CandidateAreas
<1>3. /\ id \in OrderId
      /\ AdmitAndMatch(Counterparty, t, areas, at)
      /\ orders' = od /\ owner' = ow
      /\ UNCHANGED <<now, suspended>>
  BY DEF SubmitCounterpartyOrder
<1>. HIDE DEF t, areas
<1>4. /\ GoodFills(book, t, areas, fills, filled)
      /\ SweptBook(book, id, id, t, fills, rest, book', older')
      /\ id \notin DOMAIN book
      /\ id' = id + 1 /\ id' \in 1 .. MaxOrders + 1
      /\ next_trade_id' \in Nat
      /\ coupling_fills' \in [Edge \X Period -> Nat]
  BY <1>2, <1>3, AdmitGood
<1>. HIDE DEF fills, rest, filled
<1>5. /\ DOMAIN od = DOMAIN orders
      /\ Consistent(od, ow, left)
  <2>1. /\ DOMAIN fills \subseteq DOMAIN book
        /\ \A i \in DOMAIN fills : fills[i] \in 1 .. book[i].qty
    BY <1>4 DEF GoodFills
  <2>2. QED
    BY <2>1, FillsConsistent DEF IInv
<1>6. /\ id \in 1 .. MaxOrders /\ MaxOrders \in Nat
      /\ DOMAIN orders \subseteq 1 .. id - 1
      /\ LastId' = id
  BY <1>3, <1>4, WorldAssumption DEF IInv, Scalars, LastId, OrderId
<1>7. id \notin DOMAIN orders
  BY <1>6
<1>8. Consistent(orders', owner', book')
  <2>1. /\ DOMAIN book' \subseteq DOMAIN left \cup {id}
        /\ DOMAIN left \subseteq DOMAIN book'
        /\ \A i \in DOMAIN left : book'[i] = left[i]
    BY <1>4 DEF SweptBook
  <2>. HIDE DEF od, ow, left, id
  <2>2. Consistent(od, ow, book')
    BY <1>5, <1>7, <2>1 DEF Consistent
  <2>3. QED
    BY <1>3, <2>2
<1>9. GoodBook(book', older', LastId') /\ Uncrossed(book')
  BY <1>4, <1>6 DEF SweptBook
<1>10. DOMAIN orders' \subseteq 1 .. LastId'
  <2>1. DOMAIN orders' = DOMAIN orders
    BY <1>3, <1>5
  <2>. HIDE DEF id
  <2>2. QED
    BY <1>6, <2>1
<1>11. Scalars'
  BY <1>3, <1>4, <1>10 DEF IInv, Scalars
<1>12. QED
  BY <1>8, <1>9, <1>11 DEF IInv

(* Cancels and expiries: whatever they take off the books takes its        *)
(* binding and its open state with it.                                     *)
LEMMA UnrestInv ==
  ASSUME IInv, NEW S, NEW U, NEW state,
         UnrestCase(LastId, S, U, state, orders', owner', book', older'),
         UNCHANGED <<next_order_id, next_trade_id, coupling_fills, now, suspended>>
  PROVE  IInv'
<1>1. /\ Consistent(orders', owner', book') /\ GoodBook(book', older', LastId)
      /\ Uncrossed(book')
  BY UnrestConsistent
<1>2. DOMAIN orders' = DOMAIN orders
  BY DEF UnrestCase
<1>3. LastId' = LastId
  BY DEF LastId
<1>4. Scalars'
  BY <1>2, <1>3 DEF IInv, Scalars
<1>5. QED
  BY <1>1, <1>3, <1>4 DEF IInv

(* The last minted id is a number. *)
LEMMA LastIdNat == IInv => LastId \in Nat
<1>1. MaxOrders \in Nat
  BY WorldAssumption
<1>2. QED
  BY <1>1 DEF IInv, Scalars, LastId

(* Cancels keep the invariant, of one order or of a whole pool. *)
LEMMA CancelOrdersInv ==
  ASSUME IInv, NEW S, \A i \in S : Live(i), CancelOrders(S)
  PROVE  IInv'
<1>1. Bound(S) = S /\ S \subseteq DOMAIN owner
  BY DEF IInv, Consistent, Bound, Live
<1>2. /\ orders' = [ i \in DOMAIN orders |->
                       IF i \in S THEN [orders[i] EXCEPT !.state = "Canceled"]
                                  ELSE orders[i] ]
      /\ book' = Without(book, S)
      /\ older' = OlderWithin(older, DOMAIN book \ S)
      /\ owner' = Without(owner, S)
      /\ UNCHANGED <<next_order_id, next_trade_id, coupling_fills, now, suspended>>
  BY <1>1 DEF CancelOrders, Close, Unrest
<1>3. UnrestCase(LastId, S, S, "Canceled", orders', owner', book', older')
  BY <1>1, <1>2, LastIdNat DEF IInv, UnrestCase
<1>4. QED
  BY <1>2, <1>3, UnrestInv

(* Recalling an unbound order keeps the invariant. *)
LEMMA CancelCounterpartyOrderInv ==
  ASSUME IInv, NEW id, CancelCounterpartyOrder(id)
  PROVE  IInv'
<1>1. id \notin DOMAIN owner
  BY DEF IInv, Consistent, CancelCounterpartyOrder
<1>2. /\ orders' = orders
      /\ book' = Without(book, {id})
      /\ older' = OlderWithin(older, DOMAIN book \ {id})
      /\ owner' = Without(owner, {id})
      /\ UNCHANGED <<next_order_id, next_trade_id, coupling_fills, now, suspended>>
  BY DEF CancelCounterpartyOrder, Unrest
<1>3. UnrestCase(LastId, {}, {id}, "Canceled", orders', owner', book', older')
  BY <1>1, <1>2, LastIdNat DEF IInv, UnrestCase
<1>4. QED
  BY <1>2, <1>3, UnrestInv

(* The expiry sweep keeps the invariant. *)
LEMMA ExpireLapsedOrdersInv ==
  ASSUME IInv, ExpireLapsedOrders
  PROVE  IInv'
<1>. DEFINE S == { i \in DOMAIN orders : Live(i) /\ Lapsed(i) }
            orphan == { i \in DOMAIN book \ S :
                          GateClosed(book[i].period, now) /\ i \notin DOMAIN owner }
            U == Bound(S) \cup orphan
<1>1. Bound(S) = S
  BY DEF IInv, Consistent, Bound, Live
<1>2. /\ \A i \in S : Live(i)
      /\ U \cap DOMAIN owner = S
  BY <1>1 DEF IInv, Consistent, Live
<1>3. /\ orders' = [ i \in DOMAIN orders |->
                       IF i \in S THEN [orders[i] EXCEPT !.state = "Expired"]
                                  ELSE orders[i] ]
      /\ book' = Without(book, U)
      /\ older' = OlderWithin(older, DOMAIN book \ U)
      /\ owner' = Without(owner, U)
      /\ UNCHANGED <<next_order_id, next_trade_id, coupling_fills, now, suspended>>
  BY DEF ExpireLapsedOrders, Close, Unrest
<1>. HIDE DEF S, U
<1>4. UnrestCase(LastId, S, U, "Expired", orders', owner', book', older')
  BY <1>2, <1>3, LastIdNat DEF IInv, UnrestCase
<1>5. QED
  BY <1>3, <1>4, UnrestInv

(* modify_order keeps the invariant, its re-match included. *)
LEMMA ModifyOrderInv ==
  ASSUME IInv, NEW id \in OrderId, NEW upd \in Updates, ModifyOrder(id, upd)
  PROVE  IInv'
<1>. DEFINE d     == orders[id]
            b     == Without(book, {id})
            ol    == OlderWithin(older, DOMAIN b)
            open  == upd.quantity - d.filled
            valid == IF upd.valid_until = Never THEN d.valid_until
                                                ELSE upd.valid_until
            t     == Taker([d EXCEPT !.price = upd.price], open, "Resting")
            fills == IF open = 0 THEN Empty ELSE Sweep(b, ol, t, {d.area})
            taken == IF open = 0 THEN 0 ELSE Executed(b, t, {d.area})
            rest  == open - taken
            after == [d EXCEPT !.price = upd.price, !.quantity = upd.quantity,
                               !.valid_until = valid,
                               !.filled = @ + taken, !.open = rest,
                               !.state = IF rest = 0 THEN "Filled" ELSE "Active"]
            od == MakersAfter(fills)
            ow == OwnersAfter(fills)
            bk == AfterFills(book, fills)
            n  == LastId
<1>1. /\ Live(id) /\ id \in DOMAIN orders /\ GoodDetail(d)
      /\ id \in DOMAIN owner /\ id \in DOMAIN book
      /\ owner[id] = d.gridpool
  BY DEF IInv, Consistent, ModifyOrder, Live
<1>2. Bound({id}) = {id}
  BY <1>1 DEF Bound
<1>3. /\ upd.quantity >= d.filled
      /\ Rebook(b, ol, id, t, fills, rest)
      /\ RecordTrades(d.gridpool, id, t, fills, now)
      /\ orders' = [ i \in DOMAIN orders |-> IF i = id THEN after ELSE od[i] ]
      /\ owner' = [ i \in (DOMAIN ow \ {id})
                            \cup (IF rest > 0 THEN {id} ELSE {}) |->
                      IF i = id THEN d.gridpool ELSE owner[i] ]
      /\ UNCHANGED <<now, suspended, next_order_id, coupling_fills, shown>>
  BY <1>2 DEF ModifyOrder
<1>4. /\ upd.price \in Price /\ upd.quantity \in 1 .. MaxQuantity
      /\ upd.valid_until \in Validity /\ MaxQuantity \in Nat
  BY WorldAssumption, MatchingAssumption DEF OrderUpdate, Quantity
<1>5. /\ d \in OrderDetail /\ d.gridpool \in Gridpool
      /\ d.area \in Area /\ d.period \in Period /\ d.side \in Side
      /\ d.filled \in 0 .. MaxQuantity /\ d.valid_until \in Validity
  BY <1>1 DEF GoodDetail, OrderDetail
<1>6. open \in 0 .. MaxQuantity
  BY <1>3, <1>4, <1>5
<1>7. valid \in Validity
  BY <1>4, <1>5
<1>8. /\ t.area = d.area /\ t.period = d.period /\ t.side = d.side
      /\ t.price = upd.price /\ t.quantity = open /\ t.mode = "Resting"
  BY <1>5 DEF Taker, OrderDetail
<1>9. /\ DOMAIN b = DOMAIN book \ {id}
      /\ \A i \in DOMAIN b : b[i] = book[i]
      /\ ol \subseteq older /\ ol \subseteq (DOMAIN b) \X (DOMAIN b)
  BY DEF Without, OlderWithin
<1>10. n \in Nat /\ id \in 1 .. n
  BY <1>1, LastIdNat DEF IInv, Scalars
<1>. HIDE DEF t, b, ol, n, d
<1>11. GoodBook(b, ol, n) /\ Uncrossed(b)
  <2>1. GoodBook(book, older, n) /\ Uncrossed(book)
    BY DEF IInv, n
  <2>2. QED
    BY <1>9, <2>1 DEF GoodBook, Uncrossed
<1>12. GoodFills(b, t, {d.area}, fills, taken)
  <2>1. CASE open = 0
    <3>1. fills = Empty /\ taken = 0 /\ DOMAIN Empty = {}
      BY <2>1 DEF Empty
    <3>2. IsFiniteSet({})
      BY FS_EmptySet
    <3>. HIDE DEF fills, taken, open
    <3>3. QED
      BY <1>8, <2>1, <3>1, <3>2 DEF GoodFills
  <2>2. CASE open # 0
    <3>1. fills = Sweep(b, ol, t, {d.area}) /\ taken = Executed(b, t, {d.area})
      BY <2>2
    <3>2. t.quantity \in Nat
      BY <1>6, <1>8
    <3>. HIDE DEF fills, taken, open
    <3>3. QED
      BY <1>10, <1>11, <3>1, <3>2, SweepIsGood
  <2>3. QED
    BY <2>1, <2>2
<1>. HIDE DEF fills, taken, open, valid
<1>13. taken \in 0 .. open /\ rest \in 0 .. open /\ open = upd.quantity - d.filled
  BY <1>6, <1>8, <1>12 DEF GoodFills, open
<1>14. SweptBook(b, n, id, t, fills, rest, book', older')
  <2>1. GoodTaker(t) /\ t.area \in {d.area} /\ t.quantity \in 0 .. MaxQuantity
    BY <1>4, <1>5, <1>6, <1>8 DEF GoodTaker
  <2>2. rest > 0 => t.mode = "Resting" /\ taken < t.quantity
    BY <1>6, <1>8, <1>13
  <2>3. rest \in 0 .. t.quantity /\ id \notin DOMAIN b
    BY <1>8, <1>9, <1>13
  <2>. HIDE DEF rest
  <2>4. SweepCase(b, ol, n, t, {d.area}, fills, taken, id, rest)
    BY <1>10, <1>11, <1>12, <2>1, <2>2, <2>3 DEF SweepCase
  <2>5. SweptBook(b, n, id, t, fills, rest,
                  BooksAfter(b, id, t, fills, rest),
                  QueuesAfter(b, ol, id, t, fills, rest))
    BY <2>4, RebookGood
  <2>6. QED
    BY <1>3, <2>5 DEF Rebook
<1>15. /\ DOMAIN fills \subseteq DOMAIN book \ {id}
       /\ \A i \in DOMAIN fills : fills[i] \in 1 .. book[i].qty
  BY <1>9, <1>12 DEF GoodFills
<1>16. DOMAIN od = DOMAIN orders /\ Consistent(od, ow, bk)
  BY <1>15, FillsConsistent DEF IInv
<1>17. GoodDetail(after)
  <2>1. /\ d.filled + taken \in 0 .. MaxQuantity
        /\ rest \in 0 .. MaxQuantity
        /\ rest + (d.filled + taken) = upd.quantity
    BY <1>4, <1>5, <1>6, <1>13
  <2>. HIDE DEF rest
  <2>2. /\ after.filled = d.filled + taken /\ after.open = rest
        /\ after.quantity = upd.quantity
        /\ after.state = IF rest = 0 THEN "Filled" ELSE "Active"
    BY <1>5 DEF OrderDetail
  <2>3. after \in OrderDetail
    BY <1>4, <1>5, <1>7, <2>1 DEF OrderDetail, Quantity, OrderState
  <2>4. QED
    BY <2>1, <2>2, <2>3 DEF GoodDetail
<1>18. /\ ~IsTerminal(after.state) <=> rest > 0
       /\ after.gridpool = d.gridpool
       /\ rest > 0 => Entry(after, after.open) = Entry(t, rest)
  <2>1. rest \in Nat
    BY <1>6, <1>13
  <2>. HIDE DEF rest
  <2>2. /\ after.state = IF rest = 0 THEN "Filled" ELSE "Active"
        /\ after.gridpool = d.gridpool /\ after.open = rest
        /\ after.area = d.area /\ after.period = d.period
        /\ after.side = d.side /\ after.price = upd.price
    BY <1>5 DEF OrderDetail
  <2>3. QED
    BY <1>8, <2>1, <2>2 DEF IsTerminal, Entry
<1>. HIDE DEF after, rest
<1>19. PutCase(od, ow, bk, orders', owner', book', id, after, rest > 0)
  <2>1. \A i \in DOMAIN ow : ow[i] = owner[i]
    BY DEF OwnersAfter
  <2>2. /\ DOMAIN AfterFills(b, fills) = DOMAIN bk \ {id}
        /\ \A i \in DOMAIN bk \ {id} : AfterFills(b, fills)[i] = bk[i]
    BY <1>9, <1>15 DEF AfterFills, Consumed
  <2>3. /\ DOMAIN book' = DOMAIN AfterFills(b, fills)
                            \cup (IF rest > 0 THEN {id} ELSE {})
        /\ rest > 0 => book'[id] = Entry(t, rest)
        /\ \A i \in DOMAIN AfterFills(b, fills) :
             book'[i] = AfterFills(b, fills)[i]
    BY <1>14 DEF SweptBook
  <2>. HIDE DEF od, ow, bk
  <2>4. /\ DOMAIN orders' = DOMAIN od \cup {id} /\ orders'[id] = after
        /\ \A i \in DOMAIN od \ {id} : orders'[i] = od[i]
    BY <1>1, <1>3, <1>16
  <2>5. /\ DOMAIN owner' = (DOMAIN ow \ {id}) \cup (IF rest > 0 THEN {id} ELSE {})
        /\ rest > 0 => owner'[id] = after.gridpool
        /\ \A i \in DOMAIN ow \ {id} : owner'[i] = ow[i]
    BY <1>3, <1>18, <2>1
  <2>6. /\ DOMAIN book' = (DOMAIN bk \ {id}) \cup (IF rest > 0 THEN {id} ELSE {})
        /\ rest > 0 => book'[id] = Entry(after, after.open)
        /\ \A i \in DOMAIN bk \ {id} : book'[i] = bk[i]
    BY <1>18, <2>2, <2>3
  <2>7. QED
    BY <1>16, <1>17, <1>18, <2>4, <2>5, <2>6 DEF PutCase
<1>20. Consistent(orders', owner', book')
  BY <1>19, PutOrderConsistent
<1>21. LastId' = LastId
  BY <1>3 DEF LastId
<1>22. next_trade_id' \in Nat
  <2>1. next_trade_id' = next_trade_id + Cardinality(DOMAIN fills)
    BY <1>3 DEF RecordTrades
  <2>2. Cardinality(DOMAIN fills) \in Nat /\ next_trade_id \in Nat
    BY <1>12, FS_CardinalityType DEF GoodFills, IInv, Scalars
  <2>3. QED
    BY <2>1, <2>2
<1>23. Scalars'
  <2>1. DOMAIN orders' = DOMAIN orders
    BY <1>3
  <2>2. QED
    BY <1>3, <1>21, <1>22, <2>1 DEF IInv, Scalars
<1>24. QED
  BY <1>14, <1>20, <1>21, <1>23 DEF IInv, SweptBook, n

-----------------------------------------------------------------------------
(* Every step keeps the invariant. *)
LEMMA InvNext == IInv /\ [Next]_vars => IInv'
<1>. SUFFICES ASSUME IInv, [Next]_vars PROVE IInv'
  OBVIOUS
<1>1. ASSUME NEW g \in Gridpool, NEW o \in Requests, SubmitOrder(g, o)
      PROVE  IInv'
  BY <1>1, SubmitOrderInv
<1>2. ASSUME NEW o \in CounterpartyRequests, NEW at \in Time,
             SubmitCounterpartyOrder(o, at)
      PROVE  IInv'
  BY <1>2, SubmitCounterpartyOrderInv
<1>3. ASSUME NEW id \in OrderId, CancelOrder(id)
      PROVE  IInv'
  <2>1. CancelOrders({id}) /\ \A i \in {id} : Live(i)
    BY <1>3 DEF CancelOrder
  <2>2. QED
    BY <2>1, CancelOrdersInv
<1>4. ASSUME NEW id \in OrderId, CancelCounterpartyOrder(id)
      PROVE  IInv'
  BY <1>4, CancelCounterpartyOrderInv
<1>5. ASSUME NEW g \in Gridpool, CancelAllOrders(g)
      PROVE  IInv'
  <2>. DEFINE S == { i \in DOMAIN orders : Live(i) /\ orders[i].gridpool = g }
  <2>1. CancelOrders(S) /\ \A i \in S : Live(i)
    BY <1>5 DEF CancelAllOrders
  <2>. HIDE DEF S
  <2>2. QED
    BY <2>1, CancelOrdersInv
<1>6. ASSUME NEW id \in OrderId, NEW upd \in Updates, ModifyOrder(id, upd)
      PROVE  IInv'
  BY <1>6, ModifyOrderInv
<1>7. CASE ExpireLapsedOrders
  BY <1>7, ExpireLapsedOrdersInv
<1>8. CASE SetSuspended
  BY <1>8 DEF SetSuspended, IInv, Scalars, LastId
<1>9. CASE Tick
  <2>1. now' \in Time
    BY <1>9, WorldAssumption DEF Tick, IInv, Scalars, Time
  <2>2. QED
    BY <1>9, <2>1 DEF Tick, IInv, Scalars, LastId
<1>10. CASE UNCHANGED vars
  BY <1>10 DEF vars, IInv, Scalars, LastId
<1>11. QED
  BY <1>1, <1>2, <1>3, <1>4, <1>5, <1>6, <1>7, <1>8, <1>9, <1>10 DEF Next

(* The inductive invariant of the exchange. *)
THEOREM WorldInvariant == Spec => []IInv
<1>1. QED
  BY InvInit, InvNext, PTL DEF Spec

(* Every variable keeps its type: in particular no open or filled quantity *)
(* ever leaves 0 .. MaxQuantity and no empty entry rests on a book.        *)
THEOREM WorldTypeCorrect == Spec => []TypeOK
<1>1. QED
  BY WorldInvariant, InvImplies, PTL

(* The order map, the bindings and the books, which submit, fill, modify,  *)
(* cancel and expiry update separately, always agree.                      *)
THEOREM WorldBookMatchesOrders == Spec => []BookMatchesOrders
<1>1. QED
  BY WorldInvariant, InvImplies, PTL

(* Filled plus open is the quantity, Filled means nothing is open, and the *)
(* Failed row of the admission table is unreachable.                       *)
THEOREM WorldOrdersBalance == Spec => []OrdersBalance
<1>1. QED
  BY WorldInvariant, InvImplies, PTL

(* No handler leaves a bid and an ask on one book that should have traded. *)
THEOREM WorldNoCrossedBook == Spec => []NoCrossedBook
<1>1. QED
  BY WorldInvariant, InvImplies, PTL

-----------------------------------------------------------------------------
(* The history.  Every step is one of two kinds.  A deal sweeps the books  *)
(* for a taker (submit_order, submit_counterparty_order, modify_order); a  *)
(* quiet step makes no trade.  The two are described once, by what they    *)
(* change, and each property is then proved of the two kinds.              *)

(* The queues after a sweep and the rest of its taker are in order. *)
LEMMA RebookKeepsQueues ==
  ASSUME NEW b, NEW ol, NEW n \in Nat, GoodBook(b, ol, n), Queued(b, ol),
         NEW t, NEW areas, NEW fills, NEW taken,
         GoodFills(b, t, areas, fills, taken),
         NEW id, id \notin DOMAIN b, NEW rest
  PROVE  Queued(BooksAfter(b, id, t, fills, rest),
                QueuesAfter(b, ol, id, t, fills, rest))
<1>. DEFINE left == AfterFills(b, fills)
            oldl == OlderWithin(ol, DOMAIN left)
            e    == Entry(t, rest)
<1>1. /\ DOMAIN left = DOMAIN b \ Consumed(b, fills)
      /\ \A i \in DOMAIN left : SameLevel(left[i], b[i])
      /\ GoodBook(left, oldl, n)
  BY AfterFillsBook
<1>2. oldl = ol \cap ((DOMAIN left) \X (DOMAIN left))
  BY DEF OlderWithin
<1>. HIDE DEF left, oldl, e
<1>3. Queued(left, oldl)
  <2>1. \A i, j \in DOMAIN left : <<i, j>> \in oldl <=> <<i, j>> \in ol
    BY <1>2
  <2>2. \A i, j \in DOMAIN left :
          SameLevel(left[i], left[j]) <=> SameLevel(b[i], b[j])
    BY <1>1 DEF SameLevel
  <2>3. QED
    BY <1>1, <2>1, <2>2 DEF Queued
<1>4. CASE ~(rest > 0)
  BY <1>3, <1>4 DEF BooksAfter, QueuesAfter, left, oldl
<1>5. CASE rest > 0
  <2>. DEFINE bk == WithEntry(left, id, e)
              qs == OlderWith(left, oldl, id, e)
  <2>1. id \notin DOMAIN left
    BY <1>1
  <2>2. /\ DOMAIN bk = DOMAIN left \cup {id} /\ bk[id] = e
        /\ \A i \in DOMAIN left : bk[i] = left[i]
    BY <2>1 DEF WithEntry
  <2>3. \A i, j : <<i, j>> \in qs <=>
          \/ <<i, j>> \in oldl
          \/ j = id /\ i \in DOMAIN left /\ SameLevel(left[i], e)
    BY <2>1 DEF OlderWith
  <2>4. \A i, j : <<i, j>> \in oldl => i \in DOMAIN left /\ j \in DOMAIN left
    BY <1>2
  <2>. HIDE DEF bk, qs
  <2>5. ASSUME NEW i \in DOMAIN bk, NEW j \in DOMAIN bk, <<i, j>> \in qs
        PROVE  SameLevel(bk[i], bk[j])
    BY <1>3, <2>2, <2>3, <2>4, <2>5 DEF Queued
  <2>6. ASSUME NEW i \in DOMAIN bk, NEW j \in DOMAIN bk, i # j,
               SameLevel(bk[i], bk[j])
        PROVE  <<i, j>> \in qs \/ <<j, i>> \in qs
    <3>1. CASE i # id /\ j # id
      BY <1>3, <2>2, <2>3, <2>6, <3>1 DEF Queued
    <3>2. CASE i = id \/ j = id
      BY <2>2, <2>3, <2>6, <3>2 DEF SameLevel
    <3>3. QED
      BY <3>1, <3>2
  <2>7. ASSUME NEW i \in DOMAIN bk, NEW j \in DOMAIN bk, NEW k \in DOMAIN bk,
               <<i, j>> \in qs, <<j, k>> \in qs
        PROVE  <<i, k>> \in qs
    <3>1. <<i, j>> \in oldl
      BY <2>1, <2>3, <2>4, <2>7
    <3>2. CASE <<j, k>> \in oldl
      BY <1>3, <2>3, <2>4, <3>1, <3>2 DEF Queued
    <3>3. CASE k = id /\ SameLevel(left[j], e)
      <4>1. SameLevel(left[i], left[j])
        BY <1>3, <2>4, <3>1 DEF Queued
      <4>2. SameLevel(left[i], e)
        BY <3>3, <4>1 DEF SameLevel
      <4>3. QED
        BY <2>3, <2>4, <3>1, <3>3, <4>2
    <3>4. QED
      BY <2>3, <2>7, <3>2, <3>3
  <2>8. Queued(bk, qs)
    BY <2>5, <2>6, <2>7 DEF Queued
  <2>9. QED
    BY <1>5, <2>8 DEF BooksAfter, QueuesAfter, left, oldl, e, bk, qs
<1>6. QED
  BY <1>4, <1>5

(* Orders that leave the books leave the queues in order. *)
LEMMA WithoutKeepsQueues ==
  ASSUME NEW b, NEW ol, Queued(b, ol), NEW S
  PROVE  Queued(Without(b, S), OlderWithin(ol, DOMAIN b \ S))
<1>1. /\ DOMAIN Without(b, S) = DOMAIN b \ S
      /\ \A i \in DOMAIN b \ S : Without(b, S)[i] = b[i]
  BY DEF Without
<1>2. \A i, j \in DOMAIN b \ S :
        <<i, j>> \in OlderWithin(ol, DOMAIN b \ S) <=> <<i, j>> \in ol
  BY DEF OlderWithin
<1>3. QED
  BY <1>1, <1>2 DEF Queued

-----------------------------------------------------------------------------
(* The two kinds of steps. *)

(* The state a proof about a step starts from. *)
Sound == IInv /\ Queued(book, older)

(* An immediate order is over, and a fill-or-kill order is filled whole or *)
(* not at all.                                                             *)
Resolved(d) ==
  /\ d.option \in {"Fok", "Ioc"} => IsTerminal(d.state)
  /\ d.option = "Fok" => d.filled \in {0, d.quantity}

SameTerms(d, e) ==
  /\ d.gridpool = e.gridpool /\ d.area = e.area /\ d.period = e.period
  /\ d.side = e.side /\ d.option = e.option

(* The step is a modification; behaviours without one.                     *)
Modification == \E id \in OrderId, upd \in Updates : ModifyOrder(id, upd)
Unmodified   == [][~Modification]_vars

(* The taker, its time and the makers of a deal.  A gridpool's order is     *)
(* matched by the clock, a maker's quote perhaps by an older time.         *)
DealTerms(g, id, t, areas, fills, taken, at) ==
  /\ GoodTaker(t) /\ t.quantity \in 0 .. MaxQuantity
  /\ g \in Gridpool \cup {Counterparty}
  /\ at \in Time /\ at <= now
  /\ g \in Gridpool => at = now
  /\ t.area \in areas /\ areas \subseteq CandidateAreas(t.area, t.period, at)
  /\ GateClosed(t.period, at) =>
       areas = {t.area} /\ Modification /\ Live(id) /\ orders[id].period = t.period
  /\ id \in DOMAIN book => areas = {t.area} /\ t.area = book[id].area
                          /\ t.period = book[id].period /\ t.side = book[id].side
  /\ DOMAIN fills \subseteq Makers(book, t, areas) \ {id}
  /\ IsFiniteSet(DOMAIN fills)
  /\ \A i \in DOMAIN fills : fills[i] \in 1 .. book[i].qty
  /\ Total(fills) = taken /\ taken \in 0 .. t.quantity
  /\ \A i \in Makers(book, t, areas) \ {id}, j \in DOMAIN fills :
       Precedes(book, older, t, i, j) => i \in Consumed(book, fills)

(* What is recorded of it, and what becomes of the makers and their books. *)
DealEffects(g, id, t, fills, at) ==
  /\ RecordTrades(g, id, t, fills, at)
  /\ DebitCapacity(t, fills)
  /\ DOMAIN book' \subseteq DOMAIN book \cup {id}
  /\ \A i \in DOMAIN book \ {id} :
       /\ i \in DOMAIN book' <=> i \notin Consumed(book, fills)
       /\ i \in DOMAIN book' => book'[i] = AfterFills(book, fills)[i]
  /\ UNCHANGED <<now, suspended>>

(* What becomes of the orders: the makers' accounts, and the taker's own   *)
(* order when it is a gridpool's.                                          *)
DealOrders(g, id, fills, taken) ==
  /\ DOMAIN orders' = DOMAIN orders \cup (IF g \in Gridpool THEN {id} ELSE {})
  /\ \A i \in DOMAIN orders \ {id} : orders'[i] = MakersAfter(fills)[i]
  /\ id \in DOMAIN orders =>
       /\ g \in Gridpool /\ Live(id) /\ SameTerms(orders'[id], orders[id])
       /\ orders'[id].filled = orders[id].filled + taken
       /\ next_order_id' = next_order_id
  /\ id \notin DOMAIN orders =>
       /\ id = next_order_id /\ next_order_id' = id + 1
       /\ g \in Gridpool => orders'[id].filled = taken /\ Resolved(orders'[id])
  /\ g \in Gridpool => orders'[id].gridpool = g

(* What a submission sees to besides: it sweeps the books of every open    *)
(* area, leaves no order it crosses there when it rests, and does not      *)
(* trade with its own pool if the pool's policy forbids it.                *)
DealCare(g, id, t, areas, fills, at) ==
  /\ areas = CandidateAreas(t.area, t.period, at)
  /\ id \notin DOMAIN book
  /\ id \in DOMAIN book' =>
       /\ SameLevel(book'[id], t)
       /\ Consumed(book, fills) = Makers(book, t, areas)
  /\ g \in Gridpool /\ SelfTradePolicy[g] = "Reject" =>
       \A i \in DOMAIN fills \cap DOMAIN owner : owner[i] # g

Deal(g, id, t, areas, fills, taken, at) ==
  /\ DealTerms(g, id, t, areas, fills, taken, at)
  /\ DealEffects(g, id, t, fills, at)
  /\ DealOrders(g, id, fills, taken)
  /\ g \in Gridpool => orders'[id].period = t.period
  /\ Modification \/ DealCare(g, id, t, areas, fills, at)

(* A step without a trade: orders may be closed and leave the books.       *)
Quiet ==
  /\ UNCHANGED <<tape, trades, next_trade_id, coupling_fills, next_order_id>>
  /\ now' >= now
  /\ DOMAIN book' \subseteq DOMAIN book
  /\ \A i \in DOMAIN book' : book'[i] = book[i]
  /\ DOMAIN orders' = DOMAIN orders
  /\ \A i \in DOMAIN orders :
       \/ orders'[i] = orders[i]
       \/ /\ Live(i)
          /\ \E s \in {"Canceled", "Expired"} :
               orders'[i] = [orders[i] EXCEPT !.state = s]

(* A sound state's books can be swept in order. *)
LEMMA SoundIsOrderly ==
  ASSUME Sound, NEW t, t.area \in Area
  PROVE  Orderly(book, older, t)
<1>1. WellFormed(book, older)
  BY GoodIsWellFormed, LastIdNat DEF Sound, IInv
<1>2. QED
  BY <1>1 DEF Sound, Orderly

(* What an admission does is a deal, whoever the taker is. *)
LEMMA AdmissionIsDeal ==
  ASSUME Sound, NEW t, GoodTaker(t), t.quantity \in Quantity,
         NEW g \in Gridpool \cup {Counterparty}, NEW areas,
         NEW at \in Time, at <= now, g \in Gridpool => at = now,
         areas = CandidateAreas(t.area, t.period, at),
         next_order_id \in OrderId, AdmitAndMatch(g, t, areas, at),
         ~GateClosed(t.period, at), UNCHANGED <<now, suspended>>,
         g \in Gridpool /\ SelfTradePolicy[g] = "Reject" =>
           \A i \in Reached(book, older, t, areas) \cap DOMAIN owner : owner[i] # g
  PROVE  LET fills == Sweep(book, older, t, areas)
             taken == Executed(book, t, areas)
         IN /\ DealTerms(g, next_order_id, t, areas, fills, taken, at)
            /\ DealEffects(g, next_order_id, t, fills, at)
            /\ DealCare(g, next_order_id, t, areas, fills, at)
            /\ Queued(book', older')
            /\ next_order_id \notin DOMAIN book
            /\ next_order_id \notin DOMAIN orders
            /\ next_order_id' = next_order_id + 1
<1>. DEFINE fills == Sweep(book, older, t, areas)
            taken == Executed(book, t, areas)
            rest  == Leftover(book, t, areas)
            id    == next_order_id
<1>1. t.area \in areas /\ t.area \in Area /\ t.quantity \in Nat
      /\ t.quantity \in 0 .. MaxQuantity
  BY MatchingAssumption DEF CandidateAreas, GoodTaker, Quantity
<1>2. /\ GoodFills(book, t, areas, fills, taken)
      /\ SweptBook(book, id, id, t, fills, rest, book', older')
      /\ id \notin DOMAIN book /\ id' = id + 1
      /\ rest = IF t.mode = "Resting" THEN t.quantity - taken ELSE 0
  BY <1>1, AdmitGood DEF Sound
<1>3. Orderly(book, older, t)
  BY <1>1, SoundIsOrderly
<1>4. id \notin DOMAIN orders
  <2>1. id \in Nat /\ DOMAIN orders \subseteq 1 .. id - 1
    BY WorldAssumption DEF Sound, IInv, Scalars, LastId, OrderId
  <2>2. QED
    BY <2>1
<1>5. DOMAIN fills \subseteq Makers(book, t, areas) \ {id}
  <2>1. Makers(book, t, areas) \subseteq DOMAIN book
    BY DEF Makers
  <2>2. DOMAIN fills \subseteq Makers(book, t, areas)
    BY <1>1, <1>3, SweepFills DEF Orderly
  <2>3. QED
    BY <1>2, <2>1, <2>2
<1>6. Total(fills) = taken
  BY <1>1, <1>3, SweepTotals
<1>7. \A i \in Makers(book, t, areas) \ {id}, j \in DOMAIN fills :
        Precedes(book, older, t, i, j) => i \in Consumed(book, fills)
  BY <1>1, <1>3, SweepKeepsPriority
<1>8. /\ RecordTrades(g, id, t, fills, at) /\ DebitCapacity(t, fills)
      /\ Rebook(book, older, id, t, fills, rest)
  BY DEF AdmitAndMatch
<1>9. DealTerms(g, id, t, areas, fills, taken, at)
  <2>. HIDE DEF fills, taken
  <2>. QED
    BY <1>1, <1>2, <1>5, <1>6, <1>7 DEF DealTerms, GoodFills
<1>10. DealEffects(g, id, t, fills, at)
  <2>1. DOMAIN AfterFills(book, fills) = DOMAIN book \ Consumed(book, fills)
    BY DEF AfterFills
  <2>2. /\ DOMAIN book' = DOMAIN AfterFills(book, fills)
                            \cup (IF rest > 0 THEN {id} ELSE {})
        /\ \A i \in DOMAIN AfterFills(book, fills) :
             book'[i] = AfterFills(book, fills)[i]
    BY <1>2 DEF SweptBook
  <2>. HIDE DEF fills, rest
  <2>3. QED
    BY <1>2, <1>8, <2>1, <2>2 DEF DealEffects
<1>11. Queued(book', older')
  <2>1. GoodBook(book, older, LastId) /\ LastId \in Nat /\ Queued(book, older)
    BY LastIdNat DEF Sound, IInv
  <2>. HIDE DEF fills, taken, rest, id
  <2>2. Queued(BooksAfter(book, id, t, fills, rest),
               QueuesAfter(book, older, id, t, fills, rest))
    BY <1>2, <2>1, RebookKeepsQueues
  <2>3. QED
    BY <1>8, <2>2 DEF Rebook
<1>12. DealCare(g, id, t, areas, fills, at)
  <2>1. DOMAIN fills \subseteq Reached(book, older, t, areas)
    BY DEF Sweep
  <2>2. ASSUME id \in DOMAIN book'
        PROVE  /\ SameLevel(book'[id], t)
               /\ Consumed(book, fills) = Makers(book, t, areas)
    <3>1. DOMAIN AfterFills(book, fills) \subseteq DOMAIN book
      BY DEF AfterFills
    <3>2. rest > 0 /\ book'[id] = Entry(t, rest)
      BY <1>2, <2>2, <3>1 DEF SweptBook
    <3>3. SameLevel(book'[id], t)
      BY <3>2 DEF Entry, SameLevel
    <3>. HIDE DEF fills, taken, rest, id
    <3>4. t.mode = "Resting" /\ taken < t.quantity
      BY <1>1, <1>2, <3>2 DEF GoodFills
    <3>5. QED
      BY <1>2, <3>3, <3>4 DEF GoodFills
  <2>. HIDE DEF fills
  <2>3. QED
    BY <1>2, <2>1, <2>2 DEF DealCare
<1>13. QED
  BY <1>2, <1>4, <1>9, <1>10, <1>11, <1>12

(* submit_order is a deal, and the new order is resolved if immediate. *)
LEMMA SubmitIsDeal ==
  ASSUME Sound, NEW g \in Gridpool, NEW o \in Requests, SubmitOrder(g, o)
  PROVE  LET t     == Taker(o, o.quantity, ExecMode(o.option))
             areas == CandidateAreas(o.area, o.period, now)
             fills == Sweep(book, older, t, areas)
             taken == Executed(book, t, areas)
         IN /\ Deal(g, next_order_id, t, areas, fills, taken, now)
            /\ Queued(book', older')
<1>. DEFINE t     == Taker(o, o.quantity, ExecMode(o.option))
            areas == CandidateAreas(o.area, o.period, now)
            fills == Sweep(book, older, t, areas)
            taken == Executed(book, t, areas)
            rest  == Leftover(book, t, areas)
            id    == next_order_id
            detail == [gridpool |-> g, area |-> o.area, period |-> o.period,
                       side |-> o.side, price |-> o.price,
                       quantity |-> o.quantity, option |-> o.option,
                       valid_until |-> o.valid_until,
                       state |-> AdmitState(t.mode, rest > 0, taken, o.quantity),
                       open |-> o.quantity - taken, filled |-> taken]
<1>1. o \in Order
  BY WorldAssumption
<1>2. /\ o.area \in Area /\ o.period \in Period /\ o.side \in Side
      /\ o.price \in Price /\ o.quantity \in Quantity /\ o.option \in Option
  BY <1>1 DEF Order
<1>3. /\ t.area = o.area /\ t.period = o.period /\ t.side = o.side
      /\ t.price = o.price /\ t.quantity = o.quantity
      /\ t.mode = ExecMode(o.option)
  BY DEF Taker
<1>4. /\ id \in OrderId /\ AdmitAndMatch(g, t, areas, now)
      /\ ~GateClosed(o.period, now)
      /\ orders' = [ i \in DOMAIN orders \cup {id} |->
                       IF i = id THEN detail ELSE MakersAfter(fills)[i] ]
      /\ UNCHANGED <<now, suspended>>
  BY DEF SubmitOrder, ValidateCommon
<1>5. GoodTaker(t) /\ areas = CandidateAreas(t.area, t.period, now)
  BY <1>2, <1>3 DEF GoodTaker
<1>6. t.mode \in Mode
  BY <1>2, <1>3 DEF ExecMode, Mode, Option
<1>. HIDE DEF t, areas
<1>7. SelfTradePolicy[g] = "Reject" =>
         \A i \in Reached(book, older, t, areas) \cap DOMAIN owner : owner[i] # g
  BY DEF SubmitOrder, WouldSelfTrade, t, areas
<1>8. /\ DealTerms(g, id, t, areas, fills, taken, now)
      /\ DealEffects(g, id, t, fills, now)
      /\ DealCare(g, id, t, areas, fills, now)
      /\ Queued(book', older')
      /\ id \notin DOMAIN orders /\ id' = id + 1
  <2>1. now \in Time /\ now <= now
    BY WorldAssumption DEF Sound, IInv, Scalars, Time
  <2>2. QED
    BY <1>2, <1>3, <1>4, <1>5, <1>7, <2>1, AdmissionIsDeal
<1>9. Resolved(detail)
  <2>1. GoodBook(book, older, LastId) /\ LastId \in Nat
    BY LastIdNat DEF Sound, IInv
  <2>2. t.quantity \in Nat
    BY <1>2, <1>3, MatchingAssumption DEF Quantity
  <2>3. GoodFills(book, t, areas, fills, taken)
    BY <2>1, <2>2, SweepIsGood
  <2>4. /\ taken \in 0 .. o.quantity
        /\ t.mode = "FillOrKill" => taken \in {0, o.quantity}
    BY <1>3, <2>3 DEF GoodFills
  <2>5. rest = IF t.mode = "Resting" THEN o.quantity - taken ELSE 0
    BY <1>3 DEF Leftover
  <2>6. /\ o.option \in {"Fok", "Ioc"} => t.mode # "Resting"
        /\ o.option = "Fok" => t.mode = "FillOrKill"
    BY <1>3 DEF ExecMode
  <2>. HIDE DEF taken, rest
  <2>7. ~IsTerminal(AdmitState(t.mode, rest > 0, taken, o.quantity)) <=> rest > 0
    BY <1>2, <1>6, <2>4, <2>5, AdmittedDetail
  <2>8. QED
    BY <2>4, <2>5, <2>6, <2>7 DEF Resolved
<1>10. DealOrders(g, id, fills, taken)
  <2>1. detail.filled = taken /\ detail.gridpool = g
    OBVIOUS
  <2>. HIDE DEF detail, fills, taken
  <2>2. QED
    BY <1>4, <1>8, <1>9, <2>1 DEF DealOrders
<1>11. orders'[id].period = t.period
  BY <1>3, <1>4
<1>12. QED
  BY <1>8, <1>10, <1>11 DEF Deal, t, areas

(* submit_counterparty_order is a deal whose taker belongs to no gridpool. *)
LEMMA CounterpartyIsDeal ==
  ASSUME Sound, NEW o \in CounterpartyRequests, NEW at \in Time,
         SubmitCounterpartyOrder(o, at)
  PROVE  LET t     == Taker(o, o.quantity, ExecMode(o.option))
             areas == CandidateAreas(o.area, o.period, at)
             fills == Sweep(book, older, t, areas)
             taken == Executed(book, t, areas)
         IN /\ Deal(Counterparty, next_order_id, t, areas, fills, taken, at)
            /\ Queued(book', older')
<1>. DEFINE t     == Taker(o, o.quantity, ExecMode(o.option))
            areas == CandidateAreas(o.area, o.period, at)
            fills == Sweep(book, older, t, areas)
            taken == Executed(book, t, areas)
            id    == next_order_id
<1>1. o \in Order
  BY WorldAssumption
<1>2. /\ o.area \in Area /\ o.period \in Period /\ o.side \in Side
      /\ o.price \in Price /\ o.quantity \in Quantity
  BY <1>1 DEF Order
<1>3. /\ t.area = o.area /\ t.period = o.period /\ t.side = o.side
      /\ t.price = o.price /\ t.quantity = o.quantity
  BY DEF Taker
<1>4. /\ id \in OrderId /\ AdmitAndMatch(Counterparty, t, areas, at)
      /\ ~GateClosed(o.period, at) /\ at <= now
      /\ orders' = MakersAfter(fills)
      /\ UNCHANGED <<now, suspended>>
  BY DEF SubmitCounterpartyOrder, ValidateCommon
<1>5. GoodTaker(t) /\ areas = CandidateAreas(t.area, t.period, at)
  BY <1>2, <1>3 DEF GoodTaker
<1>. HIDE DEF t, areas
<1>6. Counterparty \notin Gridpool
  BY WorldAssumption
<1>7. /\ DealTerms(Counterparty, id, t, areas, fills, taken, at)
      /\ DealEffects(Counterparty, id, t, fills, at)
      /\ DealCare(Counterparty, id, t, areas, fills, at)
      /\ Queued(book', older')
      /\ id \notin DOMAIN orders /\ id' = id + 1
  BY <1>2, <1>3, <1>4, <1>5, <1>6, AdmissionIsDeal
<1>8. DealOrders(Counterparty, id, fills, taken)
  <2>1. DOMAIN MakersAfter(fills) = DOMAIN orders
    BY DEF MakersAfter
  <2>. HIDE DEF fills, taken
  <2>2. QED
    BY <1>4, <1>6, <1>7, <2>1 DEF DealOrders
<1>9. QED
  BY <1>6, <1>7, <1>8 DEF Deal, t, areas

(* Debiting does nothing for trades within one area: no coupling joins an  *)
(* area to itself.                                                         *)
LEMMA NoDebitAtHome ==
  ASSUME coupling_fills \in [Edge \X Period -> Nat],
         NEW t, NEW fills, \A i \in DOMAIN fills : book[i].area = t.area,
         UNCHANGED coupling_fills
  PROVE  DebitCapacity(t, fills)
<1>. DEFINE L(x) == { l \in (DOMAIN fills) \X Quantity :
                        /\ x = <<{t.area, book[l[1]].area}, t.period>>
                        /\ l[2] <= fills[l[1]] }
<1>1. ASSUME NEW x \in Edge \X Period
      PROVE  Cardinality(L(x)) = 0
  <2>1. x[1] # {t.area}
    <3>1. x[1] \in Edge
      OBVIOUS
    <3>2. PICK a \in Area, c \in Area : a # c /\ x[1] = {a, c}
      BY <3>1, WorldAssumption
    <3>3. QED
      BY <3>2
  <2>2. ASSUME NEW l \in L(x)
        PROVE  FALSE
    <3>1. l[1] \in DOMAIN fills /\ x = <<{t.area, book[l[1]].area}, t.period>>
      OBVIOUS
    <3>2. x[1] = {t.area, t.area}
      BY <3>1
    <3>3. QED
      BY <2>1, <3>2
  <2>3. L(x) = {}
    <3>. HIDE DEF L
    <3>. QED  BY <2>2
  <2>4. QED
    BY <2>3, FS_EmptySet
<1>2. coupling_fills
        = [ x \in Edge \X Period |-> coupling_fills[x] + Cardinality(L(x)) ]
  <2>. HIDE DEF L
  <2>. QED  BY <1>1
<1>3. QED
  BY <1>2 DEF DebitCapacity

(* A modification is a deal too: the order leaves its book and is the      *)
(* taker of a sweep of its own area's book.                                *)
LEMMA ModifyIsDeal ==
  ASSUME Sound, NEW id \in OrderId, NEW upd \in Updates, ModifyOrder(id, upd)
  PROVE  /\ \E g, t, areas, fills, taken, at :
              Deal(g, id, t, areas, fills, taken, at)
         /\ Queued(book', older')
<1>. DEFINE d     == orders[id]
            b     == Without(book, {id})
            ol    == OlderWithin(older, DOMAIN b)
            open  == upd.quantity - d.filled
            valid == IF upd.valid_until = Never THEN d.valid_until
                                                ELSE upd.valid_until
            t     == Taker([d EXCEPT !.price = upd.price], open, "Resting")
            areas == {d.area}
            fills == IF open = 0 THEN Empty ELSE Sweep(b, ol, t, areas)
            taken == IF open = 0 THEN 0 ELSE Executed(b, t, areas)
            rest  == open - taken
            after == [d EXCEPT !.price = upd.price, !.quantity = upd.quantity,
                               !.valid_until = valid,
                               !.filled = @ + taken, !.open = rest,
                               !.state = IF rest = 0 THEN "Filled" ELSE "Active"]
            n     == LastId
<1>1. /\ Live(id) /\ id \in DOMAIN orders /\ GoodDetail(d)
      /\ id \in DOMAIN owner /\ id \in DOMAIN book
      /\ owner[id] = d.gridpool
  BY DEF Sound, IInv, Consistent, ModifyOrder, Live
<1>2. Bound({id}) = {id}
  BY <1>1 DEF Bound
<1>3. /\ upd.quantity >= d.filled
      /\ Rebook(b, ol, id, t, fills, rest)
      /\ RecordTrades(d.gridpool, id, t, fills, now)
      /\ orders' = [ i \in DOMAIN orders |->
                       IF i = id THEN after ELSE MakersAfter(fills)[i] ]
      /\ UNCHANGED <<now, suspended, next_order_id, coupling_fills>>
  BY <1>2 DEF ModifyOrder
<1>4. /\ upd.price \in Price /\ upd.quantity \in 1 .. MaxQuantity
      /\ MaxQuantity \in Nat
  BY WorldAssumption, MatchingAssumption DEF OrderUpdate, Quantity
<1>5. /\ d \in OrderDetail /\ d.gridpool \in Gridpool
      /\ d.area \in Area /\ d.period \in Period /\ d.side \in Side
      /\ d.filled \in 0 .. MaxQuantity
  BY <1>1 DEF GoodDetail, OrderDetail
<1>6. open \in 0 .. MaxQuantity
  BY <1>3, <1>4, <1>5
<1>7. /\ t.area = d.area /\ t.period = d.period /\ t.side = d.side
      /\ t.price = upd.price /\ t.quantity = open /\ t.mode = "Resting"
  BY <1>5 DEF Taker, OrderDetail
<1>8. /\ DOMAIN b = DOMAIN book \ {id}
      /\ \A i \in DOMAIN b : b[i] = book[i]
      /\ ol = OlderWithin(older, DOMAIN book \ {id})
      /\ ol = older \cap ((DOMAIN b) \X (DOMAIN b))
  BY DEF Without, OlderWithin
<1>9. Queued(b, ol)
  BY <1>8, WithoutKeepsQueues DEF Sound
<1>10. /\ orders'[id] = after
       /\ DOMAIN orders' = DOMAIN orders
       /\ \A i \in DOMAIN orders \ {id} : orders'[i] = MakersAfter(fills)[i]
  BY <1>1, <1>3
<1>11. /\ after.filled = d.filled + taken
       /\ SameTerms(after, d)
  <2>. HIDE DEF taken, rest, valid
  <2>. QED  BY <1>5 DEF OrderDetail, SameTerms
<1>. HIDE DEF t, b, ol, n, after
<1>12. n \in Nat /\ GoodBook(b, ol, n)
  <2>1. GoodBook(book, older, n) /\ n \in Nat
    BY LastIdNat DEF Sound, IInv, n
  <2>2. QED
    BY <1>8, <2>1 DEF GoodBook
<1>13. WellFormed(b, ol) /\ Orderly(b, ol, t)
  BY <1>5, <1>7, <1>9, <1>12, GoodIsWellFormed DEF Orderly
<1>14. /\ GoodFills(b, t, areas, fills, taken)
       /\ DOMAIN fills \subseteq Makers(b, t, areas)
       /\ Total(fills) = taken
       /\ \A i \in Makers(b, t, areas), j \in DOMAIN fills :
            Precedes(b, ol, t, i, j) => i \in Consumed(b, fills)
  <2>1. CASE open = 0
    <3>1. fills = Empty /\ taken = 0 /\ DOMAIN Empty = {}
      BY <2>1 DEF Empty
    <3>2. IsFiniteSet({})
      BY FS_EmptySet
    <3>3. Total(fills) = 0
      BY <3>1, DepthOfNone DEF Total
    <3>. HIDE DEF fills, taken, open, areas
    <3>4. QED
      BY <1>7, <2>1, <3>1, <3>2, <3>3 DEF GoodFills
  <2>2. CASE open # 0
    <3>1. fills = Sweep(b, ol, t, areas) /\ taken = Executed(b, t, areas)
      BY <2>2
    <3>2. t.quantity \in Nat
      BY <1>6, <1>7
    <3>. HIDE DEF fills, taken, open, areas
    <3>3. GoodFills(b, t, areas, fills, taken)
      BY <1>12, <3>1, <3>2, SweepIsGood
    <3>4. DOMAIN fills \subseteq Makers(b, t, areas)
      BY <1>13, <3>1, <3>2, SweepFills
    <3>5. Total(fills) = taken
      BY <1>13, <3>1, <3>2, SweepTotals
    <3>6. \A i \in Makers(b, t, areas), j \in DOMAIN fills :
            Precedes(b, ol, t, i, j) => i \in Consumed(b, fills)
      BY <1>13, <3>1, <3>2, SweepKeepsPriority
    <3>7. QED
      BY <3>3, <3>4, <3>5, <3>6
  <2>3. QED
    BY <2>1, <2>2
<1>. HIDE DEF fills, taken, open, valid, d
<1>15. Makers(b, t, areas) = Makers(book, t, areas) \ {id}
  BY <1>8 DEF Makers
<1>16. DOMAIN fills \subseteq DOMAIN b /\ Consumed(b, fills) = Consumed(book, fills)
  BY <1>8, <1>14 DEF Consumed, GoodFills
<1>17. \A i, j \in DOMAIN b :
         Precedes(b, ol, t, i, j) <=> Precedes(book, older, t, i, j)
  BY <1>8 DEF Precedes
<1>18. Makers(b, t, areas) \subseteq DOMAIN b
  BY DEF Makers
<1>19. DealTerms(d.gridpool, id, t, areas, fills, taken, now)
  <2>1. GoodTaker(t) /\ t.area \in areas /\ t.quantity \in 0 .. MaxQuantity
    BY <1>4, <1>5, <1>6, <1>7 DEF GoodTaker
  <2>2. areas \subseteq CandidateAreas(t.area, t.period, now)
    BY <1>7 DEF CandidateAreas
  <2>3. /\ areas = {t.area} /\ Modification
        /\ Live(id) /\ orders[id].period = t.period
    BY <1>1, <1>7 DEF Modification, d
  <2>8. now \in Time /\ now <= now
    BY WorldAssumption DEF Sound, IInv, Scalars, Time
  <2>4. \A i \in Makers(book, t, areas) \ {id}, j \in DOMAIN fills :
          Precedes(book, older, t, i, j) => i \in Consumed(book, fills)
    BY <1>14, <1>15, <1>16, <1>17, <1>18
  <2>7. t.area = book[id].area /\ t.period = book[id].period /\ t.side = book[id].side
    BY <1>1, <1>7 DEF Sound, IInv, Consistent, Entry, d
  <2>5. \A i \in DOMAIN fills : fills[i] \in 1 .. book[i].qty
    BY <1>8, <1>14, <1>16 DEF GoodFills
  <2>. HIDE DEF areas
  <2>6. QED
    BY <1>5, <1>14, <1>15, <2>1, <2>2, <2>3, <2>4, <2>5, <2>7, <2>8
       DEF DealTerms, GoodFills
<1>20. DealEffects(d.gridpool, id, t, fills, now)
  <2>1. DebitCapacity(t, fills)
    <3>1. \A i \in DOMAIN fills : book[i].area = t.area
      BY <1>7, <1>14, <1>15 DEF Makers
    <3>2. coupling_fills \in [Edge \X Period -> Nat]
      BY DEF Sound, IInv, Scalars
    <3>3. QED
      BY <1>3, <3>1, <3>2, NoDebitAtHome
  <2>2. /\ DOMAIN AfterFills(b, fills) = DOMAIN b \ Consumed(b, fills)
        /\ \A i \in DOMAIN b \ Consumed(b, fills) :
             AfterFills(b, fills)[i] = AfterFills(book, fills)[i]
    BY <1>8, <1>16 DEF AfterFills
  <2>. DEFINE left == AfterFills(b, fills)
  <2>3. /\ DOMAIN left \subseteq DOMAIN book'
        /\ DOMAIN book' \subseteq DOMAIN left \cup {id}
        /\ \A i \in DOMAIN left : i # id => book'[i] = left[i]
    BY <1>3 DEF Rebook, BooksAfter, WithEntry
  <2>. HIDE DEF left
  <2>4. QED
    BY <1>3, <1>8, <1>16, <2>1, <2>2, <2>3 DEF DealEffects, left
<1>21. DealOrders(d.gridpool, id, fills, taken)
  <2>1. Live(id) /\ SameTerms(orders'[id], orders[id]) /\ orders'[id].gridpool = d.gridpool
    BY <1>1, <1>10, <1>11 DEF SameTerms, d
  <2>2. orders'[id].filled = orders[id].filled + taken
    BY <1>10, <1>11 DEF d
  <2>3. QED
    BY <1>1, <1>3, <1>5, <1>10, <2>1, <2>2 DEF DealOrders
<1>22. Queued(book', older')
  <2>1. id \notin DOMAIN b
    BY <1>8
  <2>2. Queued(BooksAfter(b, id, t, fills, rest),
               QueuesAfter(b, ol, id, t, fills, rest))
    BY <1>9, <1>12, <1>14, <2>1, RebookKeepsQueues
  <2>3. QED
    BY <1>3, <2>2 DEF Rebook
<1>23. Modification /\ orders'[id].period = t.period
  BY <1>7, <1>10, <1>11 DEF Modification, SameTerms
<1>24. QED
  BY <1>19, <1>20, <1>21, <1>22, <1>23 DEF Deal

(* Cancels and expiries are quiet. *)
LEMMA UnrestIsQuiet ==
  ASSUME Sound, NEW S, NEW U, NEW s \in {"Canceled", "Expired"},
         \A i \in S : Live(i), Close(S, s), Unrest(U),
         UNCHANGED <<now, next_order_id, next_trade_id, coupling_fills,
                     tape, trades>>
  PROVE  Quiet /\ Queued(book', older')
<1>1. /\ book' = Without(book, U)
      /\ older' = OlderWithin(older, DOMAIN book \ U)
      /\ orders' = [ i \in DOMAIN orders |->
                       IF i \in S THEN [orders[i] EXCEPT !.state = s]
                                  ELSE orders[i] ]
  BY DEF Unrest, Close
<1>2. Queued(book', older')
  BY <1>1, WithoutKeepsQueues DEF Sound
<1>3. DOMAIN book' \subseteq DOMAIN book /\ \A i \in DOMAIN book' : book'[i] = book[i]
  BY <1>1 DEF Without
<1>4. now \in Nat
  BY WorldAssumption DEF Sound, IInv, Scalars, Time
<1>5. QED
  BY <1>1, <1>2, <1>3, <1>4 DEF Quiet

(* Every step is a deal or quiet, and leads from a sound state to one.     *)
LEMMA StepKinds ==
  ASSUME Sound, [Next]_vars
  PROVE  /\ Sound'
         /\ \/ Quiet
            \/ \E g, id, t, areas, fills, taken, at :
                 Deal(g, id, t, areas, fills, taken, at)
<1>1. IInv'
  BY InvNext DEF Sound
<1>2. Bound({}) = {} /\ \A S : Bound(S) \subseteq S
  BY DEF Bound
<1>3. now \in Nat
  BY WorldAssumption DEF Sound, IInv, Scalars, Time
<1>4. ASSUME NEW g \in Gridpool, NEW o \in Requests, SubmitOrder(g, o)
      PROVE  /\ Queued(book', older')
             /\ \E id, t, areas, fills, taken, at :
                  Deal(g, id, t, areas, fills, taken, at)
  BY <1>4, SubmitIsDeal
<1>5. ASSUME NEW o \in CounterpartyRequests, NEW n \in Time,
             SubmitCounterpartyOrder(o, n)
      PROVE  /\ Queued(book', older')
             /\ \E id, t, areas, fills, taken, at :
                  Deal(Counterparty, id, t, areas, fills, taken, at)
  BY <1>5, CounterpartyIsDeal
<1>6. ASSUME NEW S, \A i \in S : Live(i), CancelOrders(S)
      PROVE  Quiet /\ Queued(book', older')
  <2>1. /\ Close(S, "Canceled") /\ Unrest(Bound(S))
        /\ UNCHANGED <<now, next_order_id, next_trade_id, coupling_fills,
                       tape, trades>>
    BY <1>6 DEF CancelOrders
  <2>2. QED
    BY <1>6, <2>1, UnrestIsQuiet
<1>7. ASSUME NEW id \in OrderId, CancelOrder(id)
      PROVE  Quiet /\ Queued(book', older')
  <2>1. CancelOrders({id}) /\ \A i \in {id} : Live(i)
    BY <1>7 DEF CancelOrder
  <2>2. QED
    BY <1>6, <2>1
<1>8. ASSUME NEW id \in OrderId, CancelCounterpartyOrder(id)
      PROVE  Quiet /\ Queued(book', older')
  <2>1. orders' = orders /\ Unrest({id})
        /\ UNCHANGED <<now, next_order_id, next_trade_id, coupling_fills,
                       tape, trades>>
    BY <1>8 DEF CancelCounterpartyOrder
  <2>2. /\ book' = Without(book, {id})
        /\ older' = OlderWithin(older, DOMAIN book \ {id})
    BY <2>1 DEF Unrest
  <2>3. Queued(book', older')
    BY <2>2, WithoutKeepsQueues DEF Sound
  <2>4. DOMAIN book' \subseteq DOMAIN book /\ \A i \in DOMAIN book' : book'[i] = book[i]
    BY <2>2 DEF Without
  <2>5. QED
    BY <1>3, <2>1, <2>3, <2>4 DEF Quiet
<1>9. ASSUME NEW g \in Gridpool, CancelAllOrders(g)
      PROVE  Quiet /\ Queued(book', older')
  <2>. DEFINE S == { i \in DOMAIN orders : Live(i) /\ orders[i].gridpool = g }
  <2>1. CancelOrders(S) /\ \A i \in S : Live(i)
    BY <1>9 DEF CancelAllOrders
  <2>. HIDE DEF S
  <2>2. QED
    BY <1>6, <2>1
<1>10. ASSUME NEW id \in OrderId, NEW upd \in Updates, ModifyOrder(id, upd)
       PROVE  /\ Queued(book', older')
              /\ \E g, t, areas, fills, taken, at :
                   Deal(g, id, t, areas, fills, taken, at)
  BY <1>10, ModifyIsDeal
<1>11. ASSUME ExpireLapsedOrders
       PROVE  Quiet /\ Queued(book', older')
  <2>. DEFINE S == { i \in DOMAIN orders : Live(i) /\ Lapsed(i) }
              U == Bound(S) \cup { i \in DOMAIN book \ S :
                      GateClosed(book[i].period, now) /\ i \notin DOMAIN owner }
  <2>1. /\ \A i \in S : Live(i)
        /\ Close(S, "Expired") /\ Unrest(U)
        /\ UNCHANGED <<now, next_order_id, next_trade_id, coupling_fills,
                       tape, trades>>
    BY <1>11 DEF ExpireLapsedOrders
  <2>. HIDE DEF S, U
  <2>2. QED
    BY <2>1, UnrestIsQuiet
<1>12. CASE SetSuspended \/ Tick \/ UNCHANGED vars
  <2>1. /\ UNCHANGED <<next_order_id, next_trade_id, orders, book, older,
                       coupling_fills, tape, trades>>
        /\ now' >= now
    BY <1>3, <1>12 DEF SetSuspended, Tick, vars
  <2>2. QED
    BY <1>1, <2>1 DEF Quiet, Sound
<1>13. QED
  BY <1>1, <1>4, <1>5, <1>7, <1>8, <1>9, <1>10, <1>11, <1>12 DEF Next, Sound

(* Empty books are sound. *)
LEMMA SoundAtStart == Init => Sound
<1>1. Init => Queued(book, older)
  BY DEF Init, Empty, Queued
<1>2. QED
  BY <1>1, InvInit DEF Sound

(* The queues are always in order: of two orders at one price of one book  *)
(* exactly one stands before the other, and standing before is transitive. *)
THEOREM QueuesStayInOrder == Spec => []Sound
<1>1. Sound /\ [Next]_vars => Sound'
  BY StepKinds
<1>2. QED
  BY <1>1, SoundAtStart, PTL DEF Spec

-----------------------------------------------------------------------------
(* What becomes of the orders. *)

(* A maker's account after a deal: its own terms stay, and it gains what   *)
(* was taken from it.                                                      *)
LEMMA MakerAfterDeal ==
  ASSUME Sound, NEW g, NEW id, NEW t, NEW areas, NEW fills, NEW taken, NEW at,
         Deal(g, id, t, areas, fills, taken, at),
         NEW i \in DOMAIN orders, i # id
  PROVE  /\ i \in DOMAIN orders' /\ SameTerms(orders'[i], orders[i])
         /\ orders'[i].quantity = orders[i].quantity
         /\ i \in DOMAIN fills \cap DOMAIN owner =>
              orders'[i].filled = orders[i].filled + fills[i]
         /\ i \notin DOMAIN fills \cap DOMAIN owner => orders'[i] = orders[i]
         /\ IsTerminal(orders[i].state) => orders'[i] = orders[i]
<1>1. orders'[i] = MakersAfter(fills)[i] /\ i \in DOMAIN orders'
  BY DEF Deal, DealOrders
<1>2. orders[i] \in OrderDetail
  BY DEF Sound, IInv, Consistent, GoodDetail
<1>3. i \in DOMAIN owner <=> ~IsTerminal(orders[i].state)
  BY DEF Sound, IInv, Consistent
<1>4. CASE i \in DOMAIN fills \cap DOMAIN owner
  <2>1. orders'[i] = MakerAfterFill(orders[i], fills[i])
    BY <1>1, <1>4 DEF MakersAfter
  <2>2. QED
    BY <1>1, <1>2, <1>3, <1>4, <2>1 DEF MakerAfterFill, OrderDetail, SameTerms
<1>5. CASE i \notin DOMAIN fills \cap DOMAIN owner
  BY <1>1, <1>5 DEF MakersAfter, SameTerms
<1>6. QED
  BY <1>4, <1>5

(* What a step may do to an admitted order. *)
Kept(i) ==
  /\ i \in DOMAIN orders'
  /\ IsTerminal(orders[i].state) => orders'[i] = orders[i]
  /\ orders'[i].filled >= orders[i].filled
  /\ SameTerms(orders'[i], orders[i])

(* Every order is kept by every step: deals only fill, quiet steps only  *)
(* close.                                                                *)
LEMMA OrdersAreKept ==
  ASSUME Sound, [Next]_vars, NEW i \in DOMAIN orders
  PROVE  Kept(i)
<1>1. /\ orders[i] \in OrderDetail
      /\ orders[i].filled \in 0 .. MaxQuantity /\ MaxQuantity \in Nat
  BY MatchingAssumption DEF Sound, IInv, Consistent, GoodDetail, OrderDetail
<1>2. CASE Quiet
  <2>1. CASE orders'[i] = orders[i]
    BY <1>1, <1>2, <2>1 DEF Quiet, Kept, SameTerms
  <2>2. CASE orders'[i] # orders[i]
    <3>1. PICK s \in {"Canceled", "Expired"} :
            orders'[i] = [orders[i] EXCEPT !.state = s]
      BY <1>2, <2>2 DEF Quiet
    <3>2. Live(i) /\ i \in DOMAIN orders'
      BY <1>2, <2>2 DEF Quiet
    <3>3. QED
      BY <1>1, <3>1, <3>2 DEF Live, Kept, SameTerms, OrderDetail
  <2>3. QED
    BY <2>1, <2>2
<1>3. ASSUME NEW g, NEW id, NEW t, NEW areas, NEW fills, NEW taken, NEW at,
             Deal(g, id, t, areas, fills, taken, at)
      PROVE  Kept(i)
  <2>1. CASE i # id
    <3>1. i \in DOMAIN fills => fills[i] \in Nat
      <4>1. i \in DOMAIN fills => fills[i] \in 1 .. book[i].qty /\ i \in DOMAIN book
        BY <1>3 DEF Deal, DealTerms, Makers
      <4>2. i \in DOMAIN book => book[i].qty \in 1 .. MaxQuantity
        BY DEF Sound, IInv, GoodBook, BookEntry, Quantity
      <4>3. QED
        BY <1>1, <4>1, <4>2
    <3>2. QED
      BY <1>1, <1>3, <2>1, <3>1, MakerAfterDeal DEF Kept
  <2>2. CASE i = id
    <3>1. /\ Live(id) /\ SameTerms(orders'[id], orders[id])
          /\ orders'[id].filled = orders[id].filled + taken
          /\ id \in DOMAIN orders'
      BY <1>3, <2>2 DEF Deal, DealOrders
    <3>2. taken \in Nat
      BY <1>1, <1>3 DEF Deal, DealTerms
    <3>3. QED
      BY <1>1, <2>2, <3>1, <3>2 DEF Kept, Live
  <2>3. QED
    BY <2>1, <2>2
<1>4. QED
  BY <1>2, <1>3, StepKinds

(* cancel, recall, expiry, fills and modifications all leave a terminal    *)
(* order alone, and none of them drops an order, takes back a fill or      *)
(* moves an order to another pool, contract or side.                       *)
THEOREM WorldTerminalIsForever == Spec => TerminalIsForever
<1>1. Sound /\ [Next]_vars =>
        [ \A i \in DOMAIN orders :
            /\ i \in DOMAIN orders'
            /\ IsTerminal(orders[i].state) => orders'[i] = orders[i]
            /\ orders'[i].filled >= orders[i].filled
            /\ \A f \in {"gridpool", "area", "period", "side", "option"} :
                 orders'[i][f] = orders[i][f] ]_vars
  <2>. SUFFICES ASSUME Sound, [Next]_vars, NEW i \in DOMAIN orders
                PROVE  /\ i \in DOMAIN orders'
                       /\ IsTerminal(orders[i].state) => orders'[i] = orders[i]
                       /\ orders'[i].filled >= orders[i].filled
                       /\ \A f \in {"gridpool", "area", "period", "side", "option"} :
                            orders'[i][f] = orders[i][f]
    OBVIOUS
  <2>1. Kept(i)
    BY OrdersAreKept
  <2>2. \A f \in {"gridpool", "area", "period", "side", "option"} :
          orders'[i][f] = orders[i][f]
    BY <2>1 DEF Kept, SameTerms
  <2>3. QED
    BY <2>1, <2>2 DEF Kept
<1>2. QED
  BY <1>1, QueuesStayInOrder, PTL DEF Spec, TerminalIsForever

(* There is no order at the start. *)
LEMMA ResolvedAtStart == Init => \A i \in DOMAIN orders : Resolved(orders[i])
  BY DEF Init, Empty

(* A step resolves the immediate order it admits, and what is resolved is  *)
(* terminal, so no later fill reaches it.                                  *)
LEMMA ResolvedStays ==
  ASSUME Sound, [Next]_vars, \A i \in DOMAIN orders : Resolved(orders[i])
  PROVE  \A i \in DOMAIN orders' : Resolved(orders'[i])
<1>. SUFFICES ASSUME NEW i \in DOMAIN orders' PROVE Resolved(orders'[i])
  OBVIOUS
<1>1. CASE i \in DOMAIN orders
  <2>1. Kept(i) /\ Resolved(orders[i])
    BY <1>1, OrdersAreKept
  <2>2. CASE orders[i].option \in {"Fok", "Ioc"}
    <3>1. orders'[i] = orders[i]
      BY <2>1, <2>2 DEF Kept, Resolved
    <3>2. QED
      BY <2>1, <3>1
  <2>3. CASE orders[i].option \notin {"Fok", "Ioc"}
    BY <2>1, <2>3 DEF Kept, SameTerms, Resolved
  <2>4. QED
    BY <2>2, <2>3
<1>2. CASE i \notin DOMAIN orders
  <2>1. ~Quiet
    BY <1>2 DEF Quiet
  <2>2. PICK g, id, t, areas, fills, taken, at :
          Deal(g, id, t, areas, fills, taken, at)
    BY <2>1, StepKinds
  <2>3. i = id /\ g \in Gridpool
    BY <1>2, <2>2 DEF Deal, DealOrders
  <2>4. QED
    BY <1>2, <2>2, <2>3 DEF Deal, DealOrders
<1>3. QED
  BY <1>1, <1>2

(* No fill-or-kill or immediate-or-cancel order rests, is ever live, or,   *)
(* fill-or-kill, is left filled in part, whatever happens after it was     *)
(* admitted.                                                               *)
THEOREM WorldImmediateOrdersResolve == Spec => []ImmediateOrdersResolve
<1>. DEFINE R == \A i \in DOMAIN orders : Resolved(orders[i])
<1>1. Sound /\ R /\ [Next]_vars => R'
  BY ResolvedStays
<1>2. Sound /\ R => ImmediateOrdersResolve
  <2>. SUFFICES ASSUME Sound, R, NEW i \in DOMAIN orders
                PROVE  /\ orders[i].option \in {"Fok", "Ioc"} =>
                            ~Live(i) /\ i \notin DOMAIN book
                       /\ orders[i].option = "Fok" =>
                            orders[i].filled \in {0, orders[i].quantity}
    BY DEF ImmediateOrdersResolve
  <2>1. Resolved(orders[i])
    OBVIOUS
  <2>2. IsTerminal(orders[i].state) => i \notin DOMAIN owner /\ i \notin DOMAIN book
    BY DEF Sound, IInv, Consistent
  <2>3. QED
    BY <2>1, <2>2 DEF Resolved, Live
<1>3. Init => R
  BY ResolvedAtStart
<1>. HIDE DEF R
<1>4. QED
  BY <1>1, <1>2, <1>3, QueuesStayInOrder, PTL DEF Spec

-----------------------------------------------------------------------------
(* What a step trades. *)

(* The trades a deal adds to the tape are its fills'. *)
LEMMA TradesOfDeal ==
  ASSUME NEW g, NEW id, NEW t, NEW areas, NEW fills, NEW taken, NEW at,
         Deal(g, id, t, areas, fills, taken, at), NEW x \in NewTrades
  PROVE  \E i \in DOMAIN fills :
           /\ x = PublicTrade(t, fills, i, at)
           /\ i \in Makers(book, t, areas) \ {id}
           /\ x.price = book[i].price /\ x.period = t.period /\ x.time = at
           /\ x.buy_area  = IF t.side = "Buy" THEN t.area ELSE book[i].area
           /\ x.sell_area = IF t.side = "Buy" THEN book[i].area ELSE t.area
<1>1. PICK i \in DOMAIN fills : x = PublicTrade(t, fills, i, at)
  BY DEF NewTrades, Deal, DealEffects, RecordTrades
<1>2. i \in Makers(book, t, areas) \ {id}
  BY DEF Deal, DealTerms
<1>3. QED
  BY <1>1, <1>2 DEF PublicTrade

(* A step without a deal trades nothing. *)
LEMMA NoTradeWhenQuiet == Quiet => NewTrades = {}
  BY DEF Quiet, NewTrades

(* Of what a deal trades, no order of the same book side with a better     *)
(* price, or ahead at its price, is left.                                  *)
LEMMA DealKeepsPriority ==
  ASSUME Sound, NEW g, NEW id, NEW t, NEW areas, NEW fills, NEW taken, NEW at,
         Deal(g, id, t, areas, fills, taken, at),
         NEW i \in DOMAIN book, NEW j \in DOMAIN book, Traded(j),
         book[i].area = book[j].area, book[i].period = book[j].period,
         book[i].side = book[j].side,
         \/ <<i, j>> \in older
         \/ Better(Opposite(book[i].side), book[i].price, book[j].price)
  PROVE  i \notin DOMAIN book'
<1>1. PICK x \in NewTrades :
        /\ x.price = book[j].price /\ x.period = book[j].period
        /\ book[j].area = IF book[j].side = "Buy" THEN x.buy_area ELSE x.sell_area
  BY DEF Traded
<1>2. PICK k \in DOMAIN fills :
        /\ k \in Makers(book, t, areas) \ {id}
        /\ x.price = book[k].price /\ x.period = t.period
        /\ x.buy_area  = IF t.side = "Buy" THEN t.area ELSE book[k].area
        /\ x.sell_area = IF t.side = "Buy" THEN book[k].area ELSE t.area
  BY TradesOfDeal
<1>3. /\ DealTerms(g, id, t, areas, fills, taken, at)
      /\ DealEffects(g, id, t, fills, at)
  BY DEF Deal
<1>4. \A n \in DOMAIN book : /\ book[n].side \in Side /\ book[n].price \in Int
                             /\ book[n].qty \in Nat
  <2>. SUFFICES ASSUME NEW n \in DOMAIN book
                PROVE  /\ book[n].side \in Side /\ book[n].price \in Int
                       /\ book[n].qty \in Nat
    OBVIOUS
  <2>1. book[n] \in BookEntry
    BY DEF Sound, IInv, GoodBook
  <2>2. Price \subseteq Int /\ Quantity \subseteq Nat
    BY WorldAssumption, MatchingAssumption DEF Quantity
  <2>3. QED
    BY <2>1, <2>2 DEF BookEntry
<1>5. t.side \in Side
  BY <1>3 DEF DealTerms, GoodTaker
<1>6. \A n \in Makers(book, t, areas) :
        /\ n \in DOMAIN book /\ book[n].area \in areas
        /\ book[n].period = t.period /\ book[n].side = Opposite(t.side)
        /\ Crosses(t.side, t.price, book[n].price)
  BY DEF Makers
<1>7. j # id
  <2>. SUFFICES ASSUME j = id PROVE FALSE
    OBVIOUS
  <2>1. /\ areas = {t.area} /\ t.area = book[j].area
        /\ t.period = book[j].period /\ t.side = book[j].side
    BY <1>3 DEF DealTerms
  <2>2. /\ k \in DOMAIN book /\ book[k].area = book[j].area
        /\ book[k].period = book[j].period /\ book[k].side = Opposite(book[j].side)
        /\ book[k].price = book[j].price
    BY <1>1, <1>2, <1>6, <2>1
  <2>3. Uncrossed(book)
    BY DEF Sound, IInv
  <2>4. QED
    BY <1>4, <2>2, <2>3 DEF Uncrossed, Opposite, Side
<1>8. j \in DOMAIN fills
  <2>. SUFFICES ASSUME j \notin DOMAIN fills PROVE FALSE
    OBVIOUS
  <2>1. j \notin Consumed(book, fills)
    BY DEF Consumed
  <2>2. AfterFills(book, fills)[j] = book[j]
    BY <2>1 DEF AfterFills
  <2>3. j \in DOMAIN book' /\ book'[j] = book[j]
    BY <1>3, <1>7, <2>1, <2>2 DEF DealEffects
  <2>4. QED
    BY <1>4, <2>3 DEF Traded
<1>9. j \in Makers(book, t, areas)
  BY <1>3, <1>8 DEF DealTerms
<1>10. i # id
  <2>. SUFFICES ASSUME i = id PROVE FALSE
    OBVIOUS
  <2>1. t.side = book[i].side
    BY <1>3 DEF DealTerms
  <2>2. QED
    BY <1>5, <1>6, <1>9, <2>1 DEF Opposite, Side
<1>11. <<i, j>> \in older => book[i].price = book[j].price
  BY DEF Sound, Queued, SameLevel
<1>12. Opposite(book[i].side) = t.side
  BY <1>5, <1>6, <1>9 DEF Opposite, Side
<1>13. Crosses(t.side, t.price, book[i].price)
  <2>1. t.price \in Int
    BY <1>3, WorldAssumption DEF DealTerms, GoodTaker
  <2>2. Crosses(t.side, t.price, book[j].price)
    BY <1>6, <1>9
  <2>3. QED
    BY <1>4, <1>11, <1>12, <2>1, <2>2 DEF Crosses, Better
<1>14. i \in Makers(book, t, areas) \ {id}
  BY <1>6, <1>9, <1>10, <1>13 DEF Makers
<1>15. Precedes(book, older, t, i, j)
  BY <1>11, <1>12 DEF Precedes
<1>16. i \in Consumed(book, fills)
  BY <1>3, <1>8, <1>14, <1>15 DEF DealTerms
<1>17. QED
  BY <1>3, <1>10, <1>16 DEF DealEffects

(* No trade-through, by any handler, over the life of the books: when a    *)
(* resting order trades, every order of its book side with a better price, *)
(* or ahead of it at its price, has traded out.                            *)
THEOREM WorldPriceTimePriority == Spec => PriceTimePriority
<1>1. Sound /\ [Next]_vars =>
        [ \A i, j \in DOMAIN book :
            /\ Traded(j)
            /\ book[i].area = book[j].area /\ book[i].period = book[j].period
            /\ book[i].side = book[j].side
            /\ \/ <<i, j>> \in older
               \/ Better(Opposite(book[i].side), book[i].price, book[j].price)
            => i \notin DOMAIN book' ]_vars
  <2>. SUFFICES ASSUME Sound, [Next]_vars,
                       NEW i \in DOMAIN book, NEW j \in DOMAIN book, Traded(j),
                       book[i].area = book[j].area, book[i].period = book[j].period,
                       book[i].side = book[j].side,
                       \/ <<i, j>> \in older
                       \/ Better(Opposite(book[i].side), book[i].price, book[j].price)
                PROVE  i \notin DOMAIN book'
    OBVIOUS
  <2>1. ~Quiet
    BY NoTradeWhenQuiet DEF Traded
  <2>2. PICK g, id, t, areas, fills, taken, at :
          Deal(g, id, t, areas, fills, taken, at)
    BY <2>1, StepKinds
  <2>3. QED
    BY <2>2, DealKeepsPriority
<1>2. QED
  BY <1>1, QueuesStayInOrder, PTL DEF Spec, PriceTimePriority

(* A trade between two areas is made over an open edge, and before the      *)
(* gates, by the time it carries; that is the clock's unless the taker is   *)
(* a counterparty's.                                                       *)
LEMMA DealHoldsGates ==
  ASSUME Sound, NEW g, NEW id, NEW t, NEW areas, NEW fills, NEW taken, NEW at,
         Deal(g, id, t, areas, fills, taken, at), NEW x \in NewTrades
  PROVE  /\ x.buy_area # x.sell_area =>
              LET e == {x.buy_area, x.sell_area}
              IN /\ e \in Edge
                 /\ x.time + Coupling[e].gate_offset < Start[x.period]
         /\ ~Modification => ~GateClosed(x.period, x.time)
         /\ x.time <= now
         /\ DOMAIN orders' # DOMAIN orders => x.time = now
<1>1. PICK k \in DOMAIN fills :
        /\ k \in Makers(book, t, areas) \ {id}
        /\ x.period = t.period /\ x.time = at
        /\ x.buy_area  = IF t.side = "Buy" THEN t.area ELSE book[k].area
        /\ x.sell_area = IF t.side = "Buy" THEN book[k].area ELSE t.area
  BY TradesOfDeal
<1>2. DealTerms(g, id, t, areas, fills, taken, at)
  BY DEF Deal
<1>3. /\ ~Modification => ~GateClosed(x.period, x.time)
      /\ x.time <= now
  BY <1>1, <1>2 DEF DealTerms
<1>4. ASSUME x.buy_area # x.sell_area
      PROVE  LET e == {x.buy_area, x.sell_area}
             IN /\ e \in Edge
                /\ at + Coupling[e].gate_offset < Start[x.period]
  <2>. DEFINE a == book[k].area
  <2>1. {x.buy_area, x.sell_area} = {t.area, a} /\ a # t.area
    BY <1>1, <1>4
  <2>2. a \in areas
    BY <1>1 DEF Makers
  <2>3. EdgeOpen(t.area, a, t.period, at)
    BY <1>2, <2>1, <2>2 DEF DealTerms, CandidateAreas
  <2>4. ~GateClosed(t.period, at)
    BY <1>2, <2>1, <2>2 DEF DealTerms
  <2>. DEFINE off == Coupling[{t.area, a}].gate_offset
  <2>5. {t.area, a} \in Edge /\ (off > 0 => at < Start[t.period] - off)
    BY <2>3 DEF EdgeOpen
  <2>6. off \in Nat
    BY <2>5, WorldAssumption
  <2>7. t.period \in Period /\ Start[t.period] \in Nat /\ at \in Nat
    BY <1>2, WorldAssumption DEF DealTerms, GoodTaker, Time
  <2>. HIDE DEF a, off
  <2>8. at + off < Start[t.period]
    BY <2>4, <2>5, <2>6, <2>7 DEF GateClosed
  <2>9. QED
    BY <1>1, <2>1, <2>5, <2>8 DEF off
<1>5. DOMAIN orders' # DOMAIN orders => x.time = now
  <2>1. g \notin Gridpool => DOMAIN orders' = DOMAIN orders
    BY DEF Deal, DealOrders
  <2>2. QED
    BY <1>1, <1>2, <2>1 DEF DealTerms
<1>6. QED
  BY <1>1, <1>3, <1>4, <1>5

(* A trade between two areas is made over a coupling of the two, by a time  *)
(* before the coupling's own, earlier gate, whatever handler makes it:     *)
(* candidate_keys is asked again by every sweep.                           *)
THEOREM WorldCrossBorderGateHolds == Spec => CrossBorderGateHolds
<1>1. Sound /\ [Next]_vars =>
        [ \A x \in NewTrades : x.buy_area # x.sell_area =>
            LET e == {x.buy_area, x.sell_area}
            IN /\ e \in Edge
               /\ x.time + Coupling[e].gate_offset < Start[x.period] ]_vars
  <2>. SUFFICES ASSUME Sound, [Next]_vars, NEW x \in NewTrades,
                       x.buy_area # x.sell_area
                PROVE  LET e == {x.buy_area, x.sell_area}
                       IN /\ e \in Edge
                          /\ x.time + Coupling[e].gate_offset < Start[x.period]
    OBVIOUS
  <2>1. ~Quiet
    BY NoTradeWhenQuiet
  <2>2. PICK g, id, t, areas, fills, taken, at :
          Deal(g, id, t, areas, fills, taken, at)
    BY <2>1, StepKinds
  <2>3. QED
    BY <2>2, DealHoldsGates
<1>2. QED
  BY <1>1, QueuesStayInOrder, PTL DEF Spec, CrossBorderGateHolds

-----------------------------------------------------------------------------
(* Volumes of sets of trades. *)

LotsOf(S) == { l \in S \X Quantity : l[2] <= l[1].quantity }

(* The volume of finitely many trades is a number. *)
LEMMA VolumeType ==
  ASSUME NEW S, IsFiniteSet(S)
  PROVE  /\ IsFiniteSet(LotsOf(S))
         /\ Volume(S) = Cardinality(LotsOf(S)) /\ Volume(S) \in Nat
<1>1. IsFiniteSet(Quantity)
  BY MatchingAssumption, FS_Interval DEF Quantity
<1>2. IsFiniteSet(S \X Quantity)
  BY <1>1, FS_Product
<1>3. LotsOf(S) \in SUBSET (S \X Quantity)
  BY DEF LotsOf
<1>4. IsFiniteSet(LotsOf(S))
  BY <1>2, <1>3, FS_Subset
<1>5. Volume(S) = Cardinality(LotsOf(S))
  BY DEF Volume, LotsOf
<1>6. QED
  BY <1>4, <1>5, FS_CardinalityType

(* The volumes of two separate sets of trades add up. *)
LEMMA VolumeAdd ==
  ASSUME NEW S, NEW T, IsFiniteSet(S), IsFiniteSet(T), S \cap T = {}
  PROVE  Volume(S \cup T) = Volume(S) + Volume(T)
<1>1. LotsOf(S \cup T) = LotsOf(S) \cup LotsOf(T)
  BY DEF LotsOf
<1>2. LotsOf(S) \cap LotsOf(T) = {}
  BY DEF LotsOf
<1>3. IsFiniteSet(S \cup T)
  BY FS_Union
<1>4. /\ IsFiniteSet(LotsOf(S)) /\ IsFiniteSet(LotsOf(T))
      /\ Volume(S) = Cardinality(LotsOf(S)) /\ Volume(S) \in Nat
      /\ Volume(T) = Cardinality(LotsOf(T)) /\ Volume(T) \in Nat
      /\ Volume(S \cup T) = Cardinality(LotsOf(S \cup T))
  BY <1>3, VolumeType
<1>5. Cardinality(LotsOf(S) \cup LotsOf(T))
        = Cardinality(LotsOf(S)) + Cardinality(LotsOf(T)) - Cardinality({})
  BY <1>2, <1>4, FS_Union
<1>6. Cardinality({}) = 0
  BY FS_EmptySet
<1>7. Volume(S \cup T) = Cardinality(LotsOf(S) \cup LotsOf(T))
  BY <1>1, <1>4
<1>8. QED
  BY <1>4, <1>5, <1>6, <1>7

(* One trade for each of some fills, each with its fill's quantity: their  *)
(* volume is what was taken.                                               *)
LEMMA VolumeOfFills ==
  ASSUME NEW fills, NEW D, D \subseteq DOMAIN fills, IsFiniteSet(D),
         NEW S, NEW f \in Bijection(D, S),
         \A i \in D : f[i].quantity = fills[i]
  PROVE  IsFiniteSet(S) /\ Volume(S) = Depth(Taken(fills), D)
<1>. DEFINE L == Lots(Taken(fills), D)
            h == [ l \in L |-> <<f[l[1]], l[2]>> ]
<1>1. IsFiniteSet(S)
  BY Fun_BijectionProperties, FS_Surjection
<1>2. L = { l \in D \X Quantity : l[2] <= fills[l[1]] }
  BY DEF Lots, Taken, Quantity
<1>3. /\ \A i \in D : f[i] \in S /\ f[i].quantity = fills[i]
      /\ \A s \in S : \E i \in D : f[i] = s
      /\ \A i, j \in D : f[i] = f[j] => i = j
  BY Fun_BijectionProperties
<1>. HIDE DEF L
<1>4. h \in [L -> LotsOf(S)]
  <2>1. ASSUME NEW l \in L
        PROVE  <<f[l[1]], l[2]>> \in LotsOf(S)
    <3>1. l[1] \in D /\ l[2] \in Quantity /\ l[2] <= fills[l[1]]
      BY <1>2
    <3>2. QED
      BY <1>3, <3>1 DEF LotsOf
  <2>2. QED
    BY <2>1
<1>5. ASSUME NEW k \in L, NEW l \in L, h[k] = h[l]
      PROVE  k = l
  <2>1. /\ k = <<k[1], k[2]>> /\ k[1] \in D
        /\ l = <<l[1], l[2]>> /\ l[1] \in D
    BY <1>2
  <2>2. f[k[1]] = f[l[1]] /\ k[2] = l[2]
    BY <1>5
  <2>3. QED
    BY <1>3, <2>1, <2>2
<1>6. ASSUME NEW m \in LotsOf(S)
      PROVE  \E l \in L : h[l] = m
  <2>1. /\ m = <<m[1], m[2]>> /\ m[1] \in S /\ m[2] \in Quantity
        /\ m[2] <= m[1].quantity
    BY DEF LotsOf
  <2>2. PICK i \in D : f[i] = m[1]
    BY <1>3, <2>1
  <2>3. <<i, m[2]>> \in L
    BY <1>2, <1>3, <2>1, <2>2
  <2>4. h[<<i, m[2]>>] = m
    BY <2>1, <2>2, <2>3
  <2>5. QED
    BY <2>3, <2>4
<1>7. h \in Bijection(L, LotsOf(S))
  <2>. HIDE DEF h
  <2>. QED  BY <1>4, <1>5, <1>6, Fun_IsBij
<1>8. ExistsBijection(L, LotsOf(S))
  BY <1>7 DEF ExistsBijection
<1>9. IsFiniteSet(L) /\ Depth(Taken(fills), D) = Cardinality(L)
  BY DepthType DEF L
<1>10. Cardinality(LotsOf(S)) = Cardinality(L)
  BY <1>8, <1>9, FS_Bijection
<1>11. QED
  BY <1>1, <1>9, <1>10, VolumeType

-----------------------------------------------------------------------------
(* What is recorded of the trades. *)

(* The two records of a trade agree. *)
Matches(x, y) ==
  /\ y.id = x.id /\ y.period = x.period
  /\ y.price = x.price /\ y.quantity = x.quantity
  /\ x.area = IF x.side = "Buy" THEN y.buy_area ELSE y.sell_area

(* Trade ids number the tape without a gap, and each of a pool's trades    *)
(* belongs to one of its orders and is on the tape.                        *)
TapeNumbered ==
  /\ next_trade_id \in Nat \ {0}
  /\ IsFiniteSet(tape)
  /\ { y.id : y \in tape } = 1 .. next_trade_id - 1
  /\ \A x, y \in tape : x.id = y.id => x = y

TradesRecorded ==
  /\ \A g \in Gridpool : IsFiniteSet(trades[g])
  /\ \A g \in Gridpool : \A x \in trades[g] :
       /\ x.order_id \in DOMAIN orders /\ orders[x.order_id].gridpool = g
       /\ \E y \in tape : Matches(x, y)
  /\ \A g, h \in Gridpool : \A x \in trades[g], y \in trades[h] :
       x.id = y.id /\ x.side = y.side => x = y /\ g = h

TradesOf(i) == { x \in trades[orders[i].gridpool] : x.order_id = i }

FillsAccounted == \A i \in DOMAIN orders : orders[i].filled = Volume(TradesOf(i))

(* What is needed of the past to go on. *)
History == Sound /\ TapeNumbered /\ TradesRecorded /\ FillsAccounted

(* The private trades a deal adds to pool h. *)
TakerTrades(g, id, t, fills, h) ==
  { Trade(t, fills, i, id, t.side, t.area) : i \in { j \in DOMAIN fills : h = g } }

MakerTrades(t, fills, h) ==
  { Trade(t, fills, i, i, Opposite(t.side), book[i].area) :
      i \in { j \in DOMAIN fills \cap DOMAIN owner : owner[j] = h } }

(* The trade ids of a deal are the next ones, one for each fill.           *)
LEMMA TradeIdsOfDeal ==
  ASSUME Sound, TapeNumbered,
         NEW g, NEW id, NEW t, NEW areas, NEW fills, NEW taken, NEW at,
         Deal(g, id, t, areas, fills, taken, at)
  PROVE  /\ next_trade_id' \in Nat \ {0} /\ next_trade_id' >= next_trade_id
         /\ \A i \in DOMAIN fills :
              TradeId(t, fills, i) \in next_trade_id .. next_trade_id' - 1
         /\ \A i, j \in DOMAIN fills :
              TradeId(t, fills, i) = TradeId(t, fills, j) => i = j
         /\ \A n \in Nat : next_trade_id <= n /\ n < next_trade_id' =>
              \E i \in DOMAIN fills : TradeId(t, fills, i) = n
<1>. DEFINE D == DOMAIN fills
            N == Cardinality(D)
            nth(i) == Place(book, older, t, D, i)
<1>1. t.area \in Area /\ D \subseteq Makers(book, t, areas)
  BY DEF Deal, DealTerms, GoodTaker
<1>2. Orderly(book, older, t)
  BY <1>1, SoundIsOrderly
<1>3. /\ N \in Nat
      /\ \A i \in D : nth(i) \in 0 .. N - 1
      /\ \A i, j \in D : nth(i) = nth(j) => i = j
      /\ \A n \in 0 .. N - 1 : \E i \in D : nth(i) = n
  <2>1. Numbered(book, older, t, D)
    BY <1>1, <1>2, PlacesAreNumbers
  <2>2. QED
    BY <2>1 DEF Numbered
<1>4. next_trade_id' = next_trade_id + N
  BY DEF Deal, DealEffects, RecordTrades
<1>5. \A i \in D : TradeId(t, fills, i) = next_trade_id + nth(i)
  BY DEF TradeId, Place
<1>6. next_trade_id \in Nat \ {0}
  BY DEF TapeNumbered
<1>. HIDE DEF N, nth
<1>7. \A n \in Nat : next_trade_id <= n /\ n < next_trade_id' =>
        \E i \in D : TradeId(t, fills, i) = n
  <2>. SUFFICES ASSUME NEW n \in Nat, next_trade_id <= n, n < next_trade_id'
                PROVE  \E i \in D : TradeId(t, fills, i) = n
    OBVIOUS
  <2>1. n - next_trade_id \in 0 .. N - 1
    BY <1>3, <1>4, <1>6
  <2>2. PICK i \in D : nth(i) = n - next_trade_id
    BY <1>3, <2>1
  <2>3. QED
    BY <1>5, <1>6, <2>1, <2>2
<1>8. \A i \in D : TradeId(t, fills, i) \in next_trade_id .. next_trade_id' - 1
  BY <1>3, <1>4, <1>5, <1>6
<1>9. \A i, j \in D : TradeId(t, fills, i) = TradeId(t, fills, j) => i = j
  BY <1>3, <1>5, <1>6
<1>10. QED
  BY <1>3, <1>4, <1>6, <1>7, <1>8, <1>9

(* The public trades of some of a deal's fills are as many, with the       *)
(* volume of these fills, and new.                                         *)
LEMMA PublicTradesOfFills ==
  ASSUME Sound, TapeNumbered,
         NEW g, NEW id, NEW t, NEW areas, NEW fills, NEW taken, NEW at,
         Deal(g, id, t, areas, fills, taken, at),
         NEW D, D \subseteq DOMAIN fills
  PROVE  LET S == { PublicTrade(t, fills, i, at) : i \in D }
         IN /\ IsFiniteSet(S) /\ Volume(S) = Depth(Taken(fills), D)
            /\ S \cap tape = {}
<1>. DEFINE f == [ i \in D |-> PublicTrade(t, fills, i, at) ]
            S == { PublicTrade(t, fills, i, at) : i \in D }
<1>1. IsFiniteSet(D)
  BY FS_Subset DEF Deal, DealTerms
<1>2. \A i \in D : /\ f[i].id = TradeId(t, fills, i)
                   /\ f[i].quantity = fills[i]
  BY DEF PublicTrade
<1>3. DOMAIN f = D /\ S = { f[i] : i \in D }
  OBVIOUS
<1>4. /\ \A i \in DOMAIN fills : TradeId(t, fills, i) \in next_trade_id .. next_trade_id' - 1
      /\ \A i, j \in DOMAIN fills :
           TradeId(t, fills, i) = TradeId(t, fills, j) => i = j
  BY TradeIdsOfDeal
<1>. HIDE DEF f
<1>5. \A i, j \in D : f[i] = f[j] => i = j
  BY <1>2, <1>4
<1>6. IsFiniteSet(S) /\ Volume(S) = Depth(Taken(fills), D)
  <2>1. DOMAIN f = D /\ \A i \in D : f[i].quantity = fills[i]
    BY <1>2, <1>3
  <2>2. \A i \in D : f[i] \in S
    BY <1>3
  <2>3. \A s \in S : \E i \in D : f[i] = s
    BY <1>3
  <2>. HIDE DEF S
  <2>4. f \in [D -> S]
    BY <2>1, <2>2 DEF f
  <2>5. f \in Bijection(D, S)
    BY <1>5, <2>3, <2>4, Fun_IsBij
  <2>6. QED
    BY <1>1, <2>1, <2>5, VolumeOfFills
<1>7. S \cap tape = {}
  <2>. SUFFICES ASSUME NEW x \in S, x \in tape PROVE FALSE
    OBVIOUS
  <2>1. x.id \in next_trade_id .. next_trade_id' - 1
    BY <1>2, <1>3, <1>4
  <2>2. x.id \in 1 .. next_trade_id - 1 /\ next_trade_id \in Nat
    BY DEF TapeNumbered
  <2>3. QED
    BY <2>1, <2>2
<1>8. QED
  BY <1>6, <1>7

(* A deal numbers its trades from the next id on, without a gap. *)
LEMMA DealNumbersTape ==
  ASSUME Sound, TapeNumbered,
         NEW g, NEW id, NEW t, NEW areas, NEW fills, NEW taken, NEW at,
         Deal(g, id, t, areas, fills, taken, at)
  PROVE  TapeNumbered'
<1>. DEFINE S == { PublicTrade(t, fills, i, at) : i \in DOMAIN fills }
<1>1. tape' = tape \cup S
  BY DEF Deal, DealEffects, RecordTrades
<1>2. /\ next_trade_id' \in Nat \ {0} /\ next_trade_id' >= next_trade_id
      /\ \A i \in DOMAIN fills :
           TradeId(t, fills, i) \in next_trade_id .. next_trade_id' - 1
      /\ \A i, j \in DOMAIN fills :
           TradeId(t, fills, i) = TradeId(t, fills, j) => i = j
      /\ \A n \in Nat : next_trade_id <= n /\ n < next_trade_id' =>
           \E i \in DOMAIN fills : TradeId(t, fills, i) = n
  BY TradeIdsOfDeal
<1>3. IsFiniteSet(S)
  BY PublicTradesOfFills
<1>4. /\ \A x \in S : \E i \in DOMAIN fills :
           x = PublicTrade(t, fills, i, at) /\ x.id = TradeId(t, fills, i)
      /\ \A i \in DOMAIN fills : \E x \in S : x.id = TradeId(t, fills, i)
  <2>1. \A i : PublicTrade(t, fills, i, at).id = TradeId(t, fills, i)
    BY DEF PublicTrade
  <2>2. /\ \A x \in S : \E i \in DOMAIN fills : x = PublicTrade(t, fills, i, at)
        /\ \A i \in DOMAIN fills : PublicTrade(t, fills, i, at) \in S
    OBVIOUS
  <2>. HIDE DEF S
  <2>3. QED
    BY <2>1, <2>2
<1>. HIDE DEF S
<1>5. /\ next_trade_id \in Nat \ {0} /\ IsFiniteSet(tape)
      /\ \A y \in tape : y.id \in 1 .. next_trade_id - 1
      /\ \A n \in 1 .. next_trade_id - 1 : \E y \in tape : y.id = n
      /\ \A x, y \in tape : x.id = y.id => x = y
  BY DEF TapeNumbered
<1>6. IsFiniteSet(tape')
  BY <1>1, <1>3, <1>5, FS_Union
<1>7. \A y \in tape' : y.id \in 1 .. next_trade_id' - 1
  BY <1>1, <1>2, <1>4, <1>5
<1>8. \A n \in Nat : 1 <= n /\ n < next_trade_id' => \E y \in tape' : y.id = n
  <2>. SUFFICES ASSUME NEW n \in Nat, 1 <= n, n < next_trade_id'
                PROVE  \E y \in tape' : y.id = n
    OBVIOUS
  <2>1. CASE n < next_trade_id
    <3>1. n \in 1 .. next_trade_id - 1
      BY <1>5, <2>1
    <3>2. QED
      BY <1>1, <1>5, <3>1
  <2>2. CASE next_trade_id <= n
    BY <1>1, <1>2, <1>4, <2>2
  <2>3. QED
    BY <1>5, <2>1, <2>2
<1>9. \A x, y \in tape' : x.id = y.id => x = y
  <2>1. \A x \in S : x.id >= next_trade_id
    BY <1>2, <1>4, <1>5
  <2>2. \A x \in tape : x.id < next_trade_id
    BY <1>5
  <2>3. \A x, y \in S : x.id = y.id => x = y
    BY <1>2, <1>4
  <2>4. \A x \in tape, y \in S : x.id # y.id
    <3>1. \A x \in tape : x.id \in Nat
      BY <1>5
    <3>2. \A x \in S : x.id \in Nat
      BY <1>2, <1>4, <1>5
    <3>3. QED
      BY <1>5, <2>1, <2>2, <3>1, <3>2
  <2>5. QED
    BY <1>1, <1>5, <2>3, <2>4
<1>10. { y.id : y \in tape' } = 1 .. next_trade_id' - 1
  <2>1. next_trade_id' \in Nat
    BY <1>2
  <2>2. \A N \in Nat : \A n \in 1 .. N - 1 : n \in Nat /\ 1 <= n /\ n < N
    OBVIOUS
  <2>3. QED
    BY <1>7, <1>8, <2>1, <2>2
<1>11. QED
  BY <1>2, <1>6, <1>9, <1>10 DEF TapeNumbered

(* The private records of a deal, in terms of its fills. *)
LEMMA PrivateTradesOfDeal ==
  ASSUME Sound, NEW g, NEW id, NEW t, NEW areas, NEW fills, NEW taken, NEW at,
         Deal(g, id, t, areas, fills, taken, at), NEW h \in Gridpool
  PROVE  /\ trades'[h] = trades[h] \cup TakerTrades(g, id, t, fills, h)
                                   \cup MakerTrades(t, fills, h)
         /\ \A x \in TakerTrades(g, id, t, fills, h) :
              /\ h = g /\ x.order_id = id /\ x.side = t.side
              /\ \E i \in DOMAIN fills :
                   /\ x = Trade(t, fills, i, id, t.side, t.area)
                   /\ x.id = TradeId(t, fills, i)
                   /\ Matches(x, PublicTrade(t, fills, i, at))
         /\ \A x \in MakerTrades(t, fills, h) :
              /\ x.side = Opposite(t.side)
              /\ \E i \in DOMAIN fills \cap DOMAIN owner :
                   /\ owner[i] = h /\ x.order_id = i
                   /\ x = Trade(t, fills, i, i, Opposite(t.side), book[i].area)
                   /\ x.id = TradeId(t, fills, i)
                   /\ Matches(x, PublicTrade(t, fills, i, at))
<1>1. t.side \in Side
  BY DEF Deal, DealTerms, GoodTaker
<1>2. trades'[h] = trades[h] \cup TakerTrades(g, id, t, fills, h)
                             \cup MakerTrades(t, fills, h)
  BY DEF Deal, DealEffects, RecordTrades, TakerTrades, MakerTrades
<1>3. \A i : LET x == Trade(t, fills, i, id, t.side, t.area)
             IN /\ x.order_id = id /\ x.side = t.side /\ x.id = TradeId(t, fills, i)
                /\ Matches(x, PublicTrade(t, fills, i, at))
  BY <1>1 DEF Trade, PublicTrade, Matches, Side
<1>4. \A i : LET x == Trade(t, fills, i, i, Opposite(t.side), book[i].area)
             IN /\ x.order_id = i /\ x.side = Opposite(t.side)
                /\ x.id = TradeId(t, fills, i)
                /\ Matches(x, PublicTrade(t, fills, i, at))
  BY <1>1 DEF Trade, PublicTrade, Matches, Side, Opposite
<1>5. \A x \in TakerTrades(g, id, t, fills, h) :
        h = g /\ \E i \in DOMAIN fills : x = Trade(t, fills, i, id, t.side, t.area)
  BY DEF TakerTrades
<1>6. \A x \in MakerTrades(t, fills, h) :
        \E i \in DOMAIN fills \cap DOMAIN owner :
          /\ owner[i] = h
          /\ x = Trade(t, fills, i, i, Opposite(t.side), book[i].area)
  BY DEF MakerTrades
<1>7. QED
  BY <1>2, <1>3, <1>4, <1>5, <1>6

(* A deal on a contract in delivery that no pool has a live order on: it is *)
(* a counterparty's, and trades with other counterparties only.            *)
LEMMA DealLeavesClosed ==
  ASSUME Sound, NEW g, NEW id, NEW t, NEW areas, NEW fills, NEW taken, NEW at,
         Deal(g, id, t, areas, fills, taken, at),
         NEW p \in Period, ClosedToPools(p)
  PROVE  /\ \A h \in Gridpool : \A x \in trades'[h] \ trades[h] : x.period # p
         /\ \A i \in DOMAIN orders' \ DOMAIN orders : orders'[i].period # p
<1>1. DealTerms(g, id, t, areas, fills, taken, at)
  BY DEF Deal
<1>2. ASSUME g \in Gridpool, t.period = p
      PROVE  FALSE
  <2>1. GateClosed(t.period, at)
    BY <1>1, <1>2 DEF DealTerms, ClosedToPools
  <2>2. Live(id) /\ orders[id].period = p /\ id \in DOMAIN orders
    BY <1>1, <1>2, <2>1 DEF DealTerms, Live
  <2>3. QED
    BY <2>2 DEF ClosedToPools
<1>3. ASSUME NEW i \in DOMAIN fills \cap DOMAIN owner
      PROVE  t.period # p
  <2>1. Live(i) /\ i \in DOMAIN orders /\ book[i].period = orders[i].period
    BY DEF Sound, IInv, Consistent, Live, Entry
  <2>2. book[i].period = t.period
    BY <1>1 DEF DealTerms, Makers
  <2>3. QED
    BY <2>1, <2>2 DEF ClosedToPools
<1>4. ASSUME NEW h \in Gridpool, NEW x \in trades'[h] \ trades[h]
      PROVE  x.period # p
  <2>1. x.period = t.period
    BY PrivateTradesOfDeal DEF Trade
  <2>2. g \in Gridpool \/ \E i \in DOMAIN fills \cap DOMAIN owner : TRUE
    BY PrivateTradesOfDeal
  <2>3. QED
    BY <1>2, <1>3, <2>1, <2>2
<1>5. ASSUME NEW i \in DOMAIN orders' \ DOMAIN orders
      PROVE  orders'[i].period # p
  <2>1. g \in Gridpool /\ i = id
    BY DEF Deal, DealOrders
  <2>2. QED
    BY <1>2, <2>1 DEF Deal
<1>6. QED
  BY <1>4, <1>5

(* Once the expiry sweep has closed the pools' orders on a contract in     *)
(* delivery, no pool trades on it again or enters an order, a modification *)
(* and a maker's late quote included.                                      *)
THEOREM WorldClosedForGood == Spec => ClosedForGood
<1>1. Sound /\ [Next]_vars =>
        [ \A p \in Period : ClosedToPools(p) =>
            /\ \A g \in Gridpool : \A x \in trades'[g] \ trades[g] : x.period # p
            /\ \A i \in DOMAIN orders' \ DOMAIN orders :
                 orders'[i].period # p ]_vars
  <2>. SUFFICES ASSUME Sound, [Next]_vars, NEW p \in Period, ClosedToPools(p)
                PROVE  /\ \A g \in Gridpool :
                            \A x \in trades'[g] \ trades[g] : x.period # p
                       /\ \A i \in DOMAIN orders' \ DOMAIN orders :
                            orders'[i].period # p
    OBVIOUS
  <2>1. CASE Quiet
    BY <2>1 DEF Quiet
  <2>2. CASE ~Quiet
    <3>1. PICK g, id, t, areas, fills, taken, at :
            Deal(g, id, t, areas, fills, taken, at)
      BY <2>2, StepKinds
    <3>2. QED
      BY <3>1, DealLeavesClosed
  <2>3. QED
    BY <2>1, <2>2
<1>2. QED
  BY <1>1, QueuesStayInOrder, PTL DEF Spec, ClosedForGood

(* The gates hold by the times the trades carry, and those are the clock's *)
(* for what a pool enters, unless an order is modified (modify_order does  *)
(* not look at the gate).                                                  *)
THEOREM WorldGatesHold == Spec /\ Unmodified => GatesHold
<1>1. Sound /\ [Next]_vars =>
        /\ [~Modification]_vars =>
             [ \A x \in NewTrades : ~GateClosed(x.period, x.time) ]_vars
        /\ [ \A x \in NewTrades :
                /\ x.time <= now
                /\ DOMAIN orders' # DOMAIN orders => x.time = now ]_vars
  <2>. SUFFICES ASSUME Sound, [Next]_vars, NEW x \in NewTrades
                PROVE  /\ ~Modification => ~GateClosed(x.period, x.time)
                       /\ x.time <= now
                       /\ DOMAIN orders' # DOMAIN orders => x.time = now
    OBVIOUS
  <2>1. ~Quiet
    BY NoTradeWhenQuiet
  <2>2. PICK g, id, t, areas, fills, taken, at :
          Deal(g, id, t, areas, fills, taken, at)
    BY <2>1, StepKinds
  <2>3. QED
    BY <2>2, DealHoldsGates
<1>2. Spec /\ Unmodified => NoTradeAfterGate /\ PoolsTradeOnTime
  BY <1>1, QueuesStayInOrder, PTL
     DEF Spec, Unmodified, NoTradeAfterGate, PoolsTradeOnTime
<1>3. QED
  BY <1>2, WorldCrossBorderGateHolds, WorldClosedForGood DEF GatesHold

(* The trades of one side of a deal: finitely many, of the fills' volume.  *)
LEMMA PrivateVolumes ==
  ASSUME Sound, TapeNumbered,
         NEW g, NEW id, NEW t, NEW areas, NEW fills, NEW taken, NEW at,
         Deal(g, id, t, areas, fills, taken, at), NEW h \in Gridpool
  PROVE  /\ IsFiniteSet(TakerTrades(g, id, t, fills, h))
         /\ h = g => Volume(TakerTrades(g, id, t, fills, h)) = taken
         /\ IsFiniteSet(MakerTrades(t, fills, h))
         /\ \A i \in DOMAIN fills :
              LET x == Trade(t, fills, i, i, Opposite(t.side), book[i].area)
              IN Volume({x}) = fills[i]
<1>. DEFINE D    == { j \in DOMAIN fills : h = g }
            E    == { j \in DOMAIN fills \cap DOMAIN owner : owner[j] = h }
            mk(i) == Trade(t, fills, i, i, Opposite(t.side), book[i].area)
            f == [ i \in D |-> Trade(t, fills, i, id, t.side, t.area) ]
            m == [ i \in E |-> mk(i) ]
<1>1. /\ IsFiniteSet(DOMAIN fills) /\ Total(fills) = taken
      /\ \A i \in DOMAIN fills : fills[i] \in 1 .. book[i].qty /\ i \in DOMAIN book
  BY DEF Deal, DealTerms, Makers
<1>2. IsFiniteSet(D) /\ IsFiniteSet(E)
  BY <1>1, FS_Subset
<1>3. \A i, j \in DOMAIN fills :
        TradeId(t, fills, i) = TradeId(t, fills, j) => i = j
  BY TradeIdsOfDeal
<1>4. \A i \in D : f[i].id = TradeId(t, fills, i) /\ f[i].quantity = fills[i]
  BY DEF Trade
<1>5. \A i \in E : m[i].id = TradeId(t, fills, i) /\ m[i].quantity = fills[i]
  BY DEF Trade
<1>6. /\ \A i \in D : f[i] \in TakerTrades(g, id, t, fills, h)
      /\ \A s \in TakerTrades(g, id, t, fills, h) : \E i \in D : f[i] = s
  BY DEF TakerTrades
<1>7. /\ \A i \in E : m[i] \in MakerTrades(t, fills, h)
      /\ \A s \in MakerTrades(t, fills, h) : \E i \in E : m[i] = s
  BY DEF MakerTrades
<1>8. D \subseteq DOMAIN fills /\ E \subseteq DOMAIN fills
      /\ DOMAIN f = D /\ DOMAIN m = E
  OBVIOUS
<1>9. h = g => D = DOMAIN fills
  OBVIOUS
<1>10. ASSUME NEW i \in DOMAIN fills
       PROVE  Volume({mk(i)}) = fills[i]
  <2>. DEFINE s == [ j \in {i} |-> mk(i) ]
  <2>1. DOMAIN s = {i} /\ {i} \subseteq DOMAIN fills /\ IsFiniteSet({i})
    BY FS_Singleton
  <2>2. /\ \A j \in {i} : s[j] \in {mk(i)} /\ s[j].quantity = fills[j]
        /\ \A x \in {mk(i)} : \E j \in {i} : s[j] = x
        /\ \A j, k \in {i} : s[j] = s[k] => j = k
    BY DEF Trade
  <2>3. Taken(fills)[i].qty = fills[i]
    BY DEF Taken
  <2>4. fills[i] \in 1 .. MaxQuantity
    <3>1. book[i].qty \in 1 .. MaxQuantity /\ MaxQuantity \in Nat
      BY <1>1, MatchingAssumption DEF Sound, IInv, GoodBook, BookEntry, Quantity
    <3>2. QED
      BY <1>1, <3>1
  <2>. HIDE DEF s, mk
  <2>5. Volume({mk(i)}) = Depth(Taken(fills), {i})
    <3>1. s \in [{i} -> {mk(i)}]
      BY DEF s
    <3>2. s \in Bijection({i}, {mk(i)})
      BY <2>2, <3>1, Fun_IsBij
    <3>3. QED
      BY <2>1, <2>2, <3>2, VolumeOfFills
  <2>6. Depth(Taken(fills), {i}) = Taken(fills)[i].qty
    BY <2>3, <2>4, DepthOfOne
  <2>7. QED
    BY <2>3, <2>5, <2>6
<1>. HIDE DEF D, E, f, m
<1>11. /\ \A i, j \in D : f[i] = f[j] => i = j
       /\ \A i, j \in E : m[i] = m[j] => i = j
  BY <1>3, <1>4, <1>5, <1>8
<1>12. /\ IsFiniteSet(TakerTrades(g, id, t, fills, h))
       /\ Volume(TakerTrades(g, id, t, fills, h)) = Depth(Taken(fills), D)
  <2>1. \A i \in D : f[i].quantity = fills[i]
    BY <1>4
  <2>2. \A i, j \in D : f[i] = f[j] => i = j
    BY <1>11
  <2>. DEFINE S == TakerTrades(g, id, t, fills, h)
  <2>3. (\A i \in D : f[i] \in S) /\ (\A s \in S : \E i \in D : f[i] = s)
    BY <1>6
  <2>. SUFFICES IsFiniteSet(S) /\ Volume(S) = Depth(Taken(fills), D)
    OBVIOUS
  <2>. HIDE DEF S
  <2>4. IsFiniteSet(D) /\ D \subseteq DOMAIN fills
    BY <1>2, <1>8
  <2>5. f \in [D -> S]
    BY <2>3 DEF f
  <2>6. f \in Bijection(D, S)
    BY <2>2, <2>3, <2>5, Fun_IsBij
  <2>7. QED
    BY <2>1, <2>4, <2>6, VolumeOfFills
<1>13. IsFiniteSet(MakerTrades(t, fills, h))
  <2>1. \A i \in E : m[i].quantity = fills[i]
    BY <1>5
  <2>2. \A i, j \in E : m[i] = m[j] => i = j
    BY <1>11
  <2>. DEFINE S == MakerTrades(t, fills, h)
  <2>3. (\A i \in E : m[i] \in S) /\ (\A s \in S : \E i \in E : m[i] = s)
    BY <1>7
  <2>. SUFFICES IsFiniteSet(S) /\ Volume(S) = Depth(Taken(fills), E)
    OBVIOUS
  <2>. HIDE DEF S
  <2>4. IsFiniteSet(E) /\ E \subseteq DOMAIN fills
    BY <1>2, <1>8
  <2>5. m \in [E -> S]
    BY <2>3 DEF m
  <2>6. m \in Bijection(E, S)
    BY <2>2, <2>3, <2>5, Fun_IsBij
  <2>7. QED
    BY <2>1, <2>4, <2>6, VolumeOfFills
<1>14. h = g => Volume(TakerTrades(g, id, t, fills, h)) = taken
  BY <1>1, <1>9, <1>12 DEF Total
<1>15. QED
  BY <1>10, <1>12, <1>13, <1>14

(* Every new record, of either side, belongs to an order of its pool and   *)
(* is on the tape; no other has its id and side.                           *)
LEMMA DealRecordsTrades ==
  ASSUME History, NEW g, NEW id, NEW t, NEW areas, NEW fills, NEW taken, NEW at,
         Deal(g, id, t, areas, fills, taken, at), [Next]_vars
  PROVE  TradesRecorded'
<1>1. Sound /\ TapeNumbered /\ TradesRecorded
  BY DEF History
<1>. DEFINE K(h) == TakerTrades(g, id, t, fills, h)
            M(h) == MakerTrades(t, fills, h)
<1>2. ASSUME NEW h \in Gridpool
      PROVE  /\ trades'[h] = trades[h] \cup K(h) \cup M(h)
             /\ \A x \in K(h) :
                  /\ h = g /\ x.order_id = id /\ x.side = t.side
                  /\ \E i \in DOMAIN fills :
                       /\ x = Trade(t, fills, i, id, t.side, t.area)
                       /\ x.id = TradeId(t, fills, i)
                       /\ Matches(x, PublicTrade(t, fills, i, at))
             /\ \A x \in M(h) :
                  /\ x.side = Opposite(t.side)
                  /\ \E i \in DOMAIN fills \cap DOMAIN owner :
                       /\ owner[i] = h /\ x.order_id = i
                       /\ x = Trade(t, fills, i, i, Opposite(t.side), book[i].area)
                       /\ x.id = TradeId(t, fills, i)
                       /\ Matches(x, PublicTrade(t, fills, i, at))
  BY <1>1, PrivateTradesOfDeal
<1>3. \A h \in Gridpool : IsFiniteSet(K(h)) /\ IsFiniteSet(M(h))
  BY <1>1, PrivateVolumes
<1>4. /\ \A i \in DOMAIN fills :
           TradeId(t, fills, i) \in next_trade_id .. next_trade_id' - 1
      /\ \A i, j \in DOMAIN fills :
           TradeId(t, fills, i) = TradeId(t, fills, j) => i = j
  BY <1>1, TradeIdsOfDeal
<1>5. \A i \in DOMAIN fills : PublicTrade(t, fills, i, at) \in tape'
  BY DEF Deal, DealEffects, RecordTrades
<1>6. tape \subseteq tape'
  BY DEF Deal, DealEffects, RecordTrades
<1>7. t.side # Opposite(t.side)
  BY DEF Deal, DealTerms, GoodTaker, Side, Opposite
<1>8. \A i \in DOMAIN orders :
        i \in DOMAIN orders' /\ orders'[i].gridpool = orders[i].gridpool
  BY <1>1, OrdersAreKept DEF Kept, SameTerms
<1>9. \A i \in DOMAIN owner : i \in DOMAIN orders /\ owner[i] = orders[i].gridpool
  BY <1>1 DEF Sound, IInv, Consistent
<1>10. g \in Gridpool => id \in DOMAIN orders' /\ orders'[id].gridpool = g
  BY DEF Deal, DealOrders
<1>. HIDE DEF K, M
<1>11. \A h \in Gridpool : IsFiniteSet(trades'[h])
  <2>. SUFFICES ASSUME NEW h \in Gridpool PROVE IsFiniteSet(trades'[h])
    OBVIOUS
  <2>1. IsFiniteSet(trades[h])
    BY <1>1 DEF TradesRecorded
  <2>2. IsFiniteSet(trades[h] \cup K(h))
    BY <1>3, <2>1, FS_Union
  <2>3. IsFiniteSet(trades[h] \cup K(h) \cup M(h))
    BY <1>3, <2>2, FS_Union
  <2>4. QED
    BY <1>2, <2>3
<1>12. ASSUME NEW h \in Gridpool, NEW x \in trades'[h]
       PROVE  /\ x.order_id \in DOMAIN orders' /\ orders'[x.order_id].gridpool = h
              /\ \E y \in tape' : Matches(x, y)
  <2>1. CASE x \in trades[h]
    BY <1>1, <1>6, <1>8, <2>1 DEF TradesRecorded
  <2>2. CASE x \in K(h)
    BY <1>2, <1>5, <1>10, <2>2
  <2>3. CASE x \in M(h)
    <3>1. PICK i \in DOMAIN fills \cap DOMAIN owner :
            /\ owner[i] = h /\ x.order_id = i
            /\ Matches(x, PublicTrade(t, fills, i, at))
      BY <1>2, <2>3
    <3>2. QED
      BY <1>5, <1>8, <1>9, <3>1
  <2>4. QED
    BY <1>2, <2>1, <2>2, <2>3
<1>13. \A h \in Gridpool : \A x \in K(h) \cup M(h) :
         x.id \in next_trade_id .. next_trade_id' - 1
  BY <1>2, <1>4
<1>14. \A h \in Gridpool : \A x \in trades[h] : x.id \in 1 .. next_trade_id - 1
  BY <1>1 DEF TradesRecorded, TapeNumbered, Matches
<1>15. next_trade_id \in Nat
  BY <1>1 DEF TapeNumbered
<1>16. ASSUME NEW h \in Gridpool, NEW k \in Gridpool,
              NEW x \in trades'[h], NEW y \in trades'[k],
              x.id = y.id, x.side = y.side
       PROVE  x = y /\ h = k
  <2>1. x \in trades[h] <=> y \in trades[k]
    BY <1>2, <1>13, <1>14, <1>15, <1>16
  <2>2. CASE x \in trades[h] /\ y \in trades[k]
    BY <1>1, <1>16, <2>2 DEF TradesRecorded
  <2>3. CASE x \in K(h) /\ y \in K(k)
    BY <1>2, <1>4, <1>16, <2>3
  <2>4. CASE x \in M(h) /\ y \in M(k)
    BY <1>2, <1>4, <1>16, <2>4
  <2>5. CASE (x \in K(h) /\ y \in M(k)) \/ (x \in M(h) /\ y \in K(k))
    BY <1>2, <1>7, <1>16, <2>5
  <2>6. /\ x \in trades[h] \/ x \in K(h) \/ x \in M(h)
        /\ y \in trades[k] \/ y \in K(k) \/ y \in M(k)
    BY <1>2
  <2>7. QED
    BY <2>1, <2>2, <2>3, <2>4, <2>5, <2>6
<1>17. QED
  BY <1>11, <1>12, <1>16 DEF TradesRecorded

(* The accounts follow the trades: an order gains exactly the volume of    *)
(* the records it gets, as a maker or as the taker.                        *)
LEMMA DealAccountsFills ==
  ASSUME History, NEW g, NEW id, NEW t, NEW areas, NEW fills, NEW taken, NEW at,
         Deal(g, id, t, areas, fills, taken, at), [Next]_vars
  PROVE  FillsAccounted'
<1>1. Sound /\ TapeNumbered /\ TradesRecorded /\ FillsAccounted
  BY DEF History
<1>. SUFFICES ASSUME NEW i \in DOMAIN orders'
              PROVE  orders'[i].filled = Volume(TradesOf(i)')
  BY DEF FillsAccounted
<1>. DEFINE p == orders'[i].gridpool
            K == TakerTrades(g, id, t, fills, p)
            M == MakerTrades(t, fills, p)
            old == { x \in trades[p] : x.order_id = i }
            mk == Trade(t, fills, i, i, Opposite(t.side), book[i].area)
<1>2. i \in DOMAIN orders => p = orders[i].gridpool /\ old = TradesOf(i)
  BY <1>1, OrdersAreKept DEF Kept, SameTerms, TradesOf
<1>3. i \notin DOMAIN orders => i = id /\ g \in Gridpool
  BY DEF Deal, DealOrders
<1>4. i = id => g \in Gridpool /\ p = g
  BY <1>3 DEF Deal, DealOrders
<1>5. p \in Gridpool
  <2>1. \A j \in DOMAIN orders : orders[j].gridpool \in Gridpool
    BY <1>1 DEF Sound, IInv, Consistent, GoodDetail, OrderDetail
  <2>2. QED
    BY <1>2, <1>3, <1>4, <2>1
<1>6. TradesOf(i)' = { x \in trades'[p] : x.order_id = i }
  BY DEF TradesOf
<1>7. /\ trades'[p] = trades[p] \cup K \cup M
      /\ \A x \in K : p = g /\ x.order_id = id
      /\ \A x \in M : \E j \in DOMAIN fills \cap DOMAIN owner :
           /\ owner[j] = p /\ x.order_id = j
           /\ x = Trade(t, fills, j, j, Opposite(t.side), book[j].area)
  BY <1>1, <1>5, PrivateTradesOfDeal
<1>8. /\ IsFiniteSet(K) /\ (p = g => Volume(K) = taken)
      /\ i \in DOMAIN fills => Volume({mk}) = fills[i]
  BY <1>1, <1>5, PrivateVolumes
<1>9. /\ \A x \in K \cup M : x.id >= next_trade_id
      /\ \A x \in trades[p] : x.id < next_trade_id
  <2>1. /\ \A j \in DOMAIN fills :
             TradeId(t, fills, j) \in next_trade_id .. next_trade_id' - 1
        /\ next_trade_id \in Nat
    BY <1>1, TradeIdsOfDeal DEF TapeNumbered
  <2>2. \A x \in K \cup M : \E j \in DOMAIN fills : x.id = TradeId(t, fills, j)
    BY <1>1, <1>5, PrivateTradesOfDeal
  <2>3. \A x \in trades[p] : x.id \in 1 .. next_trade_id - 1
    BY <1>1, <1>5 DEF TradesRecorded, TapeNumbered, Matches
  <2>4. QED
    BY <2>1, <2>2, <2>3
<1>10. IsFiniteSet(old)
  BY <1>1, <1>5, FS_Subset DEF TradesRecorded
<1>11. id \notin DOMAIN fills
  BY DEF Deal, DealTerms
<1>12. \A x \in trades[p] : x.order_id \in DOMAIN orders
  BY <1>1, <1>5 DEF TradesRecorded
<1>13. (K \cup M) \cap trades[p] = {}
  <2>. SUFFICES ASSUME NEW x \in K \cup M, x \in trades[p] PROVE FALSE
    OBVIOUS
  <2>1. x.id \in 1 .. next_trade_id - 1 /\ next_trade_id \in Nat
    BY <1>1, <1>5 DEF TradesRecorded, TapeNumbered, Matches
  <2>2. x.id >= next_trade_id
    BY <1>9
  <2>3. QED
    BY <2>1, <2>2
<1>14. mk.order_id = i
  BY DEF Trade
<1>15. i \in DOMAIN fills \cap DOMAIN owner /\ owner[i] = p => mk \in M
  BY DEF MakerTrades
<1>16. i \in DOMAIN owner => i \in DOMAIN orders /\ owner[i] = orders[i].gridpool
  BY <1>1 DEF Sound, IInv, Consistent
<1>. HIDE DEF K, M, mk
<1>17. CASE i = id
  <2>1. TradesOf(i)' = old \cup K
    <3>1. \A x \in M : x.order_id # id
      BY <1>7, <1>11
    <3>2. \A x \in trades'[p] : x.order_id = i <=> x \in old \cup K
      BY <1>7, <1>17, <3>1
    <3>3. old \cup K \subseteq trades'[p]
      BY <1>7
    <3>4. QED
      BY <1>6, <3>2, <3>3
  <2>2. old \cap K = {}
    BY <1>13
  <2>. HIDE DEF old
  <2>3. Volume(old \cup K) = Volume(old) + taken
    BY <1>4, <1>8, <1>10, <1>17, <2>2, VolumeAdd
  <2>4. CASE id \in DOMAIN orders
    <3>1. orders'[id].filled = orders[id].filled + taken
      BY <2>4 DEF Deal, DealOrders
    <3>2. orders[id].filled = Volume(old)
      BY <1>1, <1>2, <1>17, <2>4 DEF FillsAccounted
    <3>3. QED
      BY <1>17, <2>1, <2>3, <3>1, <3>2
  <2>5. CASE id \notin DOMAIN orders
    <3>1. old = {}
      BY <1>12, <1>17, <2>5 DEF old
    <3>2. Volume(old) = 0
      <4>1. LotsOf({}) = {}
        BY DEF LotsOf
      <4>2. QED
        BY <3>1, <4>1, FS_EmptySet DEF Volume, LotsOf
    <3>3. orders'[id].filled = taken
      BY <1>4, <1>17, <2>5 DEF Deal, DealOrders
    <3>4. taken \in Nat
      BY MatchingAssumption DEF Deal, DealTerms
    <3>5. QED
      BY <1>17, <2>1, <2>3, <3>2, <3>3, <3>4
  <2>6. QED
    BY <2>4, <2>5
<1>18. CASE i # id
  <2>1. /\ i \in DOMAIN orders
        /\ i \in DOMAIN fills \cap DOMAIN owner =>
             orders'[i].filled = orders[i].filled + fills[i]
        /\ i \notin DOMAIN fills \cap DOMAIN owner => orders'[i] = orders[i]
    BY <1>1, <1>3, <1>18, MakerAfterDeal
  <2>2. orders[i].filled = Volume(old)
    BY <1>1, <1>2, <2>1 DEF FillsAccounted
  <2>3. CASE i \in DOMAIN fills \cap DOMAIN owner
    <3>1. mk \in M
      BY <1>2, <1>15, <1>16, <2>3
    <3>2. \A x \in trades'[p] : x.order_id = i <=> x \in old \cup {mk}
      BY <1>7, <1>14, <1>18 DEF mk
    <3>3. TradesOf(i)' = old \cup {mk}
      BY <1>6, <1>7, <3>1, <3>2
    <3>4. old \cap {mk} = {} /\ IsFiniteSet({mk})
      BY <1>13, <3>1, FS_Singleton
    <3>. HIDE DEF old
    <3>5. Volume(old \cup {mk}) = Volume(old) + fills[i]
      BY <1>8, <1>10, <2>3, <3>4, VolumeAdd
    <3>6. QED
      BY <2>1, <2>2, <2>3, <3>3, <3>5
  <2>4. CASE i \notin DOMAIN fills \cap DOMAIN owner
    <3>1. \A x \in trades'[p] : x.order_id = i <=> x \in old
      BY <1>7, <1>18, <2>4
    <3>2. TradesOf(i)' = old
      BY <1>6, <1>7, <3>1
    <3>3. QED
      BY <2>1, <2>2, <2>4, <3>2
  <2>5. QED
    BY <2>3, <2>4
<1>19. QED
  BY <1>17, <1>18

(* Nothing is recorded at the start. *)
LEMMA HistoryAtStart == Init => History
<1>. SUFFICES ASSUME Init PROVE History
  OBVIOUS
<1>1. Sound
  BY SoundAtStart
<1>2. TapeNumbered
  BY FS_EmptySet DEF Init, TapeNumbered
<1>3. TradesRecorded
  BY FS_EmptySet DEF Init, TradesRecorded
<1>4. FillsAccounted
  BY DEF Init, Empty, FillsAccounted
<1>5. QED
  BY <1>1, <1>2, <1>3, <1>4 DEF History

(* Deals record what they trade, once on each side; quiet steps record     *)
(* nothing.                                                                *)
LEMMA HistoryStays ==
  ASSUME History, [Next]_vars
  PROVE  History'
<1>1. Sound /\ TapeNumbered /\ TradesRecorded /\ FillsAccounted
  BY DEF History
<1>2. Sound'
  BY <1>1, StepKinds
<1>3. CASE Quiet
  <2>1. UNCHANGED <<tape, trades, next_trade_id>> /\ DOMAIN orders' = DOMAIN orders
    BY <1>3 DEF Quiet
  <2>2. \A i \in DOMAIN orders :
          /\ orders'[i].gridpool = orders[i].gridpool
          /\ orders'[i].filled = orders[i].filled
    <3>. SUFFICES ASSUME NEW i \in DOMAIN orders
                  PROVE  /\ orders'[i].gridpool = orders[i].gridpool
                         /\ orders'[i].filled = orders[i].filled
      OBVIOUS
    <3>1. CASE orders'[i] = orders[i]
      BY <3>1
    <3>2. CASE orders'[i] # orders[i]
      <4>1. PICK s \in {"Canceled", "Expired"} :
              orders'[i] = [orders[i] EXCEPT !.state = s]
        BY <1>3, <3>2 DEF Quiet
      <4>2. orders[i] \in OrderDetail
        BY <1>1 DEF Sound, IInv, Consistent, GoodDetail
      <4>3. QED
        BY <4>1, <4>2 DEF OrderDetail
    <3>3. QED
      BY <3>1, <3>2
  <2>3. TapeNumbered'
    BY <1>1, <2>1 DEF TapeNumbered
  <2>4. TradesRecorded'
    BY <1>1, <2>1, <2>2 DEF TradesRecorded
  <2>5. FillsAccounted'
    <3>1. \A i \in DOMAIN orders : TradesOf(i)' = TradesOf(i)
      BY <2>1, <2>2 DEF TradesOf
    <3>2. QED
      BY <1>1, <2>1, <2>2, <3>1 DEF FillsAccounted
  <2>6. QED
    BY <1>2, <2>3, <2>4, <2>5 DEF History
<1>4. ASSUME NEW g, NEW id, NEW t, NEW areas, NEW fills, NEW taken, NEW at,
             Deal(g, id, t, areas, fills, taken, at)
      PROVE  History'
  <2>1. TapeNumbered'
    BY <1>1, <1>4, DealNumbersTape
  <2>2. TradesRecorded'
    BY <1>4, DealRecordsTrades
  <2>3. FillsAccounted'
    BY <1>4, DealAccountsFills
  <2>4. QED
    BY <1>2, <2>1, <2>2, <2>3 DEF History
<1>5. QED
  BY <1>1, <1>3, <1>4, StepKinds

(* The records of all trades always agree: the tape, the private trades of *)
(* both sides and the orders' filled quantities.                           *)
THEOREM HistoryKept == Spec => []History
<1>1. History /\ [Next]_vars => History'
  BY HistoryStays
<1>2. QED
  BY <1>1, HistoryAtStart, PTL DEF Spec

(* Orders, private trades and the public tape tell one story: an order's   *)
(* filled quantity is the volume of its trades, each trade has one record  *)
(* per side and one on the tape, and no trade id is used twice.            *)
THEOREM WorldTradesMatchOrders == Spec => []TradesMatchOrders
<1>1. History => TradesMatchOrders
  <2>. SUFFICES ASSUME History PROVE TradesMatchOrders
    OBVIOUS
  <2>1. TapeNumbered /\ TradesRecorded /\ FillsAccounted
    BY DEF History
  <2>2. \A i \in DOMAIN orders :
          orders[i].filled =
            Volume({ x \in trades[orders[i].gridpool] : x.order_id = i })
    BY <2>1 DEF FillsAccounted, TradesOf
  <2>3. \A g \in Gridpool : \A x \in trades[g] : \E y \in tape :
          /\ y.id = x.id /\ y.period = x.period
          /\ y.price = x.price /\ y.quantity = x.quantity
          /\ x.area = IF x.side = "Buy" THEN y.buy_area ELSE y.sell_area
    BY <2>1 DEF TradesRecorded, Matches
  <2>4. QED
    BY <2>1, <2>2, <2>3 DEF TradesMatchOrders, TapeNumbered, TradesRecorded
<1>2. QED
  BY <1>1, HistoryKept, PTL

-----------------------------------------------------------------------------
(* What has crossed the edges. *)

CrossedOver(e, p) == { x \in tape : x.period = p /\ {x.buy_area, x.sell_area} = e }

(* One sweep debits an edge what it takes across it.  It may overshoot the *)
(* edge's capacity, since capacity is looked at once, before the sweep,    *)
(* but by no more than one order's quantity.                               *)
LEMMA DealDebits ==
  ASSUME Sound, TapeNumbered,
         NEW g, NEW id, NEW t, NEW areas, NEW fills, NEW taken, NEW at,
         Deal(g, id, t, areas, fills, taken, at),
         NEW e \in Edge, NEW p \in Period,
         coupling_fills[<<e, p>>] = Volume(CrossedOver(e, p)),
         Coupling[e].capacity # Uncapped =>
           coupling_fills[<<e, p>>] < Coupling[e].capacity + MaxQuantity
  PROVE  /\ coupling_fills'[<<e, p>>] = Volume(CrossedOver(e, p)')
         /\ Coupling[e].capacity # Uncapped =>
              coupling_fills'[<<e, p>>] < Coupling[e].capacity + MaxQuantity
<1>. DEFINE D == { i \in DOMAIN fills : e = {t.area, book[i].area} /\ p = t.period }
            S == { PublicTrade(t, fills, i, at) : i \in D }
            debit == Depth(Taken(fills), D)
<1>1. D \subseteq DOMAIN fills /\ IsFiniteSet(DOMAIN fills) /\ IsFiniteSet(D)
  BY FS_Subset DEF Deal, DealTerms
<1>2. coupling_fills \in [Edge \X Period -> Nat]
  BY DEF Sound, IInv, Scalars
<1>3. coupling_fills'[<<e, p>>] = coupling_fills[<<e, p>>] + debit
  <2>. DEFINE x == <<e, p>>
              L == { l \in (DOMAIN fills) \X Quantity :
                       /\ x = <<{t.area, book[l[1]].area}, t.period>>
                       /\ l[2] <= fills[l[1]] }
  <2>1. L = Lots(Taken(fills), D)
    BY DEF Lots, Taken, Quantity
  <2>2. Cardinality(L) = debit
    <3>1. debit = Cardinality(Lots(Taken(fills), D))
      BY <1>1, DepthType
    <3>. HIDE DEF L
    <3>2. QED
      BY <2>1, <3>1
  <2>3. coupling_fills'[x] = coupling_fills[x] + Cardinality(L)
    BY DEF Deal, DealEffects, DebitCapacity
  <2>. HIDE DEF L, debit
  <2>4. QED
    BY <2>2, <2>3
<1>4. CrossedOver(e, p)' = CrossedOver(e, p) \cup S
  <2>1. tape' = tape \cup { PublicTrade(t, fills, i, at) : i \in DOMAIN fills }
    BY DEF Deal, DealEffects, RecordTrades
  <2>2. \A i \in DOMAIN fills :
          LET x == PublicTrade(t, fills, i, at)
          IN x.period = p /\ {x.buy_area, x.sell_area} = e <=> i \in D
    <3>1. \A i : LET x == PublicTrade(t, fills, i, at)
                 IN /\ x.period = t.period
                    /\ {x.buy_area, x.sell_area} = {t.area, book[i].area}
      BY DEF PublicTrade
    <3>2. QED
      BY <3>1
  <2>3. QED
    BY <2>1, <2>2 DEF CrossedOver
<1>5. IsFiniteSet(S) /\ Volume(S) = debit /\ S \cap tape = {}
  <2>. HIDE DEF D
  <2>1. LET V == { PublicTrade(t, fills, i, at) : i \in D }
        IN IsFiniteSet(V) /\ Volume(V) = Depth(Taken(fills), D) /\ V \cap tape = {}
    BY <1>1, PublicTradesOfFills
  <2>2. QED
    BY <2>1
<1>6. IsFiniteSet(CrossedOver(e, p)) /\ CrossedOver(e, p) \subseteq tape
  BY FS_Subset DEF CrossedOver, TapeNumbered
<1>7. debit \in Nat
  BY <1>1, DepthType
<1>8. debit <= MaxQuantity /\ MaxQuantity \in Nat
  <2>1. debit <= Total(fills)
    BY <1>1, DepthMonotone DEF Total
  <2>2. Total(fills) \in 0 .. MaxQuantity /\ MaxQuantity \in Nat
    BY MatchingAssumption DEF Deal, DealTerms
  <2>. HIDE DEF debit
  <2>3. QED
    BY <1>7, <2>1, <2>2
<1>9. D = {} => debit = 0
  BY DepthOfNone
<1>10. ASSUME D # {}, Coupling[e].capacity # Uncapped
       PROVE  coupling_fills[<<e, p>>] < Coupling[e].capacity
  <2>1. PICK i \in DOMAIN fills : e = {t.area, book[i].area} /\ p = t.period
    BY <1>10
  <2>2. /\ i \in Makers(book, t, areas)
        /\ areas \subseteq CandidateAreas(t.area, t.period, at)
    BY DEF Deal, DealTerms
  <2>3. book[i].area \in CandidateAreas(t.area, t.period, at)
    BY <2>2 DEF Makers
  <2>4. book[i].area # t.area
    <3>1. PICK a \in Area, c \in Area : a # c /\ e = {a, c}
      BY WorldAssumption
    <3>2. QED
      BY <2>1, <3>1
  <2>5. EdgeOpen(t.area, book[i].area, t.period, at)
    BY <2>3, <2>4 DEF CandidateAreas
  <2>6. RemainingCapacity(e, p) > 0
    BY <1>10, <2>1, <2>5 DEF EdgeOpen
  <2>7. Coupling[e].capacity \in Nat /\ coupling_fills[<<e, p>>] \in Nat
    BY <1>2, <1>10, WorldAssumption
  <2>8. QED
    BY <2>6, <2>7 DEF RemainingCapacity
<1>. HIDE DEF D, S, debit
<1>11. CrossedOver(e, p) \cap S = {}
  BY <1>5, <1>6
<1>12. Volume(CrossedOver(e, p) \cup S) = Volume(CrossedOver(e, p)) + Volume(S)
  BY <1>5, <1>6, <1>11, VolumeAdd
<1>13. coupling_fills'[<<e, p>>] = Volume(CrossedOver(e, p)')
  BY <1>3, <1>4, <1>5, <1>12
<1>14. ASSUME Coupling[e].capacity # Uncapped
       PROVE  coupling_fills'[<<e, p>>] < Coupling[e].capacity + MaxQuantity
  <2>1. Coupling[e].capacity \in Nat /\ coupling_fills[<<e, p>>] \in Nat
    BY <1>2, <1>14, WorldAssumption
  <2>2. QED
    BY <1>3, <1>7, <1>8, <1>9, <1>10, <1>14, <2>1
<1>15. QED
  BY <1>13, <1>14

(* An edge has been debited exactly what the tape shows crossing it, and   *)
(* is overshot by one order at most, however many orders cross it.         *)
THEOREM WorldEdgeDebitsMatchTape == Spec => []EdgeDebitsMatchTape
<1>1. Init => EdgeDebitsMatchTape
  <2>. SUFFICES ASSUME Init, NEW e \in Edge, NEW p \in Period
                PROVE  /\ coupling_fills[<<e, p>>] = Volume(CrossedOver(e, p))
                       /\ Coupling[e].capacity # Uncapped =>
                            coupling_fills[<<e, p>>] < Coupling[e].capacity + MaxQuantity
    BY DEF EdgeDebitsMatchTape, CrossedOver
  <2>1. coupling_fills[<<e, p>>] = 0 /\ CrossedOver(e, p) = {}
    BY DEF Init, CrossedOver
  <2>2. Volume({}) = 0
    <3>1. LotsOf({}) = {}
      BY DEF LotsOf
    <3>2. QED
      BY <3>1, FS_EmptySet DEF Volume, LotsOf
  <2>3. Coupling[e].capacity # Uncapped => Coupling[e].capacity \in Nat
    BY WorldAssumption
  <2>4. QED
    BY <2>1, <2>2, <2>3, MatchingAssumption
<1>2. Sound /\ TapeNumbered /\ EdgeDebitsMatchTape /\ [Next]_vars
        => EdgeDebitsMatchTape'
  <2>. SUFFICES ASSUME Sound, TapeNumbered, EdgeDebitsMatchTape, [Next]_vars,
                       NEW e \in Edge, NEW p \in Period
                PROVE  /\ coupling_fills'[<<e, p>>] = Volume(CrossedOver(e, p)')
                       /\ Coupling[e].capacity # Uncapped =>
                            coupling_fills'[<<e, p>>] < Coupling[e].capacity + MaxQuantity
    BY DEF EdgeDebitsMatchTape, CrossedOver
  <2>1. /\ coupling_fills[<<e, p>>] = Volume(CrossedOver(e, p))
        /\ Coupling[e].capacity # Uncapped =>
             coupling_fills[<<e, p>>] < Coupling[e].capacity + MaxQuantity
    BY DEF EdgeDebitsMatchTape, CrossedOver
  <2>2. CASE Quiet
    <3>1. UNCHANGED <<coupling_fills, tape>>
      BY <2>2 DEF Quiet
    <3>2. CrossedOver(e, p)' = CrossedOver(e, p)
      BY <3>1 DEF CrossedOver
    <3>3. QED
      BY <2>1, <3>1, <3>2
  <2>3. CASE ~Quiet
    <3>1. PICK g, id, t, areas, fills, taken, at :
          Deal(g, id, t, areas, fills, taken, at)
      BY <2>3, StepKinds
    <3>2. QED
      BY <2>1, <3>1, DealDebits
  <2>4. QED
    BY <2>2, <2>3
<1>3. History => Sound /\ TapeNumbered
  BY DEF History
<1>4. QED
  BY <1>1, <1>2, <1>3, HistoryKept, PTL DEF Spec

-----------------------------------------------------------------------------
(* What holds as long as no order is modified: modify_order emits no book  *)
(* event, matches on the order's own area only, and does not ask whether   *)
(* the pool would trade with itself.                                       *)

(* Events for what a step touched, on a view that was up to date, bring it *)
(* up to date.                                                             *)
LEMMA EventsKeepUp ==
  ASSUME shown = book, NEW touched, EmitBookEvents(touched),
         book' = [ i \in DOMAIN book' |-> book'[i] ],
         \A i : i \notin touched =>
           /\ i \in DOMAIN book <=> i \in DOMAIN book'
           /\ i \in DOMAIN book => book'[i] = book[i]
  PROVE  shown' = book'
<1>1. (DOMAIN shown \ touched) \cup (touched \cap DOMAIN book') = DOMAIN book'
  OBVIOUS
<1>2. shown' = [ i \in DOMAIN book' |-> IF i \in touched THEN book'[i] ELSE shown[i] ]
  BY <1>1 DEF EmitBookEvents
<1>3. \A i \in DOMAIN book' : (IF i \in touched THEN book'[i] ELSE shown[i]) = book'[i]
  OBVIOUS
<1>4. QED
  BY <1>2, <1>3

(* An admission announces what it touched: the makers and the leftover.    *)
LEMMA AdmissionIsShown ==
  ASSUME shown = book, NEW g, NEW t, NEW areas, NEW at,
         AdmitAndMatch(g, t, areas, at),
         next_order_id \notin DOMAIN book
  PROVE  shown' = book'
<1>. DEFINE fills == Sweep(book, older, t, areas)
            rest  == Leftover(book, t, areas)
            id    == next_order_id
            left  == AfterFills(book, fills)
            touched == DOMAIN fills \cup IF rest > 0 THEN {id} ELSE {}
<1>1. book' = BooksAfter(book, id, t, fills, rest) /\ EmitBookEvents(touched)
  BY DEF AdmitAndMatch, Rebook
<1>2. /\ left = [ i \in DOMAIN left |-> left[i] ]
      /\ \A i \in DOMAIN book : i \notin DOMAIN fills =>
           i \in DOMAIN left /\ left[i] = book[i]
      /\ DOMAIN left \subseteq DOMAIN book
  BY DEF AfterFills, Consumed
<1>. HIDE DEF left
<1>3. /\ book' = [ i \in DOMAIN book' |-> book'[i] ]
      /\ DOMAIN book' = DOMAIN left \cup (IF rest > 0 THEN {id} ELSE {})
      /\ \A i \in DOMAIN left : i # id => book'[i] = left[i]
  <2>. HIDE DEF fills, rest, id
  <2>1. CASE rest > 0
    BY <1>1, <2>1 DEF BooksAfter, WithEntry, left
  <2>2. CASE ~(rest > 0)
    BY <1>1, <1>2, <2>2 DEF BooksAfter, left
  <2>3. QED
    BY <2>1, <2>2
<1>4. \A i : i \notin touched =>
        /\ i \in DOMAIN book <=> i \in DOMAIN book'
        /\ i \in DOMAIN book => book'[i] = book[i]
  <2>. HIDE DEF fills, rest
  <2>. QED  BY <1>2, <1>3
<1>. HIDE DEF touched
<1>5. QED
  BY <1>1, <1>3, <1>4, EventsKeepUp

(* Orders that leave the books are announced. *)
LEMMA UnrestIsShown ==
  ASSUME shown = book, NEW S, Unrest(S)
  PROVE  shown' = book'
<1>1. book' = [ i \in DOMAIN book \ S |-> book[i] ] /\ EmitBookEvents(S \cap DOMAIN book)
  BY DEF Unrest, Without
<1>2. /\ DOMAIN book' = DOMAIN book \ S
      /\ \A i \in DOMAIN book \ S : book'[i] = book[i]
      /\ book' = [ i \in DOMAIN book' |-> book'[i] ]
  BY <1>1
<1>3. \A i : i \notin S \cap DOMAIN book =>
        /\ i \in DOMAIN book <=> i \in DOMAIN book'
        /\ i \in DOMAIN book => book'[i] = book[i]
  BY <1>2
<1>4. QED
  BY <1>1, <1>2, <1>3, EventsKeepUp

(* Every change of the books but a modification is announced to the        *)
(* subscribers: whoever applies the public book events from the start      *)
(* shows the books as they are.                                            *)
THEOREM WorldShownMatchesBook == Spec /\ Unmodified => []ShownMatchesBook
<1>1. Init => ShownMatchesBook
  BY DEF Init, ShownMatchesBook
<1>2. Sound /\ ShownMatchesBook /\ [Next]_vars /\ [~Modification]_vars
        => ShownMatchesBook'
  <2>. SUFFICES ASSUME Sound, shown = book, [Next]_vars, [~Modification]_vars
                PROVE  shown' = book'
    BY DEF ShownMatchesBook
  <2>1. next_order_id \notin DOMAIN book
    <3>1. next_order_id \in Nat /\ DOMAIN book \subseteq 1 .. next_order_id - 1
      BY WorldAssumption DEF Sound, IInv, Scalars, GoodBook, LastId
    <3>2. QED
      BY <3>1
  <2>2. ASSUME NEW g, NEW o, SubmitOrder(g, o)
        PROVE  shown' = book'
    BY <2>1, <2>2, AdmissionIsShown DEF SubmitOrder
  <2>3. ASSUME NEW o, NEW at, SubmitCounterpartyOrder(o, at)
        PROVE  shown' = book'
    BY <2>1, <2>3, AdmissionIsShown DEF SubmitCounterpartyOrder
  <2>4. ASSUME NEW S, CancelOrders(S)
        PROVE  shown' = book'
    BY <2>4, UnrestIsShown DEF CancelOrders
  <2>5. ASSUME NEW id, CancelCounterpartyOrder(id)
        PROVE  shown' = book'
    BY <2>5, UnrestIsShown DEF CancelCounterpartyOrder
  <2>6. CASE ExpireLapsedOrders
    BY <2>6, UnrestIsShown DEF ExpireLapsedOrders
  <2>7. CASE SetSuspended \/ Tick \/ UNCHANGED vars
    BY <2>7 DEF SetSuspended, Tick, vars
  <2>8. ASSUME Modification
        PROVE  shown' = book'
    BY <2>7, <2>8
  <2>9. QED
    BY <2>2, <2>3, <2>4, <2>5, <2>6, <2>7, <2>8
    DEF Next, CancelOrder, CancelAllOrders, Modification
<1>3. QED
  BY <1>1, <1>2, QueuesStayInOrder, PTL DEF Spec, Unmodified

(* No pool with the policy Reject is on both sides of a trade: its         *)
(* submissions are refused when the sweep would reach an order of its own. *)
THEOREM WorldNoSelfTrade == Spec /\ Unmodified => []NoSelfTrade
<1>1. Init => NoSelfTrade
  BY DEF Init, NoSelfTrade
<1>2. History /\ NoSelfTrade /\ [Next]_vars /\ [~Modification]_vars => NoSelfTrade'
  <2>. SUFFICES ASSUME History, NoSelfTrade, [Next]_vars, [~Modification]_vars,
                       NEW h \in Gridpool, SelfTradePolicy[h] = "Reject",
                       NEW x \in trades'[h], NEW y \in trades'[h], x.id = y.id
                PROVE  x = y
    BY DEF NoSelfTrade
  <2>1. Sound /\ TapeNumbered /\ TradesRecorded
    BY DEF History
  <2>2. \A u, v \in trades[h] : u.id = v.id => u = v
    BY DEF NoSelfTrade
  <2>3. CASE Quiet \/ UNCHANGED vars
    BY <2>2, <2>3 DEF Quiet, vars
  <2>4. CASE ~Quiet /\ vars' # vars
    <3>1. PICK g, id, t, areas, fills, taken, at :
          Deal(g, id, t, areas, fills, taken, at)
      BY <2>1, <2>4, StepKinds
    <3>. DEFINE K == TakerTrades(g, id, t, fills, h)
                M == MakerTrades(t, fills, h)
    <3>2. h = g => \A i \in DOMAIN fills \cap DOMAIN owner : owner[i] # h
      BY <2>4, <3>1 DEF Deal, DealCare
    <3>3. /\ trades'[h] = trades[h] \cup K \cup M
          /\ \A u \in K : h = g /\ u.side = t.side /\
               \E i \in DOMAIN fills : u.id = TradeId(t, fills, i)
          /\ \A u \in M : u.side = Opposite(t.side) /\
               \E i \in DOMAIN fills \cap DOMAIN owner :
                 owner[i] = h /\ u.id = TradeId(t, fills, i)
      BY <2>1, <3>1, PrivateTradesOfDeal
    <3>4. /\ \A i \in DOMAIN fills :
               TradeId(t, fills, i) \in next_trade_id .. next_trade_id' - 1
          /\ next_trade_id \in Nat
      BY <2>1, <3>1, TradeIdsOfDeal DEF TapeNumbered
    <3>5. \A u \in trades[h] : u.id \in 1 .. next_trade_id - 1
      BY <2>1 DEF TradesRecorded, TapeNumbered, Matches
    <3>6. TradesRecorded'
      BY <3>1, DealRecordsTrades
    <3>. HIDE DEF K, M
    <3>7. x.side = y.side => x = y
      BY <3>6 DEF TradesRecorded
    <3>8. \A u \in K \cup M, v \in trades[h] : u.id # v.id
      BY <3>3, <3>4, <3>5
    <3>9. K = {} \/ M = {}
      BY <3>2, <3>3
    <3>10. QED
      BY <2>2, <3>3, <3>7, <3>8, <3>9
  <2>5. QED
    BY <2>3, <2>4
<1>3. QED
  BY <1>1, <1>2, HistoryKept, PTL DEF Spec, Unmodified

(* A coupling that is open was open before: the clock only goes forward,   *)
(* and what has crossed an edge is never given back.                       *)
LEMMA EdgesOnlyClose ==
  ASSUME Sound, Sound', now' >= now,
         \A x \in Edge \X Period : coupling_fills'[x] >= coupling_fills[x],
         NEW a, NEW c, NEW p \in Period, EdgeOpen(a, c, p, now)'
  PROVE  EdgeOpen(a, c, p, now)
<1>. DEFINE e == {a, c}
<1>1. e \in Edge
  BY DEF EdgeOpen
<1>2. /\ now \in Int /\ now' \in Int
      /\ coupling_fills[<<e, p>>] \in Int /\ coupling_fills'[<<e, p>>] \in Int
  <2>1. now \in Time /\ now' \in Time /\ Time \subseteq Int
    BY WorldAssumption DEF Sound, IInv, Scalars, Time
  <2>2. /\ coupling_fills \in [Edge \X Period -> Nat]
        /\ coupling_fills' \in [Edge \X Period -> Nat]
    BY DEF Sound, IInv, Scalars
  <2>3. <<e, p>> \in Edge \X Period
    BY <1>1
  <2>. HIDE DEF e
  <2>4. QED
    BY <2>1, <2>2, <2>3
<1>3. /\ Start[p] \in Int /\ Coupling[e].gate_offset \in Int
      /\ Coupling[e].capacity # Uncapped => Coupling[e].capacity \in Int
  BY <1>1, WorldAssumption DEF Time
<1>4. coupling_fills'[<<e, p>>] >= coupling_fills[<<e, p>>]
  BY <1>1
<1>5. /\ Coupling[e].gate_offset > 0 => now' < Start[p] - Coupling[e].gate_offset
      /\ Coupling[e].capacity # Uncapped =>
           Coupling[e].capacity > coupling_fills'[<<e, p>>]
  BY <1>1, <1>2, <1>3 DEF EdgeOpen, RemainingCapacity
<1>. HIDE DEF e
<1>6. /\ Coupling[e].gate_offset > 0 => now < Start[p] - Coupling[e].gate_offset
      /\ Coupling[e].capacity # Uncapped => RemainingCapacity(e, p) > 0
  BY <1>2, <1>3, <1>4, <1>5 DEF RemainingCapacity
<1>7. QED
  BY <1>1, <1>6 DEF EdgeOpen, e

(* A coupling that is open by the clock is open by an older time too. *)
LEMMA EdgeOpenEarlier ==
  ASSUME now \in Time, NEW a, NEW c, NEW p \in Period, NEW at \in Time, at <= now,
         EdgeOpen(a, c, p, now)
  PROVE  EdgeOpen(a, c, p, at)
<1>. DEFINE off == Coupling[{a, c}].gate_offset
<1>1. {a, c} \in Edge /\ (off > 0 => now < Start[p] - off)
  BY DEF EdgeOpen
<1>2. off \in Int /\ Start[p] \in Int /\ now \in Int /\ at \in Int
  BY <1>1, WorldAssumption DEF Time
<1>. HIDE DEF off
<1>3. off > 0 => at < Start[p] - off
  BY <1>1, <1>2
<1>4. QED
  BY <1>3 DEF EdgeOpen, off

(* A sweep debits: no edge gets capacity back by it. *)
LEMMA DebitsOnlyAdd ==
  ASSUME Sound, NEW t, NEW fills, IsFiniteSet(DOMAIN fills), DebitCapacity(t, fills),
         NEW x \in Edge \X Period
  PROVE  coupling_fills'[x] >= coupling_fills[x]
<1>. DEFINE L == { l \in (DOMAIN fills) \X Quantity :
                     /\ x = <<{t.area, book[l[1]].area}, t.period>>
                     /\ l[2] <= fills[l[1]] }
<1>1. L \subseteq (DOMAIN fills) \X Quantity /\ IsFiniteSet(Quantity)
  BY FS_Interval, MatchingAssumption DEF Quantity
<1>2. IsFiniteSet(L)
  BY <1>1, FS_Product, FS_Subset
<1>3. Cardinality(L) \in Nat
  BY <1>2, FS_CardinalityType
<1>4. coupling_fills'[x] = coupling_fills[x] + Cardinality(L)
  BY DEF DebitCapacity
<1>5. coupling_fills[x] \in Nat
  BY DEF Sound, IInv, Scalars
<1>. HIDE DEF L
<1>6. QED
  BY <1>3, <1>4, <1>5

(* A resting order of a deal's candidate areas that the taker crosses is   *)
(* consumed before the rest of the taker is put on the books.              *)
LEMMA RestCrossesNothing ==
  ASSUME Sound, NEW g, NEW id, NEW t, NEW areas, NEW fills, NEW taken, NEW at,
         Deal(g, id, t, areas, fills, taken, at), DealCare(g, id, t, areas, fills, at),
         id \in DOMAIN book', NEW k \in DOMAIN book', k # id,
         EdgeOpen(t.area, book[k].area, t.period, now),
         book[k].period = t.period, book[k].side = Opposite(t.side)
  PROVE  /\ t.side = "Buy"  => t.price < book[k].price
         /\ t.side = "Sell" => book[k].price < t.price
<1>1. k \in DOMAIN book /\ k \notin Consumed(book, fills)
  BY DEF Deal, DealEffects
<1>2. /\ Consumed(book, fills) = Makers(book, t, areas)
      /\ areas = CandidateAreas(t.area, t.period, at)
  BY DEF DealCare
<1>3. book[k] \in BookEntry
  BY <1>1 DEF Sound, IInv, GoodBook
<1>4. book[k].area \in Area /\ book[k].price \in Int /\ t.price \in Int
  BY <1>3, WorldAssumption DEF BookEntry, Deal, DealTerms, GoodTaker
<1>5. book[k].area \in areas
  <2>1. at \in Time /\ at <= now /\ t.period \in Period /\ now \in Time
    BY DEF Deal, DealTerms, GoodTaker, Sound, IInv, Scalars
  <2>2. EdgeOpen(t.area, book[k].area, t.period, at)
    BY <2>1, EdgeOpenEarlier
  <2>3. QED
    BY <1>2, <1>4, <2>2 DEF CandidateAreas
<1>6. ~Crosses(t.side, t.price, book[k].price)
  BY <1>1, <1>2, <1>5 DEF Makers
<1>7. QED
  BY <1>4, <1>6 DEF Crosses

(* No two orders rest that an open coupling joins and that should have     *)
(* traded: an order that came in while the edge was open has taken what it *)
(* crossed, and an edge that has closed or is used up stays so.            *)
THEOREM WorldNoCrossedEdge == Spec /\ Unmodified => []NoCrossedEdge
<1>1. Init => NoCrossedEdge
  BY DEF Init, Empty, NoCrossedEdge
<1>2. Sound /\ NoCrossedEdge /\ [Next]_vars /\ [~Modification]_vars => NoCrossedEdge'
  <2>. SUFFICES ASSUME Sound, NoCrossedEdge, [Next]_vars, [~Modification]_vars,
                       NEW i \in DOMAIN book', NEW j \in DOMAIN book',
                       EdgeOpen(book[i].area, book[j].area, book[i].period, now)',
                       book'[i].period = book'[j].period,
                       book'[i].side = "Buy", book'[j].side = "Sell"
                PROVE  book'[i].price < book'[j].price
    BY DEF NoCrossedEdge
  <2>1. \A k, l \in DOMAIN book :
          /\ EdgeOpen(book[k].area, book[l].area, book[k].period, now)
          /\ book[k].period = book[l].period
          /\ book[k].side = "Buy" /\ book[l].side = "Sell"
          => book[k].price < book[l].price
    BY DEF NoCrossedEdge
  <2>2. Sound'
    BY StepKinds
  <2>3. book'[i] \in BookEntry /\ book'[j] \in BookEntry
    BY <2>2 DEF Sound, IInv, GoodBook
  <2>4. PICK a, c, p : a = book'[i].area /\ c = book'[j].area /\ p = book'[i].period
    OBVIOUS
  <2>. p \in Period /\ EdgeOpen(a, c, p, now)'
    BY <2>3, <2>4 DEF BookEntry, EdgeOpen, RemainingCapacity
  <2>5. CASE Quiet
    <3>1. /\ i \in DOMAIN book /\ j \in DOMAIN book
          /\ book'[i] = book[i] /\ book'[j] = book[j]
      BY <2>5 DEF Quiet
    <3>2. \A x \in Edge \X Period : coupling_fills'[x] >= coupling_fills[x]
      <4>1. coupling_fills \in [Edge \X Period -> Nat]
        BY DEF Sound, IInv, Scalars
      <4>2. coupling_fills' = coupling_fills
        BY <2>5 DEF Quiet
      <4>3. QED
        BY <4>1, <4>2
    <3>3. now' >= now
      BY <2>5 DEF Quiet
    <3>4. EdgeOpen(a, c, p, now)
      BY <2>2, <3>2, <3>3, EdgesOnlyClose
    <3>5. QED
      BY <2>1, <2>4, <3>1, <3>4
  <2>6. CASE UNCHANGED vars
    <3>1. EdgeOpen(a, c, p, now) /\ book' = book
      BY <2>6 DEF vars, EdgeOpen, RemainingCapacity
    <3>2. QED
      BY <2>1, <2>4, <3>1
  <2>7. CASE ~Quiet /\ vars' # vars
    <3>1. PICK g, id, t, areas, fills, taken, at :
          Deal(g, id, t, areas, fills, taken, at)
      BY <2>7, StepKinds
    <3>2. DealCare(g, id, t, areas, fills, at)
      BY <2>7, <3>1 DEF Deal
    <3>3. /\ now' = now /\ DebitCapacity(t, fills) /\ IsFiniteSet(DOMAIN fills)
          /\ t.side \in Side
      BY <3>1 DEF Deal, DealTerms, DealEffects, GoodTaker
    <3>4. \A x \in Edge \X Period : coupling_fills'[x] >= coupling_fills[x]
      BY <3>3, DebitsOnlyAdd
    <3>5. now' >= now
      BY <3>3, WorldAssumption DEF Sound, IInv, Scalars, Time
    <3>6. EdgeOpen(book'[i].area, book'[j].area, book'[i].period, now)
      BY <2>2, <2>4, <3>4, <3>5, EdgesOnlyClose
    <3>7. \A k \in DOMAIN book' \ {id} : k \in DOMAIN book /\ SameLevel(book'[k], book[k])
      <4>1. ASSUME NEW k \in DOMAIN book' \ {id}
            PROVE  /\ k \in DOMAIN book /\ k \notin Consumed(book, fills)
                   /\ book'[k] = AfterFills(book, fills)[k]
        BY <3>1 DEF Deal, DealEffects
      <4>2. \A k \in DOMAIN book : book[k] \in BookEntry
        BY DEF Sound, IInv, GoodBook
      <4>3. \A k \in DOMAIN book \ Consumed(book, fills) :
              SameLevel(AfterFills(book, fills)[k], book[k])
        BY <4>2 DEF AfterFills, SameLevel, BookEntry
      <4>4. QED
        BY <4>1, <4>3
    <3>8. id \in DOMAIN book' => SameLevel(book'[id], t)
      BY <3>2 DEF DealCare
    <3>9. CASE i # id /\ j # id
      BY <2>1, <3>6, <3>7, <3>9 DEF SameLevel
    <3>10. CASE i = id /\ j # id
      <4>1. /\ EdgeOpen(t.area, book[j].area, t.period, now)
            /\ book[j].period = t.period
            /\ book[j].side = Opposite(t.side) /\ t.side = "Buy"
        BY <3>6, <3>7, <3>8, <3>10 DEF SameLevel, Opposite
      <4>2. t.price < book[j].price
        BY <3>1, <3>2, <3>10, <4>1, RestCrossesNothing
      <4>3. QED
        BY <3>7, <3>8, <3>10, <4>2 DEF SameLevel
    <3>11. CASE i # id /\ j = id
      <4>1. /\ EdgeOpen(book[i].area, t.area, t.period, now)
            /\ book[i].period = t.period
            /\ book[i].side = Opposite(t.side) /\ t.side = "Sell"
        BY <3>6, <3>7, <3>8, <3>11 DEF SameLevel, Opposite
      <4>2. EdgeOpen(t.area, book[i].area, t.period, now)
        <5>1. {book[i].area, t.area} = {t.area, book[i].area}
          OBVIOUS
        <5>2. QED
          BY <4>1, <5>1 DEF EdgeOpen
      <4>3. book[i].price < t.price
        BY <3>1, <3>2, <3>11, <4>1, <4>2, RestCrossesNothing
      <4>4. QED
        BY <3>7, <3>8, <3>11, <4>3 DEF SameLevel
    <3>12. QED
      BY <3>9, <3>10, <3>11
  <2>8. QED
    BY <2>5, <2>6, <2>7
<1>3. QED
  BY <1>1, <1>2, QueuesStayInOrder, PTL DEF Spec, Unmodified
=============================================================================
